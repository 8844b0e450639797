--------------------------- MODULE CopcWriterFile ---------------------------
(***************************************************************************)
(* What the writer has on disk, for every value of its constants: no point *)
(* is in two places, whatever fails; every entry of the hierarchy leads to *)
(* its chunk, and every point accepted is in one place, as long as nothing *)
(* but the adding of a point fails.  Then what a closed file is: it can be *)
(* opened, its header counts its points, and, under the greedy strategy,   *)
(* it holds what the abstract file of CopcStore promises.  Last its        *)
(* layout: which blocks close leaves, and where.                           *)
(***************************************************************************)
EXTENDS CopcWriterProofs

-----------------------------------------------------------------------------
(* Where chunks come from.                                                 *)

(***************************************************************************)
(* The writer writes no block with points but chunks, and tears no block   *)
(* off one.                                                                *)
(***************************************************************************)
NoNewChunk(w, v) == \A b \in v.disk : "points" \in DOMAIN b => b \in w.disk

LEMMA PutNoChunk ==
  ASSUME NEW w, NEW b, "points" \notin DOMAIN b
  PROVE  NoNewChunk(w, Put(w, b))
BY DEF NoNewChunk, Put

LEMMA TornNoChunk ==
  ASSUME NEW w, NEW v \in TornWrite(w)
  PROVE  NoNewChunk(w, v)
<1>1. "points" \notin DOMAIN [at |-> w.pos, len |-> 1]
  OBVIOUS
<1>. QED
  BY <1>1, PutNoChunk DEF TornWrite, NoNewChunk

LEMMA DoneNoChunk ==
  ASSUME NEW w, NEW trailer
  PROVE  /\ NoNewChunk(w, AfterDone(w, trailer))
         /\ \A v \in AfterFailedDone(w, trailer) : NoNewChunk(w, v)
<1>1. NoNewChunk(w, AfterTrailer(w, trailer))
  BY DEF NoNewChunk, AfterTrailer, Put
<1>2. NoNewChunk(w, AfterTableOffset(w, trailer))
  <2>1. \A p : "points" \notin DOMAIN TableOffset(p)
    BY DEF TableOffset
  <2>. QED
    BY <1>1, <2>1 DEF NoNewChunk, AfterTableOffset, Put
<1>3. NoNewChunk(w, AfterDone(w, trailer))
  BY <1>2 DEF NoNewChunk, AfterDone, Put
<1>4. ASSUME NEW v \in AfterFailedDone(w, trailer)
      PROVE  NoNewChunk(w, v)
  <2>1. CASE v \in TornWrite(w)
    BY <2>1, TornNoChunk
  <2>2. CASE v \in {Seek(AfterTrailer(w, trailer), start_pos),
                   AfterTableOffset(w, trailer)}
    BY <1>1, <1>2, <2>2 DEF Seek, NoNewChunk
  <2>3. CASE v \in TornWrite(Seek(AfterTableOffset(w, trailer),
                                 AfterTrailer(w, trailer).pos))
    <3>. DEFINE u == Seek(AfterTableOffset(w, trailer),
                          AfterTrailer(w, trailer).pos)
    <3>1. NoNewChunk(w, u)
      BY <1>2 DEF Seek, NoNewChunk
    <3>2. NoNewChunk(u, v)
      BY <2>3, TornNoChunk
    <3>. QED
      BY <3>1, <3>2 DEF NoNewChunk
  <2>. QED
    BY <2>1, <2>2, <2>3 DEF AfterFailedDone
<1>. QED
  BY <1>3, <1>4

LEMMA EvlrsNoChunk ==
  ASSUME NEW w, NEW trailer, NEW done, NoNewChunk(w, done)
  PROVE  /\ NoNewChunk(w, AfterHierarchy(done))
         /\ NoNewChunk(w, AfterEvlrs(done))
         /\ NoNewChunk(w, AfterHeader(AfterEvlrs(done), done.pos))
         /\ NoNewChunk(w, AfterInfo(AfterHeader(AfterEvlrs(done), done.pos),
                                   ClosedInfo(done.pos)))
<1>1. NoNewChunk(w, AfterHierarchy(done))
  BY DEF NoNewChunk, AfterHierarchy, Put
<1>2. NoNewChunk(w, AfterEvlrs(done))
  BY <1>1 DEF NoNewChunk, AfterEvlrs, AfterForwarded
<1>3. NoNewChunk(w, AfterHeader(AfterEvlrs(done), done.pos))
  BY <1>2 DEF NoNewChunk, AfterHeader, Put
<1>4. NoNewChunk(w, AfterInfo(AfterHeader(AfterEvlrs(done), done.pos),
                            ClosedInfo(done.pos)))
  BY <1>3 DEF NoNewChunk, AfterInfo, Put
<1>. QED
  BY <1>1, <1>2, <1>3, <1>4

LEMMA SeekNoChunk ==
  ASSUME NEW w, NEW v, NoNewChunk(w, v), NEW p
  PROVE  /\ NoNewChunk(w, Seek(v, p))
         /\ \A u \in TornWrite(Seek(v, p)) \cup TornWrite(v) : NoNewChunk(w, u)
<1>1. NoNewChunk(w, Seek(v, p))
  BY DEF NoNewChunk, Seek
<1>2. ASSUME NEW u \in TornWrite(Seek(v, p)) \cup TornWrite(v)
      PROVE  NoNewChunk(w, u)
  <2>1. NoNewChunk(Seek(v, p), u) \/ NoNewChunk(v, u)
    BY TornNoChunk
  <2>. QED
    BY <1>1, <2>1 DEF NoNewChunk
<1>. QED
  BY <1>1, <1>2

(***************************************************************************)
(* The end of close writes no chunk, wherever it fails.                    *)
(***************************************************************************)
LEMMA ClosingNoChunk ==
  ASSUME CloseFinish \/ CloseFinishFails
  PROVE  NoNewChunk(stream, stream')
<1>1. CASE CloseFinish
  <2>. PICK trailer \in TrailerBytes :
         LET done  == AfterDone(stream, trailer)
             evlrs == AfterEvlrs(done)
             info  == ClosedInfo(done.pos)
         IN  stream' = Seek(AfterInfo(AfterHeader(evlrs, done.pos), info), Start)
    BY <1>1 DEF CloseFinish
  <2>. QED
    BY DoneNoChunk, EvlrsNoChunk, SeekNoChunk
<1>2. CASE CloseFinishFails
  <2>. PICK trailer \in TrailerBytes :
     LET done   == AfterDone(stream, trailer)
         evlrs  == AfterEvlrs(done)
         header == AfterHeader(evlrs, done.pos)
         info   == ClosedInfo(done.pos)
     IN  stream' \in AfterFailedDone(stream, trailer)
                       \cup TornWrite(done)
                       \cup TornWrite(AfterHierarchy(done))
                       \cup {evlrs}
                       \cup TornWrite(Seek(evlrs, Start))
                       \cup TornWrite(header) \cup {AfterInfo(header, info)}
    BY <1>2 DEF CloseFinishFails
  <2>. DEFINE done   == AfterDone(stream, trailer)
              evlrs  == AfterEvlrs(done)
              header == AfterHeader(evlrs, done.pos)
              last   == AfterInfo(header, ClosedInfo(done.pos))
  <2>1. /\ NoNewChunk(stream, done) /\ NoNewChunk(stream, AfterHierarchy(done))
        /\ NoNewChunk(stream, evlrs) /\ NoNewChunk(stream, header)
        /\ NoNewChunk(stream, last)
    BY DoneNoChunk, EvlrsNoChunk
  <2>2. CASE stream' \in AfterFailedDone(stream, trailer)
    BY <2>2, DoneNoChunk
  <2>3. CASE stream' \in TornWrite(done) \cup TornWrite(AfterHierarchy(done))
                         \cup {evlrs} \cup TornWrite(Seek(evlrs, Start))
                         \cup TornWrite(header) \cup {last}
    <3>. HIDE DEF done, evlrs, header, last
    <3>. QED
      BY <2>1, <2>3, SeekNoChunk
  <2>. QED
    BY <2>2, <2>3
<1>. QED
  BY <1>1, <1>2

-----------------------------------------------------------------------------
(* No point twice.                                                         *)

(***************************************************************************)
(* What compressing the points leaves behind, whether it fails or not: a   *)
(* part of them in the current chunk, or all of them in a chunk on disk.   *)
(***************************************************************************)
MovesIntoChunk(points) ==
  \/ /\ NoNewChunk(stream, stream')
     /\ current_chunk' \subseteq current_chunk \cup points
  \/ /\ \E b : /\ b.points = current_chunk \cup points
              /\ Chunks' \subseteq Chunks \cup {b}
     /\ current_chunk' = {}

LEMMA AfterChunkMoves ==
  ASSUME NEW points, NEW bytes, stream' = AfterChunk(points, bytes)
  PROVE  \E b : /\ b.points = current_chunk \cup points
               /\ Chunks' \subseteq Chunks \cup {b}
<1>. DEFINE b == [at |-> stream.pos, len |-> bytes,
                  points |-> current_chunk \cup points]
<1>1. stream'.disk \subseteq stream.disk \cup {b}
  BY DEF AfterChunk, Put
<1>2. b.points = current_chunk \cup points
  OBVIOUS
<1>. HIDE DEF b
<1>. QED
  BY <1>1, <1>2 DEF Chunks

LEMMA CompressingMoves ==
  ASSUME NEW points,
         \/ \E bytes \in ChunkBytes : CompressChunk(points, bytes)
         \/ CompressChunkFails(points)
  PROVE  MovesIntoChunk(points)
<1>1. CASE /\ \E bytes \in ChunkBytes : stream' = AfterChunk(points, bytes)
           /\ current_chunk' = {}
  BY <1>1, AfterChunkMoves DEF MovesIntoChunk
<1>2. CASE /\ \E some \in SUBSET points : current_chunk' = current_chunk \cup some
           /\ stream' \in TornWrite(stream)
  BY <1>2, TornNoChunk DEF MovesIntoChunk
<1>. QED
  BY <1>1, <1>2 DEF CompressChunk, CompressChunkFails

(***************************************************************************)
(* A buffer, and perhaps a point not accepted before, move out; the other  *)
(* buffers stay or are dropped.                                            *)
(***************************************************************************)
LEMMA MovedOnce ==
  ASSUME NeverTwice, NEW k \in VoxelKeys, NEW new,
         \A p \in new : p \notin Accepted, Accepted \cup new \subseteq Accepted',
         MovesIntoChunk(open_chunks[k] \cup new),
         open_chunks'[k] = {},
         \A j \in VoxelKeys : open_chunks'[j] \subseteq open_chunks[j]
  PROVE  NeverTwice'
<1>. DEFINE moved == current_chunk \cup open_chunks[k] \cup new
<1>1. /\ moved \subseteq Accepted'
      /\ \A p \in moved : \A c \in Chunks : p \notin c.points
      /\ \A p \in moved : \A j \in VoxelKeys : p \notin open_chunks'[j]
  BY DEF NeverTwice
<1>2. /\ current_chunk' \subseteq moved
      /\ \A c \in Chunks' :
           c \in Chunks \/ (c.points = moved /\ current_chunk' = {})
      /\ \A c, d \in Chunks' : c \in Chunks \/ d \in Chunks \/ c = d
  BY DEF MovesIntoChunk, NoNewChunk, Chunks
<1>. HIDE DEF moved
<1>3. ASSUME NEW j \in VoxelKeys, NEW p \in open_chunks'[j]
      PROVE  /\ p \in Accepted' /\ p \notin current_chunk'
             /\ \A i \in VoxelKeys : p \in open_chunks'[i] => i = j
             /\ \A c \in Chunks' : p \notin c.points
  BY <1>1, <1>2, <1>3 DEF NeverTwice
<1>4. ASSUME NEW c \in Chunks', NEW p \in c.points
      PROVE  /\ p \in Accepted' /\ p \notin current_chunk'
             /\ \A d \in Chunks' : p \in d.points => d = c
  BY <1>1, <1>2, <1>4 DEF NeverTwice
<1>5. current_chunk' \subseteq Accepted'
  BY <1>1, <1>2
<1>. QED
  BY <1>3, <1>4, <1>5 DEF NeverTwice

LEMMA BufferedOnce ==
  ASSUME TypeOK, NeverTwice, NEW p \in Points, NEW k \in VoxelKeys,
         p \notin Accepted, Accepted \cup {p} \subseteq Accepted',
         open_chunks' = Buffered(k, p), UNCHANGED <<stream, current_chunk>>
  PROVE  NeverTwice'
<1>1. \A j \in VoxelKeys :
        open_chunks'[j] = IF j = k THEN open_chunks[j] \cup {p}
                          ELSE open_chunks[j]
  BY DEF Buffered, TypeOK, FileTypeOK
<1>2. Chunks' = Chunks
  BY DEF Chunks
<1>3. /\ p \notin current_chunk
      /\ \A c \in Chunks : p \notin c.points
      /\ \A j \in VoxelKeys : p \notin open_chunks[j]
  BY DEF NeverTwice
<1>4. ASSUME NEW j \in VoxelKeys, NEW q \in open_chunks'[j]
      PROVE  /\ q \in Accepted' /\ q \notin current_chunk'
             /\ \A i \in VoxelKeys : q \in open_chunks'[i] => i = j
             /\ \A c \in Chunks' : q \notin c.points
  <2>1. CASE q = p
    BY <1>1, <1>2, <1>3, <1>4, <2>1
  <2>2. CASE q # p
    <3>1. \A i \in VoxelKeys : q \in open_chunks'[i] => q \in open_chunks[i]
      BY <1>1, <2>2
    <3>2. /\ q \in Accepted /\ q \notin current_chunk
          /\ \A i \in VoxelKeys : q \in open_chunks[i] => i = j
          /\ \A c \in Chunks : q \notin c.points
      BY <1>4, <3>1 DEF NeverTwice
    <3>. QED
      BY <1>2, <3>1, <3>2
  <2>. QED
    BY <2>1, <2>2
<1>. QED
  BY <1>2, <1>4 DEF NeverTwice

LEMMA LeftOnce ==
  ASSUME NeverTwice, Accepted \subseteq Accepted', NoNewChunk(stream, stream'),
         UNCHANGED <<open_chunks, current_chunk>>
  PROVE  NeverTwice'
<1>1. Chunks' \subseteq Chunks
  BY DEF NoNewChunk, Chunks
<1>. QED
  BY <1>1 DEF NeverTwice

LEMMA AddToOnce ==
  ASSUME TypeOK, NeverTwice, NEW p \in Points, NEW k \in VoxelKeys,
         NEW children, NEW write_chunk,
         AddTo(p, k, children, write_chunk),
         p \notin Accepted, Accepted \subseteq Accepted',
         p \in Encodable => p \in Accepted'
  PROVE  NeverTwice'
<1>1. CASE UNCHANGED fileVars
  BY <1>1, LeftOnce DEF NoNewChunk, fileVars, compressorVars, chunkVars
<1>2. CASE /\ p \in Encodable
           /\ open_chunks' = Buffered(k, p)
           /\ UNCHANGED compressorVars
  BY <1>2, BufferedOnce DEF compressorVars, chunkVars
<1>3. CASE /\ p \in Encodable
           /\ open_chunks' = [open_chunks EXCEPT ![k] = {}]
           /\ \/ WriteChunk(k, Buffered(k, p)[k])
              \/ CompressChunkFails(Buffered(k, p)[k])
  <2>1. Buffered(k, p)[k] = open_chunks[k] \cup {p}
    BY DEF Buffered, TypeOK, FileTypeOK
  <2>2. MovesIntoChunk(open_chunks[k] \cup {p})
    BY <1>3, <2>1, CompressingMoves DEF WriteChunk
  <2>3. /\ open_chunks'[k] = {}
        /\ \A j \in VoxelKeys : open_chunks'[j] \subseteq open_chunks[j]
    BY <1>3 DEF TypeOK, FileTypeOK
  <2>. QED
    BY <1>3, <2>2, <2>3, MovedOnce
<1>. QED
  BY <1>1, <1>2, <1>3 DEF AddTo

LEMMA AddPointOnce ==
  ASSUME TypeOK, NeverTwice, NEW p \in Points, AddPoint(p)
  PROVE  NeverTwice'
<1>1. /\ p \notin Accepted /\ Accepted \subseteq Accepted'
      /\ p \in Encodable => p \in Accepted'
  BY DEF AddPoint, Take, Accepted, Valid, InRootBounds
<1>2. ASSUME NEW k \in Home[p], NEW children, NEW write_chunk,
             AddTo(p, k, children, write_chunk)
      PROVE  NeverTwice'
  BY <1>1, <1>2, HomeIsVoxels, AddToOnce
<1>3. ASSUME NEW children, AddPointGreedy(p, children)
      PROVE  NeverTwice'
  <2>1. \A k \in FirstVisited(GreedyNodes(p)) : k \in Home[p]
    BY DEF FirstVisited, GreedyNodes, BelowFull
  <2>2. CASE UNCHANGED fileVars
    BY <1>1, <2>2, LeftOnce DEF NoNewChunk, fileVars, compressorVars, chunkVars
  <2>. QED
    BY <1>2, <1>3, <2>1, <2>2 DEF AddPointGreedy
<1>4. \A levels : \A k \in Drawn(Candidates(p, levels)) : k \in Home[p]
  BY DEF Drawn, Candidates, Visited
<1>. QED
  BY <1>2, <1>3, <1>4 DEF AddPoint, AddPointStochastic

LEMMA DrainingOnce ==
  ASSUME TypeOK, NeverTwice, NEW k \in VoxelKeys, DrainChunk(k) \/ DrainFails(k)
  PROVE  NeverTwice'
<1>1. MovesIntoChunk(open_chunks[k] \cup {})
  <2>1. open_chunks[k] \cup {} = open_chunks[k]
    OBVIOUS
  <2>. QED
    BY <2>1, CompressingMoves DEF DrainChunk, DrainFails, WriteChunk
<1>2. /\ open_chunks'[k] = {}
      /\ \A j \in VoxelKeys : open_chunks'[j] \subseteq open_chunks[j]
  BY DEF DrainChunk, DrainFails, DrainDropped, TypeOK, FileTypeOK
<1>3. Accepted' = Accepted
  BY DEF DrainChunk, DrainFails, ghostVars, Accepted, Valid, InRootBounds
<1>. QED
  BY <1>1, <1>2, <1>3, MovedOnce

LEMMA NeverTwiceInductive ==
  ASSUME TypeOK, NeverTwice, [Next]_vars
  PROVE  NeverTwice'
<1>. DEFINE Leaves == UNCHANGED <<fileVars, Accepted>>
<1>1. Leaves => NeverTwice'
  BY LeftOnce DEF NoNewChunk, fileVars, compressorVars, chunkVars
<1>2. UNCHANGED taken => Accepted' = Accepted
  BY DEF Accepted, Valid, InRootBounds
<1>3. ASSUME NEW n \in NumPoints, CallWrite(n) PROVE NeverTwice'
  BY <1>1, <1>2, <1>3 DEF CallWrite
<1>4. CASE EndOfPoints \/ Unwind \/ CloseRefused \/ DropWriter \/ UNCHANGED vars
  BY <1>1, <1>2, <1>4
  DEF EndOfPoints, Unwind, CloseRefused, DropWriter, vars, ghostVars
<1>5. ASSUME NEW p \in Points, Reject(p) PROVE NeverTwice'
  <2>1. Accepted' = Accepted
    BY <1>5 DEF Reject, Take, Accepted, Valid, InRootBounds
  <2>. QED
    BY <1>1, <1>5, <2>1 DEF Reject
<1>6. ASSUME NEW p \in Points, AddPoint(p) PROVE NeverTwice'
  BY <1>6, AddPointOnce
<1>7. ASSUME NEW k \in VoxelKeys, DrainChunk(k) \/ DrainFails(k)
      PROVE  NeverTwice'
  BY <1>7, DrainingOnce
<1>8. CASE CloseFinish \/ CloseFinishFails
  <2>1. UNCHANGED <<open_chunks, current_chunk, taken>>
    BY <1>8 DEF CloseFinish, CloseFinishFails, chunkVars, ghostVars
  <2>. QED
    BY <1>2, <1>8, <2>1, ClosingNoChunk, LeftOnce
<1>. QED
  BY <1>3, <1>4, <1>5, <1>6, <1>7, <1>8 DEF Next, Running

LEMMA NeverTwiceInit == Init => NeverTwice
<1>. SUFFICES ASSUME Init PROVE NeverTwice
  OBVIOUS
<1>1. \A b \in stream.disk : "points" \notin DOMAIN b
  BY DEF Init, CompressorInit, TableOffset
<1>. QED
  BY <1>1 DEF NeverTwice, Chunks, Init, CompressorInit

(***************************************************************************)
(* No point is in two places, and none is in the file that was not         *)
(* accepted, whatever the strategy, whichever writes fail in add_point or  *)
(* close (writer.rs 545-558, 690-702, compressor.rs 51-75), and whatever   *)
(* calls follow.                                                           *)
(***************************************************************************)
THEOREM NoPointTwice == Spec => []NeverTwice
<1>1. TypeOK /\ NeverTwice /\ [Next]_vars => NeverTwice'
  BY NeverTwiceInductive
<1>. QED
  BY <1>1, NeverTwiceInit, TypeCorrect, PTL DEF Spec

-----------------------------------------------------------------------------
(* What is on disk as long as no write fails.                              *)

(***************************************************************************)
(* While the file is open the compressor writes at its end, where the next *)
(* chunk is taken to start.  Behind the place reserved for the offset of   *)
(* the chunk table lie chunks only, and each has its entry; none of what   *)
(* close writes is there yet.                                              *)
(***************************************************************************)
OpenFile ==
  faults = 0 /\ ~is_closed =>
    /\ current_chunk = {} /\ stale_count = 0
    /\ chunk_start_pos = stream.pos
    /\ start_pos + 8 <= stream.pos
    /\ \A b \in stream.disk :
         /\ b.at \in Nat /\ b.len \in Nat
         /\ b.at + b.len <= stream.pos
         /\ "page" \notin DOMAIN b
         /\ "number_of_points" \notin DOMAIN b
         /\ "start_of_first_evlr" \notin DOMAIN b
    /\ \A b \in Chunks :
         /\ start_pos + 8 <= b.at
         /\ \E i \in DOMAIN hierarchy : hierarchy[i].offset = b.at

(***************************************************************************)
(* A buffer holds points its voxel contains.                               *)
(***************************************************************************)
BuffersAtHome ==
  faults = 0 =>
    \A k \in VoxelKeys : \A p \in open_chunks[k] : k \in Home[p]

(***************************************************************************)
(* No accepted point is lost.                                              *)
(***************************************************************************)
Kept ==
  faults = 0 =>
    \A p \in Accepted : \/ \E k \in VoxelKeys : p \in open_chunks[k]
                        \/ \E b \in Chunks : p \in b.points

(***************************************************************************)
(* The inductive invariant of this module.                                 *)
(***************************************************************************)
OnDisk == OpenFile /\ BuffersAtHome /\ NeverTwice /\ EntriesLocateChunks

-----------------------------------------------------------------------------
(* Writing a chunk.                                                        *)

(***************************************************************************)
(* A block written behind all others leaves them alone.                    *)
(***************************************************************************)
LEMMA PutAtEnd ==
  ASSUME NEW w, NEW b, \A c \in w.disk : c.at + c.len <= b.at
  PROVE  /\ Put(w, b).disk = w.disk \cup {b}
         /\ Put(w, b).pos = b.at + b.len
BY DEF Put, Disjoint

(***************************************************************************)
(* The chunk b and the entry e of the points of node k, at the end of the  *)
(* file.                                                                   *)
(***************************************************************************)
ChunkAtEnd(k, points, b, e) ==
  /\ b \notin stream.disk
  /\ b.at = stream.pos /\ b.len \in Nat /\ b.len # 0
  /\ DOMAIN b = {"at", "len", "points"} /\ b.points = points
  /\ DOMAIN stream' = {"pos", "disk"}
  /\ stream'.disk = stream.disk \cup {b}
  /\ stream'.pos = b.at + b.len
  /\ chunk_start_pos' = stream'.pos
  /\ current_chunk' = {} /\ stale_count' = 0
  /\ e \in Entries
  /\ e.key = k /\ e.offset = b.at /\ e.byte_size = b.len
  /\ e.point_count = Cardinality(points)
  /\ hierarchy' = Append(hierarchy, e)
  /\ Chunks' = Chunks \cup {b}

LEMMA WriteChunkAtEnd ==
  ASSUME TypeOK, OpenFile, faults = 0, ~is_closed,
         NEW k \in VoxelKeys, NEW points \in SUBSET Points,
         WriteChunk(k, points)
  PROVE  \E b, e : ChunkAtEnd(k, points, b, e)
<1>. PICK bytes \in ChunkBytes :
       /\ CompressChunk(points, bytes)
       /\ hierarchy' = Append(hierarchy, EntryOf(k, WrittenChunk(points, bytes)))
  BY DEF WriteChunk
<1>. DEFINE b == [at |-> stream.pos, len |-> bytes, points |-> points]
            e == EntryOf(k, WrittenChunk(points, bytes))
<1>1. /\ bytes \in Nat /\ bytes > 0
      /\ stream.pos \in Nat
      /\ current_chunk = {} /\ stale_count = 0
      /\ chunk_start_pos = stream.pos
      /\ \A c \in stream.disk : c.at + c.len <= stream.pos
  BY CompressorAssumption DEF OpenFile, TypeOK, FileTypeOK
<1>2. stream' = Put(stream, b)
  BY <1>1 DEF CompressChunk, AfterChunk
<1>3. /\ b.at = stream.pos /\ b.len = bytes /\ b.points = points
      /\ DOMAIN b = {"at", "len", "points"}
  OBVIOUS
<1>4. b \notin stream.disk
  BY <1>1, <1>3
<1>5. /\ stream'.disk = stream.disk \cup {b}
      /\ stream'.pos = b.at + b.len
  <2>. HIDE DEF b
  <2>. QED
    BY <1>1, <1>2, <1>3, PutAtEnd
<1>6. /\ chunk_start_pos' = stream'.pos
      /\ current_chunk' = {} /\ stale_count' = 0
      /\ DOMAIN stream' = {"pos", "disk"}
  BY <1>2, <1>5 DEF CompressChunk, NextChunkStart, Put
<1>7. e \in Entries
  BY WrittenChunkType DEF EntryOf, Entries, TypeOK
<1>8. /\ e.key = k /\ e.offset = b.at /\ e.byte_size = b.len
      /\ e.point_count = Cardinality(points)
  <2>1. Cardinality(points) \in Nat
    BY ChunksAreFinite
  <2>. QED
    BY <1>1, <2>1 DEF EntryOf, WrittenChunk
<1>9. Chunks' = Chunks \cup {b}
  BY <1>3, <1>5 DEF Chunks
<1>. HIDE DEF b, e
<1>. QED
  BY <1>1, <1>3, <1>4, <1>5, <1>6, <1>7, <1>8, <1>9 DEF ChunkAtEnd, e

-----------------------------------------------------------------------------
(* What a step does to buffers, chunks and entries.                        *)

(***************************************************************************)
(* The step leaves all of them alone; a point it accepts finds no node.    *)
(***************************************************************************)
LeavesFile ==
  /\ UNCHANGED <<is_closed, fileVars, faults>>
  /\ Accepted \subseteq Accepted'
  /\ result' # NotAdded => Accepted' = Accepted

(***************************************************************************)
(* The step accepts point p for node k, which the walk of the greedy       *)
(* strategy finds below full nodes only.                                   *)
(***************************************************************************)
Accepts(p, k) ==
  /\ p \in Points /\ k \in VoxelKeys
  /\ p \notin Accepted /\ Accepted' = Accepted \cup {p}
  /\ k \in Home[p]
  /\ Greedy(num_points) => k \in BelowFull(p)
  /\ ~is_closed /\ UNCHANGED <<is_closed, faults>>

Buffers(p, k) ==
  /\ Accepts(p, k)
  /\ open_chunks' = Buffered(k, p)
  /\ UNCHANGED <<hierarchy, compressorVars>>

Fills(p, k) ==
  /\ Accepts(p, k)
  /\ open_chunks' = [open_chunks EXCEPT ![k] = {}]
  /\ WriteChunk(k, Buffered(k, p)[k])

Drains(k) ==
  /\ k \in VoxelKeys
  /\ ~is_closed /\ UNCHANGED <<is_closed, faults>>
  /\ Accepted' = Accepted
  /\ open_chunks[k] # {}
  /\ open_chunks' = [open_chunks EXCEPT ![k] = {}]
  /\ WriteChunk(k, open_chunks[k])

(***************************************************************************)
(* The step closes the file, or an error of the stream strikes in it.      *)
(***************************************************************************)
Closes ==
  /\ CloseFinish
  /\ ~is_closed /\ Accepted' = Accepted /\ UNCHANGED faults

Breaks == faults' \in Nat /\ faults' > faults

(***************************************************************************)
(* The points a step takes, and which of them it accepts.                  *)
(***************************************************************************)
LEMMA NothingAccepted ==
  ASSUME UNCHANGED taken
  PROVE  Accepted' = Accepted
BY DEF Accepted, Valid, InRootBounds

LEMMA TakenAccepted ==
  ASSUME NEW p \in Points, Take(p)
  PROVE  /\ p \notin Accepted
         /\ Valid(p) /\ p \in Encodable => Accepted' = Accepted \cup {p}
         /\ ~(Valid(p) /\ p \in Encodable) => Accepted' = Accepted
         /\ Accepted \subseteq Accepted'
BY DEF Take, Accepted, Valid, InRootBounds

(***************************************************************************)
(* Adding a point to a node of its home.                                   *)
(***************************************************************************)
LEMMA AddToPlaces ==
  ASSUME TypeOK, ~is_closed, UNCHANGED is_closed,
         NEW p \in Points, Take(p), Valid(p),
         NEW k \in Home[p], Greedy(num_points) => k \in BelowFull(p),
         NEW children, NEW write_chunk, AddTo(p, k, children, write_chunk)
  PROVE  LeavesFile \/ Breaks \/ Buffers(p, k) \/ Fills(p, k)
<1>1. CASE /\ p \notin Encodable
           /\ UNCHANGED <<fileVars, faults>>
  BY <1>1, TakenAccepted DEF LeavesFile
<1>2. CASE IoFault
  BY <1>2 DEF IoFault, Breaks, TypeOK, CallTypeOK
<1>3. ASSUME p \in Encodable, UNCHANGED faults
      PROVE  Accepts(p, k)
  BY <1>3, TakenAccepted, HomeIsVoxels DEF Accepts
<1>4. CASE /\ p \in Encodable
           /\ open_chunks' = Buffered(k, p)
           /\ UNCHANGED <<hierarchy, compressorVars, faults>>
  BY <1>3, <1>4 DEF Buffers
<1>5. CASE /\ p \in Encodable
           /\ open_chunks' = [open_chunks EXCEPT ![k] = {}]
           /\ WriteChunk(k, Buffered(k, p)[k])
           /\ UNCHANGED faults
  BY <1>3, <1>5 DEF Fills
<1>. QED
  BY <1>1, <1>2, <1>4, <1>5 DEF AddTo

LEMMA AddPointGreedyPlaces ==
  ASSUME TypeOK, ~is_closed, UNCHANGED is_closed,
         NEW p \in Points, Take(p), Valid(p),
         NEW children, AddPointGreedy(p, children)
  PROVE  \/ LeavesFile \/ Breaks
         \/ \E k \in Home[p] : Buffers(p, k) \/ Fills(p, k)
<1>1. CASE Abort(NotAdded) /\ UNCHANGED <<fileVars, faults>>
  BY <1>1, TakenAccepted DEF LeavesFile, Abort
<1>2. ASSUME NEW k \in FirstVisited(GreedyNodes(p)), NEW created,
             AddTo(p, k, created, FillsNode(k))
      PROVE  \/ LeavesFile \/ Breaks
             \/ \E j \in Home[p] : Buffers(p, j) \/ Fills(p, j)
  <2>1. k \in Home[p] /\ k \in BelowFull(p)
    BY DEF FirstVisited, GreedyNodes, BelowFull
  <2>. QED
    BY <1>2, <2>1, AddToPlaces
<1>. QED
  BY <1>1, <1>2 DEF AddPointGreedy

LEMMA AddPointPlaces ==
  ASSUME TypeOK, ClosedIsAtRest, NEW p \in Points, AddPoint(p)
  PROVE  \/ LeavesFile \/ Breaks
         \/ \E k \in VoxelKeys : Buffers(p, k) \/ Fills(p, k)
<1>1. /\ ~is_closed /\ UNCHANGED is_closed
      /\ Take(p) /\ Valid(p)
  BY DEF AddPoint, Take, ClosedIsAtRest, Valid
<1>2. ASSUME NEW children, AddPointGreedy(p, children)
      PROVE  \/ LeavesFile \/ Breaks
             \/ \E k \in VoxelKeys : Buffers(p, k) \/ Fills(p, k)
  BY <1>1, <1>2, AddPointGreedyPlaces, HomeIsVoxels
<1>3. ASSUME NEW levels, AddPointStochastic(p, levels), ~Greedy(num_points)
      PROVE  \/ LeavesFile \/ Breaks
             \/ \E k \in VoxelKeys : Buffers(p, k) \/ Fills(p, k)
  <2>1. ASSUME NEW k \in Drawn(Candidates(p, levels)), NEW created,
               AddTo(p, k, created, point_count[k] + 1 > max_node_size)
        PROVE  \/ LeavesFile \/ Breaks
               \/ \E j \in VoxelKeys : Buffers(p, j) \/ Fills(p, j)
    <3>1. k \in Home[p]
      BY DEF Drawn, Candidates, Visited
    <3>. QED
      BY <1>1, <1>3, <2>1, <3>1, AddToPlaces, HomeIsVoxels
  <2>. QED
    BY <1>2, <1>3, <2>1 DEF AddPointStochastic
<1>. QED
  BY <1>2, <1>3 DEF AddPoint

(***************************************************************************)
(* Every step of the writer is one of these.                               *)
(***************************************************************************)
LEMMA StepsOnDisk ==
  ASSUME TypeOK, ClosedIsAtRest, [Next]_vars
  PROVE  \/ LeavesFile \/ Breaks \/ Closes
         \/ \E p \in Points : \E k \in VoxelKeys : Buffers(p, k) \/ Fills(p, k)
         \/ \E k \in VoxelKeys : Drains(k)
<1>1. ASSUME NEW n \in NumPoints, CallWrite(n)
      PROVE  LeavesFile
  BY <1>1, NothingAccepted DEF CallWrite, LeavesFile
<1>2. CASE EndOfPoints \/ Unwind \/ CloseRefused \/ DropWriter
  BY <1>2, NothingAccepted
  DEF EndOfPoints, Unwind, CloseRefused, DropWriter, LeavesFile, ghostVars
<1>3. ASSUME NEW p \in Points, Reject(p)
      PROVE  LeavesFile
  BY <1>3, TakenAccepted DEF Reject, Valid, LeavesFile
<1>4. ASSUME NEW p \in Points, AddPoint(p)
      PROVE  \/ LeavesFile \/ Breaks
             \/ \E k \in VoxelKeys : Buffers(p, k) \/ Fills(p, k)
  BY <1>4, AddPointPlaces
<1>5. ASSUME NEW k \in VoxelKeys, DrainChunk(k)
      PROVE  Drains(k)
  BY <1>5, NothingAccepted
  DEF DrainChunk, Drains, ClosedIsAtRest, ghostVars
<1>6. ASSUME NEW k \in VoxelKeys, DrainFails(k)
      PROVE  Breaks
  BY <1>6 DEF DrainFails, IoFault, Breaks, TypeOK, CallTypeOK
<1>7. CASE CloseFinish
  BY <1>7, NothingAccepted DEF CloseFinish, Closes, ClosedIsAtRest, ghostVars
<1>8. CASE CloseFinishFails
  BY <1>8 DEF CloseFinishFails, IoFault, Breaks, TypeOK, CallTypeOK
<1>9. CASE UNCHANGED vars
  BY <1>9, NothingAccepted DEF vars, LeavesFile, ghostVars
<1>. QED
  BY <1>1, <1>2, <1>3, <1>4, <1>5, <1>6, <1>7, <1>8, <1>9 DEF Next, Running

-----------------------------------------------------------------------------
(* What close writes.                                                      *)

(***************************************************************************)
(* A block stays where it is when another is written beside it, and a      *)
(* block without points brings no chunk.                                   *)
(***************************************************************************)
LEMMA PutBeside ==
  ASSUME NEW w, NEW b
  PROVE  /\ b \in Put(w, b).disk
         /\ Put(w, b).disk \subseteq w.disk \cup {b}
         /\ \A c \in w.disk : Disjoint(b, c) => c \in Put(w, b).disk
BY DEF Put

LEMMA ForwardedAtEnd ==
  ASSUME NEW w, w.pos \in Nat, NEW v, v = AfterForwarded(w)
  PROVE  /\ \A c \in w.disk : /\ c.at \in Nat /\ c.len \in Nat
                              /\ c.at + c.len <= w.pos
                              => c \in v.disk
         /\ \A c \in v.disk : c \in w.disk \/ DOMAIN c = {"at", "len", "evlr"}
<1>. DEFINE evlr(i) == [at |-> w.pos + 61 * (i - 1), len |-> 61, evlr |-> i]
            evlrs == { evlr(i) : i \in 1 .. ForwardedEvlrs }
<1>1. v.disk = { c \in w.disk : \A b \in evlrs : Disjoint(b, c) } \cup evlrs
  BY DEF AfterForwarded
<1>2. \A i \in 1 .. ForwardedEvlrs :
        DOMAIN evlr(i) = {"at", "len", "evlr"} /\ evlr(i).at >= w.pos
  BY WriterAssumption
<1>3. \A b \in evlrs : DOMAIN b = {"at", "len", "evlr"} /\ b.at >= w.pos
                       /\ b.at \in Int
  <2>1. \A i \in 1 .. ForwardedEvlrs : evlr(i).at \in Int
    BY WriterAssumption
  <2>. QED
    BY <1>2, <2>1
<1>4. ASSUME NEW c \in w.disk, c.at \in Nat, c.len \in Nat,
             c.at + c.len <= w.pos
      PROVE  c \in v.disk
  <2>1. ASSUME NEW i \in 1 .. ForwardedEvlrs
        PROVE  Disjoint(evlr(i), c)
    <3>1. evlr(i).at = w.pos + 61 * (i - 1)
      OBVIOUS
    <3>. HIDE DEF evlr
    <3>. QED
      BY <1>4, <3>1, WriterAssumption DEF Disjoint
  <2>. HIDE DEF evlr
  <2>2. c \in { d \in w.disk : \A b \in evlrs : Disjoint(b, d) }
    BY <2>1
  <2>. QED
    BY <1>1, <2>2
<1>. HIDE DEF evlrs
<1>. QED
  BY <1>1, <1>3, <1>4

(***************************************************************************)
(* The file close leaves behind: the header h, the page e of the           *)
(* hierarchy, the info i and the chunk table t where the header and the    *)
(* offset in front of the chunks say, no other header or page, and the     *)
(* chunks as they were.                                                    *)
(***************************************************************************)
ClosedFile(h, e, i, t) ==
  /\ {h, e, i, t, TableOffset(t.at)} \subseteq stream'.disk
  /\ h.at = Start
  /\ "start_of_first_evlr" \in DOMAIN h /\ "number_of_points" \in DOMAIN h
  /\ h.number_of_evlrs = 1 + ForwardedEvlrs
  /\ h.number_of_points = number_of_points
  /\ e.at = h.start_of_first_evlr /\ "page" \in DOMAIN e
  /\ e.page = hierarchy
  /\ i.at = Start + HeaderBytes /\ "info" \in DOMAIN i
  /\ i.info.root_hier_offset = e.at + 60
  /\ i.info.root_hier_size = e.len - 60
  /\ "table" \in DOMAIN t /\ t.table = chunk_table
  /\ \A b \in stream'.disk :
       /\ "start_of_first_evlr" \in DOMAIN b => b = h
       /\ "number_of_points" \in DOMAIN b => b = h
       /\ "page" \in DOMAIN b => b = e
  /\ Chunks' = Chunks

(***************************************************************************)
(* The writes of close, one after the other: which blocks of the one       *)
(* before are kept, and what the new block is.                             *)
(***************************************************************************)
LEMMA CloseWritesFile ==
  ASSUME TypeOK, OpenFile, faults = 0, ~is_closed, CloseFinish
  PROVE  \E h, e, i, t : ClosedFile(h, e, i, t)
<1>. PICK trailer \in TrailerBytes :
       LET done  == AfterDone(stream, trailer)
           evlrs == AfterEvlrs(done)
           info  == ClosedInfo(done.pos)
       IN  /\ stream' = Seek(AfterInfo(AfterHeader(evlrs, done.pos), info),
                             Start)
           /\ copc_info' = info
  BY DEF CloseFinish
<1>. DEFINE w1 == AfterTrailer(stream, trailer)
            w2 == AfterTableOffset(stream, trailer)
            w3 == AfterDone(stream, trailer)
            w4 == AfterHierarchy(w3)
            w5 == AfterForwarded(w4)
            w6 == AfterHeader(w5, w3.pos)
            w7 == AfterInfo(w6, ClosedInfo(w3.pos))
            o == TableOffset(w1.pos)
            t == [at |-> w1.pos, len |-> TableBytes, table |-> chunk_table]
            e == [at |-> w3.pos, len |-> 60 + 32 * Len(hierarchy),
                  page |-> hierarchy]
            h == [at |-> Start, len |-> HeaderBytes,
                  start_of_first_evlr  |-> w3.pos,
                  number_of_evlrs      |-> NumberOfEvlrs,
                  offset_to_point_data |-> start_pos - Start,
                  number_of_points     |-> number_of_points]
            i == [at |-> Start + HeaderBytes, len |-> InfoBytes,
                  info |-> ClosedInfo(w3.pos)]
<1>0. /\ Start \in Nat /\ HeaderBytes \in Nat /\ InfoBytes \in Nat
      /\ TableBytes \in Nat /\ trailer \in Nat /\ start_pos \in Nat
      /\ ForwardedEvlrs \in Nat /\ Len(hierarchy) \in Nat
      /\ Start + HeaderBytes + InfoBytes <= start_pos
      /\ stream.pos \in Nat /\ start_pos + 8 <= stream.pos
  BY CompressorAssumption, WriterAssumption
  DEF start_pos, OpenFile, TypeOK, FileTypeOK
<1>1. /\ w1.pos = stream.pos + trailer
      /\ \A c \in stream.disk : c.at + c.len <= stream.pos => c \in w1.disk
      /\ \A c \in w1.disk : c \in stream.disk \/ DOMAIN c = {"at", "len"}
  <2>1. CASE trailer = 0
    BY <1>0, <2>1 DEF AfterTrailer
  <2>2. CASE trailer # 0
    <3>. DEFINE b == [at |-> stream.pos, len |-> trailer]
    <3>1. w1 = Put(stream, b)
      BY <2>2 DEF AfterTrailer
    <3>2. DOMAIN b = {"at", "len"} /\ b.at = stream.pos /\ b.len = trailer
      OBVIOUS
    <3>. HIDE DEF b
    <3>. QED
      BY <1>0, <3>1, <3>2 DEF Put, Disjoint
  <2>. QED
    BY <2>1, <2>2
<1>2. /\ o \in w2.disk
      /\ \A c \in w1.disk : start_pos + 8 <= c.at => c \in w2.disk
      /\ w2.disk \subseteq w1.disk \cup {o}
      /\ o.at = start_pos /\ o.len = 8
      /\ DOMAIN o = {"at", "len", "table_offset"}
  BY <1>0 DEF AfterTableOffset, Put, Disjoint, TableOffset
<1>3. /\ w3.pos = w1.pos + TableBytes
      /\ t \in w3.disk
      /\ \A c \in w2.disk : c.at + c.len <= w1.pos => c \in w3.disk
      /\ w3.disk \subseteq w2.disk \cup {t}
      /\ t.at = w1.pos /\ t.len = TableBytes
      /\ DOMAIN t = {"at", "len", "table"} /\ t.table = chunk_table
  BY <1>0, <1>1 DEF AfterDone, Put, Disjoint
<1>4. /\ w4.pos = w3.pos + 60 + 32 * Len(hierarchy)
      /\ e \in w4.disk
      /\ \A c \in w3.disk : c.at + c.len <= w3.pos => c \in w4.disk
      /\ w4.disk \subseteq w3.disk \cup {e}
      /\ e.at = w3.pos /\ e.len = 60 + 32 * Len(hierarchy)
      /\ DOMAIN e = {"at", "len", "page"} /\ e.page = hierarchy
  BY <1>0, <1>1, <1>3 DEF AfterHierarchy, Put, Disjoint
<1>5. /\ w1.pos \in Nat /\ w3.pos \in Nat /\ w4.pos \in Nat
      /\ stream.pos <= w1.pos /\ w1.pos <= w3.pos /\ w3.pos <= w4.pos
  <2>. HIDE DEF w1, w3, w4
  <2>1. w1.pos = stream.pos + trailer
    BY <1>1
  <2>2. w3.pos = w1.pos + TableBytes
    BY <1>3
  <2>3. w4.pos = w3.pos + 60 + 32 * Len(hierarchy)
    BY <1>4
  <2>4. /\ trailer \in Nat /\ TableBytes \in Nat /\ Len(hierarchy) \in Nat
        /\ stream.pos \in Nat
    BY <1>0
  <2>5. w1.pos \in Nat /\ stream.pos <= w1.pos
    BY <2>1, <2>4
  <2>6. w3.pos \in Nat /\ w1.pos <= w3.pos
    BY <2>2, <2>4, <2>5
  <2>. QED
    BY <2>3, <2>4, <2>5, <2>6
<1>6. /\ \A c \in w4.disk : /\ c.at \in Nat /\ c.len \in Nat
                          /\ c.at + c.len <= w4.pos
                          => c \in w5.disk
      /\ \A c \in w5.disk : c \in w4.disk \/ DOMAIN c = {"at", "len", "evlr"}
  <2>. HIDE DEF w4
  <2>. QED
    BY <1>5, ForwardedAtEnd
<1>7. /\ h \in w6.disk
      /\ \A c \in w5.disk : Start + HeaderBytes <= c.at => c \in w6.disk
      /\ w6.disk \subseteq w5.disk \cup {h}
  BY <1>0 DEF AfterHeader, Put, Disjoint
<1>8. /\ h.at = Start /\ h.len = HeaderBytes
      /\ h.start_of_first_evlr = w3.pos
      /\ h.number_of_evlrs = 1 + ForwardedEvlrs
      /\ h.number_of_points = number_of_points
      /\ "points" \notin DOMAIN h /\ "page" \notin DOMAIN h
      /\ "start_of_first_evlr" \in DOMAIN h /\ "number_of_points" \in DOMAIN h
  BY <1>0 DEF NumberOfEvlrs
<1>9. /\ i \in w7.disk
      /\ \A c \in w6.disk : \/ Start + HeaderBytes + InfoBytes <= c.at
                           \/ c.at + c.len <= Start + HeaderBytes
                           => c \in w7.disk
      /\ w7.disk \subseteq w6.disk \cup {i}
      /\ i.at = Start + HeaderBytes /\ DOMAIN i = {"at", "len", "info"}
  BY <1>0 DEF AfterInfo, Put, Disjoint
<1>10. /\ i.info.root_hier_offset = w3.pos + 60
       /\ i.info.root_hier_size = 32 * Len(hierarchy)
  <2>1. copc_info \in [gpstime_minimum : Int, gpstime_maximum : Int,
                       root_hier_offset : Nat, root_hier_size : Nat,
                       root_points : Nat]
    BY DEF TypeOK, StatTypeOK
  <2>. QED
    BY <2>1 DEF ClosedInfo, HierarchyData
<1>11. stream'.disk = w7.disk
  BY DEF Seek, AfterEvlrs
<1>. HIDE DEF w1, w2, w3, w4, w5, w6, w7, o, t, e, h, i
<1>12. ASSUME NEW c \in w4.disk, c.at \in Nat, c.len \in Nat,
              start_pos <= c.at, c.at + c.len <= w4.pos
       PROVE  c \in stream'.disk
  <2>1. c \in w5.disk
    BY <1>6, <1>12
  <2>. QED
    BY <1>0, <1>7, <1>9, <1>11, <1>12, <2>1
<1>13. ASSUME NEW c \in w2.disk, c.at \in Nat, c.len \in Nat,
              start_pos <= c.at, c.at + c.len <= w1.pos
       PROVE  c \in stream'.disk
  <2>1. c \in w3.disk
    BY <1>3, <1>13
  <2>2. c.at + c.len <= w3.pos /\ c.at + c.len <= w4.pos
    BY <1>5, <1>13
  <2>. QED
    BY <1>4, <1>12, <1>13, <2>1, <2>2
<1>14. ASSUME NEW c \in stream.disk, c.at \in Nat, c.len \in Nat,
              start_pos + 8 <= c.at, c.at + c.len <= stream.pos
       PROVE  c \in stream'.disk
  <2>1. c \in w2.disk
    BY <1>1, <1>2, <1>14
  <2>. QED
    BY <1>0, <1>5, <1>13, <1>14, <2>1
<1>15. {o, t, e} \subseteq stream'.disk
  <2>1. o \in stream'.disk
    BY <1>0, <1>2, <1>5, <1>13
  <2>2. t \in stream'.disk
    <3>1. t \in w4.disk
      BY <1>0, <1>3, <1>4, <1>5
    <3>. QED
      BY <1>0, <1>3, <1>5, <1>12, <3>1
  <2>3. e \in stream'.disk
    <3>1. e.at \in Nat /\ start_pos <= e.at
      BY <1>0, <1>4, <1>5
    <3>2. e.len \in Nat
      BY <1>0, <1>4
    <3>3. e.at + e.len <= w4.pos
      BY <1>0, <1>4, <1>5
    <3>. QED
      BY <1>4, <1>12, <3>1, <3>2, <3>3
  <2>. QED
    BY <2>1, <2>2, <2>3
<1>16. h \in stream'.disk /\ i \in stream'.disk
  BY <1>0, <1>7, <1>8, <1>9, <1>11
<1>17. \A b \in stream'.disk :
         \/ b \in stream.disk
         \/ DOMAIN b \in {{"at", "len"}, {"at", "len", "evlr"}}
         \/ b \in {o, t, e, h, i}
  BY <1>1, <1>2, <1>3, <1>4, <1>6, <1>7, <1>9, <1>11
<1>18. \A b \in stream'.disk :
         /\ "points" \in DOMAIN b => b \in stream.disk
         /\ "start_of_first_evlr" \in DOMAIN b => b = h
         /\ "number_of_points" \in DOMAIN b => b = h
         /\ "page" \in DOMAIN b => b = e
  BY <1>2, <1>3, <1>4, <1>8, <1>9, <1>17 DEF OpenFile
<1>19. Chunks' = Chunks
  BY <1>14, <1>18 DEF Chunks, OpenFile
<1>20. o = TableOffset(t.at)
  BY <1>3 DEF o
<1>. QED
  <2>1. e.at = h.start_of_first_evlr /\ i.info.root_hier_offset = e.at + 60
    BY <1>4, <1>8, <1>10
  <2>2. i.info.root_hier_size = e.len - 60
    BY <1>0, <1>4, <1>10
  <2>3. {h, e, i, t, TableOffset(t.at)} \subseteq stream'.disk
    BY <1>15, <1>16, <1>20
  <2>4. ClosedFile(h, e, i, t)
    BY <1>3, <1>4, <1>8, <1>9, <1>18, <1>19, <2>1, <2>2, <2>3 DEF ClosedFile
  <2>. QED
    BY <2>4

-----------------------------------------------------------------------------
(* Entries lead to chunks, and points are in one place.                    *)

(***************************************************************************)
(* A new chunk with its entry: node k gives points away, all of them in    *)
(* its voxel.                                                              *)
(***************************************************************************)
LEMMA ChunkKeepsOpenFile ==
  ASSUME TypeOK, OpenFile, faults = 0, ~is_closed,
         NEW k, NEW points, NEW b, NEW e, ChunkAtEnd(k, points, b, e)
  PROVE  OpenFile'
<1>1. /\ DOMAIN hierarchy' = 1 .. (Len(hierarchy) + 1)
      /\ DOMAIN hierarchy = 1 .. Len(hierarchy) /\ Len(hierarchy) \in Nat
      /\ \A i \in DOMAIN hierarchy : hierarchy'[i] = hierarchy[i]
      /\ hierarchy'[Len(hierarchy) + 1] = e
  BY AppendedEntry DEF ChunkAtEnd, TypeOK, FileTypeOK
<1>2. /\ stream.pos \in Nat /\ start_pos \in Nat
      /\ b.at = stream.pos /\ b.len \in Nat
  BY StreamPositions DEF TypeOK, FileTypeOK, ChunkAtEnd
<1>3. start_pos + 8 <= stream.pos /\ start_pos + 8 <= stream'.pos
  BY <1>2 DEF OpenFile, ChunkAtEnd
<1>4. ASSUME NEW c \in stream'.disk
      PROVE  /\ c.at \in Nat /\ c.len \in Nat
             /\ c.at + c.len <= stream'.pos
             /\ "page" \notin DOMAIN c
             /\ "number_of_points" \notin DOMAIN c
             /\ "start_of_first_evlr" \notin DOMAIN c
  <2>1. CASE c \in stream.disk
    <3>1. stream.pos <= stream'.pos /\ stream'.pos \in Nat
      BY <1>2 DEF ChunkAtEnd
    <3>. QED
      BY <1>2, <2>1, <3>1 DEF OpenFile
  <2>2. CASE c = b
    <3>1. c.at \in Nat /\ c.len \in Nat /\ c.at + c.len <= stream'.pos
      BY <1>2, <2>2 DEF ChunkAtEnd
    <3>2. DOMAIN c = {"at", "len", "points"}
      BY <2>2 DEF ChunkAtEnd
    <3>. QED
      BY <3>1, <3>2
  <2>. QED
    BY <2>1, <2>2 DEF ChunkAtEnd
<1>5. ASSUME NEW c \in Chunks'
      PROVE  /\ start_pos + 8 <= c.at
             /\ \E i \in DOMAIN hierarchy' : hierarchy'[i].offset = c.at
  <2>1. CASE c \in Chunks
    BY <1>1, <2>1 DEF OpenFile
  <2>2. CASE c = b
    BY <1>1, <1>2, <1>3, <2>2 DEF ChunkAtEnd
  <2>. QED
    BY <2>1, <2>2 DEF ChunkAtEnd
<1>. QED
  BY <1>3, <1>4, <1>5 DEF OpenFile, ChunkAtEnd

LEMMA ChunkKeepsEntries ==
  ASSUME TypeOK, EntriesLocateChunks, faults = 0,
         NEW k, NEW points, \A p \in points : k \in Home[p],
         NEW b, NEW e, ChunkAtEnd(k, points, b, e)
  PROVE  EntriesLocateChunks'
<1>1. /\ DOMAIN hierarchy' = 1 .. (Len(hierarchy) + 1)
      /\ DOMAIN hierarchy = 1 .. Len(hierarchy) /\ Len(hierarchy) \in Nat
      /\ \A i \in DOMAIN hierarchy : hierarchy'[i] = hierarchy[i]
      /\ hierarchy'[Len(hierarchy) + 1] = e
  BY AppendedEntry DEF ChunkAtEnd, TypeOK, FileTypeOK
<1>2. ASSUME NEW i \in DOMAIN hierarchy'
      PROVE  \E c \in Chunks' :
               /\ c.at = hierarchy'[i].offset
               /\ c.len = hierarchy'[i].byte_size
               /\ Cardinality(c.points) = hierarchy'[i].point_count
               /\ \A p \in c.points : hierarchy'[i].key \in Home[p]
  <2>1. CASE i \in DOMAIN hierarchy
    BY <1>1, <2>1 DEF EntriesLocateChunks, ChunkAtEnd
  <2>2. CASE i = Len(hierarchy) + 1
    BY <1>1, <2>2 DEF ChunkAtEnd
  <2>. QED
    BY <1>1, <2>1, <2>2
<1>3. Home' = Home
  BY DEF Home
<1>. QED
  BY <1>2, <1>3 DEF EntriesLocateChunks

(***************************************************************************)
(* The points of a chunk are those of the buffer it replaces, and perhaps  *)
(* the point just accepted, so none is left behind.                        *)
(***************************************************************************)
LEMMA ChunkKeepsPoints ==
  ASSUME TypeOK, Kept, faults = 0,
         NEW k \in VoxelKeys, NEW new \in SUBSET Points,
         Accepted' = Accepted \cup new,
         open_chunks' = [open_chunks EXCEPT ![k] = {}],
         NEW b, NEW e, ChunkAtEnd(k, open_chunks[k] \cup new, b, e)
  PROVE  Kept'
<1>1. /\ open_chunks'[k] = {}
      /\ \A j \in VoxelKeys : j # k => open_chunks'[j] = open_chunks[j]
  BY DEF TypeOK, FileTypeOK
<1>2. Chunks' = Chunks \cup {b} /\ b.points = open_chunks[k] \cup new
  BY DEF ChunkAtEnd
<1>. QED
  BY <1>1, <1>2 DEF Kept

(***************************************************************************)
(* The chunk a step writes.                                                *)
(***************************************************************************)
LEMMA FillsChunk ==
  ASSUME TypeOK, OnDisk, NeverTwice', faults = 0,
         NEW p \in Points, NEW k \in VoxelKeys, Fills(p, k)
  PROVE  /\ OnDisk'
         /\ Kept => Kept'
         /\ \E b, e : ChunkAtEnd(k, open_chunks[k] \cup {p}, b, e)
<1>1. Buffered(k, p)[k] = open_chunks[k] \cup {p}
  BY DEF Buffered, TypeOK, FileTypeOK
<1>2. PICK b, e : ChunkAtEnd(k, open_chunks[k] \cup {p}, b, e)
  <2>1. open_chunks[k] \cup {p} \in SUBSET Points
    BY DEF TypeOK, FileTypeOK
  <2>. QED
    BY <1>1, <2>1, WriteChunkAtEnd DEF Fills, Accepts, OnDisk
<1>3. OpenFile'
  BY <1>2, ChunkKeepsOpenFile DEF OnDisk, Fills, Accepts
<1>4. EntriesLocateChunks'
  <2>1. \A q \in open_chunks[k] \cup {p} : k \in Home[q]
    BY DEF OnDisk, BuffersAtHome, Fills, Accepts
  <2>. QED
    BY <1>2, <2>1, ChunkKeepsEntries DEF OnDisk
<1>5. Kept => Kept'
  BY <1>2, ChunkKeepsPoints DEF Fills, Accepts
<1>6. BuffersAtHome'
  BY DEF OnDisk, BuffersAtHome, Fills, TypeOK, FileTypeOK, Home
<1>. QED
  BY <1>2, <1>3, <1>4, <1>5, <1>6 DEF OnDisk

LEMMA DrainsChunk ==
  ASSUME TypeOK, OnDisk, NeverTwice', faults = 0,
         NEW k \in VoxelKeys, Drains(k)
  PROVE  /\ OnDisk'
         /\ Kept => Kept'
         /\ \E b, e : ChunkAtEnd(k, open_chunks[k], b, e)
<1>1. PICK b, e : ChunkAtEnd(k, open_chunks[k], b, e)
  <2>1. open_chunks[k] \in SUBSET Points
    BY DEF TypeOK, FileTypeOK
  <2>. QED
    BY <2>1, WriteChunkAtEnd DEF Drains, OnDisk
<1>2. OpenFile'
  BY <1>1, ChunkKeepsOpenFile DEF OnDisk, Drains
<1>3. EntriesLocateChunks'
  BY <1>1, ChunkKeepsEntries DEF OnDisk, BuffersAtHome
<1>4. Kept => Kept'
  <2>1. open_chunks[k] = open_chunks[k] \cup {} /\ Accepted' = Accepted \cup {}
    BY DEF Drains
  <2>. QED
    BY <1>1, <2>1, ChunkKeepsPoints DEF Drains
<1>5. BuffersAtHome'
  BY DEF OnDisk, BuffersAtHome, Drains, TypeOK, FileTypeOK, Home
<1>. QED
  BY <1>1, <1>2, <1>3, <1>4, <1>5 DEF OnDisk

(***************************************************************************)
(* A point that goes into a buffer was nowhere before.                     *)
(***************************************************************************)
LEMMA BuffersPoint ==
  ASSUME TypeOK, OnDisk, NeverTwice', faults = 0,
         NEW p \in Points, NEW k \in VoxelKeys, Buffers(p, k)
  PROVE  OnDisk' /\ (Kept => Kept')
<1>1. /\ open_chunks'[k] = open_chunks[k] \cup {p}
      /\ \A j \in VoxelKeys : j # k => open_chunks'[j] = open_chunks[j]
  BY DEF Buffers, Buffered, TypeOK, FileTypeOK
<1>2. /\ Chunks' = Chunks
      /\ p \notin Accepted /\ Accepted' = Accepted \cup {p}
      /\ k \in Home[p] /\ Home' = Home
      /\ UNCHANGED <<hierarchy, faults, is_closed, compressorVars>>
  BY DEF Buffers, Accepts, Chunks, Home, compressorVars, chunkVars
<1>3. OpenFile' /\ EntriesLocateChunks'
  BY <1>2 DEF OnDisk, OpenFile, EntriesLocateChunks, compressorVars, chunkVars
<1>4. BuffersAtHome'
  BY <1>1, <1>2 DEF OnDisk, BuffersAtHome
<1>5. Kept => Kept'
  BY <1>1, <1>2 DEF Kept
<1>. QED
  BY <1>3, <1>4, <1>5 DEF OnDisk

(***************************************************************************)
(* close drains the buffers before it comes to its end, and its other      *)
(* writes leave the chunks alone.                                          *)
(***************************************************************************)
LEMMA ClosesFile ==
  ASSUME TypeOK, OnDisk, NeverTwice', faults = 0, Closes
  PROVE  OnDisk' /\ (Kept => Kept')
<1>1. /\ Chunks' = Chunks
      /\ UNCHANGED <<open_chunks, hierarchy, faults>> /\ Accepted' = Accepted
      /\ is_closed' = TRUE /\ Home' = Home
  BY CloseWritesFile DEF OnDisk, Closes, CloseFinish, ClosedFile, Home
<1>. QED
  BY <1>1 DEF OnDisk, OpenFile, EntriesLocateChunks, BuffersAtHome, Kept

LEMMA LeavesChunks ==
  ASSUME LeavesFile, OnDisk, NeverTwice'
  PROVE  /\ OnDisk'
         /\ Kept /\ result' # NotAdded => Kept'
<1>1. /\ Chunks' = Chunks /\ Home' = Home
      /\ UNCHANGED <<open_chunks, hierarchy, faults, is_closed, compressorVars>>
      /\ Accepted \subseteq Accepted'
      /\ result' # NotAdded => Accepted' = Accepted
  BY DEF LeavesFile, fileVars, compressorVars, chunkVars, Chunks, Home
<1>2. OpenFile' /\ EntriesLocateChunks' /\ BuffersAtHome'
  BY <1>1
  DEF OnDisk, OpenFile, EntriesLocateChunks, BuffersAtHome, compressorVars,
      chunkVars
<1>3. Kept /\ result' # NotAdded => Kept'
  BY <1>1 DEF Kept
<1>. QED
  BY <1>2, <1>3 DEF OnDisk

(***************************************************************************)
(* The invariant survives every step, and a step loses an accepted point   *)
(* only by finding no node for it.                                         *)
(***************************************************************************)
LEMMA OnDiskInductive ==
  ASSUME TypeOK, ClosedIsAtRest, OnDisk, [Next]_vars
  PROVE  /\ OnDisk'
         /\ Kept /\ result' # NotAdded => Kept'
<1>. faults \in Nat
  BY DEF TypeOK, CallTypeOK
<1>. NeverTwice'
  BY NeverTwiceInductive DEF OnDisk
<1>1. CASE faults' # 0
  BY <1>1 DEF OnDisk, OpenFile, EntriesLocateChunks, BuffersAtHome, Kept
<1>2. CASE faults' = 0
  <2>1. CASE LeavesFile
    BY <2>1, LeavesChunks
  <2>2. ~Breaks
    BY <1>2 DEF Breaks
  <2>3. CASE Closes
    BY <1>2, <2>3, ClosesFile DEF Closes
  <2>4. ASSUME NEW p \in Points, NEW k \in VoxelKeys,
               Buffers(p, k) \/ Fills(p, k)
        PROVE  OnDisk' /\ (Kept => Kept')
    <3>1. faults = 0
      BY <1>2, <2>4 DEF Buffers, Fills, Accepts
    <3>. QED
      BY <2>4, <3>1, BuffersPoint, FillsChunk
  <2>5. ASSUME NEW k \in VoxelKeys, Drains(k)
        PROVE  OnDisk' /\ (Kept => Kept')
    BY <1>2, <2>5, DrainsChunk DEF Drains
  <2>. QED
    BY <2>1, <2>2, <2>3, <2>4, <2>5, StepsOnDisk
<1>. QED
  BY <1>1, <1>2

LEMMA OnDiskInit == Init => OnDisk /\ Kept /\ result # NotAdded
<1>. SUFFICES ASSUME Init PROVE OnDisk /\ Kept /\ result # NotAdded
  OBVIOUS
<1>1. /\ stream.pos = start_pos + 8 /\ chunk_start_pos = stream.pos
      /\ current_chunk = {} /\ stale_count = 0 /\ hierarchy = <<>>
      /\ \A k \in VoxelKeys : open_chunks[k] = {}
      /\ taken = {}
  BY DEF Init, CompressorInit
<1>2. /\ Start \in Nat /\ HeaderBytes \in Nat /\ InfoBytes \in Nat
      /\ VlrBytes \in Nat /\ start_pos = Start + HeaderBytes + InfoBytes + VlrBytes
  BY CompressorAssumption DEF start_pos
<1>3. ASSUME NEW b \in stream.disk
      PROVE  /\ b.at \in Nat /\ b.len \in Nat
             /\ b.at + b.len <= stream.pos
             /\ "page" \notin DOMAIN b
             /\ "number_of_points" \notin DOMAIN b
             /\ "start_of_first_evlr" \notin DOMAIN b
             /\ "points" \notin DOMAIN b
  <2>1. \/ b = [at |-> Start, len |-> HeaderBytes]
        \/ b = [at |-> Start + HeaderBytes, len |-> InfoBytes]
        \/ b = [at  |-> Start + HeaderBytes + InfoBytes,
                len |-> VlrBytes, laszip |-> TRUE]
        \/ b = TableOffset(-1)
    BY <1>3 DEF Init, CompressorInit
  <2>2. /\ b.at \in Nat /\ b.len \in Nat
        /\ b.at + b.len <= start_pos + 8
    BY <1>2, <2>1 DEF TableOffset
  <2>3. DOMAIN b \subseteq {"at", "len", "laszip", "table_offset"}
    BY <2>1 DEF TableOffset
  <2>. QED
    BY <1>1, <2>2, <2>3
<1>4. Chunks = {} /\ Accepted = {}
  BY <1>1, <1>3 DEF Chunks, Accepted
<1>5. OpenFile
  BY <1>1, <1>2, <1>3, <1>4 DEF OpenFile
<1>6. BuffersAtHome /\ NeverTwice /\ EntriesLocateChunks
  BY <1>1, <1>4, NeverTwiceInit DEF BuffersAtHome, EntriesLocateChunks
<1>7. Kept /\ result # NotAdded
  BY <1>4 DEF Kept, Init, NotAdded
<1>. QED
  BY <1>5, <1>6, <1>7 DEF OnDisk

LEMMA OnDiskInvariant == Spec => [](OnDisk /\ ClosedIsAtRest)
<1>1. Init => OnDisk /\ ClosedIsAtRest
  BY OnDiskInit DEF Init, ClosedIsAtRest
<1>2. TypeOK /\ OnDisk /\ ClosedIsAtRest /\ [Next]_vars =>
        (OnDisk /\ ClosedIsAtRest)'
  BY OnDiskInductive, ClosedIsAtRestInductive
<1>. QED
  BY <1>1, <1>2, TypeCorrect, PTL DEF Spec

(***************************************************************************)
(* Every entry of the hierarchy leads to its chunk, whole, with as many    *)
(* points as the entry says, all of them in the entry's voxel (writer.rs   *)
(* 659-692, compressor.rs compress_chunk), through every chunk and through *)
(* the writes of close on both sides of the chunks.                        *)
(***************************************************************************)
THEOREM EntriesLeadToChunks == Spec => []EntriesLocateChunks
<1>1. OnDisk => EntriesLocateChunks
  BY DEF OnDisk
<1>. QED
  BY <1>1, OnDiskInvariant, PTL

(***************************************************************************)
(* At most once and not lost is exactly once.                              *)
(***************************************************************************)
LEMMA KeptOnce ==
  ASSUME TypeOK, OnDisk, Kept
  PROVE  EveryPointOnce
<1>. SUFFICES ASSUME faults = 0, NEW p \in Points
              PROVE  Cardinality({ k \in VoxelKeys : p \in open_chunks[k] })
                       + Cardinality({ b \in Chunks : p \in b.points })
                     = IF p \in Accepted THEN 1 ELSE 0
  BY DEF EveryPointOnce, Accepted
<1>. DEFINE B == { k \in VoxelKeys : p \in open_chunks[k] }
            D == { b \in Chunks : p \in b.points }
<1>1. /\ Cardinality({}) = 0
      /\ \A x : Cardinality({x}) = 1
  BY FS_EmptySet, FS_Singleton
<1>2. CASE p \notin Accepted
  <2>1. B = {} /\ D = {}
    BY <1>2 DEF OnDisk, NeverTwice
  <2>. QED
    BY <1>1, <1>2, <2>1
<1>3. ASSUME NEW k \in VoxelKeys, p \in open_chunks[k]
      PROVE  Cardinality(B) + Cardinality(D) = 1 /\ p \in Accepted
  <2>1. B = {k} /\ D = {} /\ p \in Accepted
    BY <1>3 DEF OnDisk, NeverTwice
  <2>. QED
    BY <1>1, <2>1
<1>4. ASSUME NEW b \in Chunks, p \in b.points
      PROVE  Cardinality(B) + Cardinality(D) = 1 /\ p \in Accepted
  <2>1. B = {} /\ D = {b} /\ p \in Accepted
    BY <1>4 DEF OnDisk, NeverTwice
  <2>2. Cardinality(B) = 0 /\ Cardinality(D) = 1
    BY <1>1, <2>1
  <2>. QED
    BY <2>1, <2>2
<1>. QED
  BY <1>2, <1>3, <1>4 DEF Kept

(***************************************************************************)
(* Every accepted point is in exactly one place, a buffer or a chunk       *)
(* (writer.rs 397: points "are written regardless" of invalid ones), in    *)
(* every behaviour in which no call ends with PointNotAddedToAnyNode.      *)
(***************************************************************************)
THEOREM PointsAreKeptOnce ==
  Spec /\ [](result # NotAdded) => []EveryPointOnce
<1>1. Init => Kept
  BY OnDiskInit
<1>2. /\ TypeOK /\ ClosedIsAtRest /\ OnDisk /\ Kept
      /\ (result # NotAdded)' /\ [Next]_vars
      => Kept'
  BY OnDiskInductive
<1>3. TypeOK /\ OnDisk /\ Kept => EveryPointOnce
  BY KeptOnce
<1>. QED
  BY <1>1, <1>2, <1>3, TypeCorrect, OnDiskInvariant, PTL DEF Spec

-----------------------------------------------------------------------------
(* The closed file.                                                        *)

(***************************************************************************)
(* What has been counted and answered so far.  The loop over the points    *)
(* goes on only with an error of the points themselves.  While the caller  *)
(* may still get an Ok, no write has failed, no point is lost, and the     *)
(* header counts the points accepted; a call that leaves the writer open   *)
(* without an error in the middle of close has counted none.               *)
(***************************************************************************)
CountsSoFar ==
  /\ number_of_points = 0 => Accepted = {} /\ faults = 0
  /\ answer = "Ok" => is_closed
  /\ pc = "adding" => result \in PointErrors
  /\ ~is_closed /\ ~close_failed =>
       /\ pc = "idle" => number_of_points = 0
       /\ pc \in {"adding", "closing"} /\ via = "write" /\ result \in PointErrors =>
            /\ faults = 0
            /\ Kept
            /\ number_of_points = Cardinality(Accepted)

(***************************************************************************)
(* Under the greedy strategy the nodes above a buffer or an entry have     *)
(* their entries; close fails only with an error of the stream.            *)
(***************************************************************************)
AncestorsWritten ==
  faults = 0 =>
    /\ ~close_failed
    /\ \A k \in VoxelKeys :
         k \in WrittenKeys \/ open_chunks[k] # {} => Ancestors(k) \subseteq WrittenKeys

(***************************************************************************)
(* Also after an error of the stream a chunk holds points.                 *)
(***************************************************************************)
ChunksHoldPoints == \A b \in Chunks : b.points \subseteq Points

-----------------------------------------------------------------------------
(* A closed file can be opened.                                            *)

(***************************************************************************)
(* Nothing but the end of close brings a writer that is closed.            *)
(***************************************************************************)
LEMMA ClosingSteps ==
  ASSUME TypeOK, ClosedIsAtRest, [Next]_vars, is_closed' # is_closed
  PROVE  ~is_closed /\ is_closed' /\ CloseFinish
<1>2. \A n \in NumPoints : CallWrite(n) => is_closed' = is_closed
  BY DEF CallWrite
<1>3. \A p \in Points : Reject(p) \/ AddPoint(p) => is_closed' = is_closed
  BY DEF Reject, AddPoint
<1>4. \A k \in VoxelKeys : DrainChunk(k) \/ DrainFails(k) => is_closed' = is_closed
  BY DEF DrainChunk, DrainFails
<1>5. EndOfPoints \/ Unwind \/ CloseRefused \/ CloseFinishFails \/ DropWriter
        => is_closed' = is_closed
  BY DEF EndOfPoints, Unwind, CloseRefused, CloseFinishFails, DropWriter
<1>6. CloseFinish
  BY <1>2, <1>3, <1>4, <1>5 DEF Next, Running, vars
<1>. QED
  BY <1>6 DEF CloseFinish, ClosedIsAtRest

(***************************************************************************)
(* A closed file stays what it is.                                         *)
(***************************************************************************)
LEMMA ClosedFileIsLeft ==
  ASSUME TypeOK, ClosedIsAtRest, [Next]_vars, is_closed
  PROVE  /\ UNCHANGED <<is_closed, fileVars, statVars, faults, close_failed, taken>>
         /\ answer' \in {answer, "ClosedWriter"}
<1>1. ~Running
  BY DEF ClosedIsAtRest, Running, EndOfPoints, Unwind, Reject, AddPoint, Take,
         CloseRefused, DrainChunk, DrainFails, CloseFinish, CloseFinishFails
<1>2. ASSUME NEW n \in NumPoints, CallWrite(n)
      PROVE  /\ UNCHANGED <<is_closed, fileVars, statVars, faults, close_failed, taken>>
             /\ answer' \in {answer, "ClosedWriter"}
  BY <1>2 DEF CallWrite
<1>3. CASE DropWriter
  BY <1>3 DEF DropWriter, ghostVars
<1>4. CASE UNCHANGED vars
  BY <1>4 DEF vars, callVars, ghostVars
<1>. QED
  BY <1>1, <1>2, <1>3, <1>4 DEF Next

LEMMA ClosedFileOpensInductive ==
  ASSUME TypeOK, ClosedIsAtRest, OnDisk, ClosedFileOpens, [Next]_vars
  PROVE  ClosedFileOpens'
<1>. SUFFICES ASSUME is_closed', faults' = 0
              PROVE  ClosedFileOpens'
  BY DEF ClosedFileOpens
<1>1. CASE is_closed
  <2>1. UNCHANGED <<stream, hierarchy, chunk_table, faults>>
    BY <1>1, ClosedFileIsLeft DEF fileVars, compressorVars, chunkVars
  <2>2. faults = 0
    BY <2>1
  <2>. QED
    BY <1>1, <2>1, <2>2 DEF ClosedFileOpens, TableOffset
<1>2. CASE ~is_closed
  <2>1. CloseFinish /\ faults = 0
    <3>1. CloseFinish
      BY <1>2, ClosingSteps
    <3>. QED
      BY <3>1 DEF CloseFinish, ghostVars
  <2>. PICK h, e, i, t : ClosedFile(h, e, i, t)
    BY <1>2, <2>1, CloseWritesFile DEF OnDisk
  <2>2. hierarchy' = hierarchy /\ chunk_table' = chunk_table
    BY <2>1 DEF CloseFinish, chunkVars
  <2>. QED
    BY <2>2 DEF ClosedFileOpens, ClosedFile, TableOffset
<1>. QED
  BY <1>1, <1>2

(***************************************************************************)
(* The file of a closed writer can be opened: header, hierarchy, info and  *)
(* chunk table are on disk and lead to each other, wherever the chunks     *)
(* have put the end of the file (writer.rs 537-606).                       *)
(***************************************************************************)
THEOREM ClosedFilesOpen == Spec => []ClosedFileOpens
<1>1. Init => ClosedFileOpens
  BY DEF Init, ClosedFileOpens
<1>2. /\ TypeOK /\ ClosedIsAtRest /\ OnDisk /\ ClosedFileOpens /\ [Next]_vars
      => ClosedFileOpens'
  BY ClosedFileOpensInductive
<1>. QED
  BY <1>1, <1>2, TypeCorrect, OnDiskInvariant, PTL DEF Spec

-----------------------------------------------------------------------------
(* The header counts the points.                                           *)

(***************************************************************************)
(* A point whose call may still return Ok has been put somewhere.          *)
(***************************************************************************)
LEMMA AddPointCounts ==
  ASSUME TypeOK, ClosedIsAtRest, NEW p \in Points, AddPoint(p)
  PROVE  /\ number_of_points' = number_of_points + 1
         /\ pc = "adding" /\ pc' \in {"adding", "closing"} /\ ~is_closed
         /\ UNCHANGED <<is_closed, via, answer, close_failed>>
         /\ p \notin Accepted
         /\ pc' = "adding" => result' = result
         /\ result' \in PointErrors =>
              /\ result' = result /\ faults' = faults
              /\ Accepted' = Accepted \cup {p}
<1>1. /\ Take(p) /\ Valid(p) /\ pc = "adding" /\ ~is_closed
      /\ UNCHANGED <<is_closed, via, answer, close_failed>>
  BY DEF AddPoint, Take, Valid, callVars, ClosedIsAtRest
<1>2. number_of_points' = number_of_points + 1
  BY CountPointType
  DEF AddPoint, AddPointGreedy, AddPointStochastic, AddTo, TypeOK
<1>3. ASSUME result' \in PointErrors
      PROVE  result' = result /\ faults' = faults /\ p \in Encodable
  BY <1>3
  DEF AddPoint, AddPointGreedy, AddPointStochastic, AddTo, Abort, Continue,
      PointErrors, NotAdded, NotMatching, NotInBounds
<1>4. pc' = "adding" => result' = result
  BY DEF AddPoint, AddPointGreedy, AddPointStochastic, AddTo, Abort, Continue
<1>. QED
  BY <1>1, <1>2, <1>3, <1>4, TakenAccepted, CountingPoints

LEMMA AddPointKeepsCounts ==
  ASSUME TypeOK, ClosedIsAtRest, OnDisk, CountsSoFar,
         Kept /\ result' # NotAdded => Kept',
         NEW p \in Points, AddPoint(p)
  PROVE  CountsSoFar'
<1>. number_of_points \in Nat /\ IsFiniteSet(Accepted)
  BY CompressorAssumption, FS_Subset
  DEF Accepted, TypeOK, StatTypeOK, CallTypeOK
<1>1. number_of_points' # 0 /\ pc' # "idle" /\ answer' = answer /\ is_closed' = is_closed
  BY AddPointCounts
<1>2. ASSUME ~close_failed, via = "write", result' \in PointErrors
      PROVE  /\ faults' = 0 /\ Kept'
             /\ number_of_points' = Cardinality(Accepted')
  <2>1. /\ result' = result /\ faults' = faults
        /\ p \notin Accepted /\ Accepted' = Accepted \cup {p}
        /\ number_of_points' = number_of_points + 1
        /\ pc = "adding" /\ ~is_closed
    BY <1>2, AddPointCounts
  <2>2. faults = 0 /\ Kept /\ number_of_points = Cardinality(Accepted)
    BY <1>2, <2>1 DEF CountsSoFar
  <2>3. result' # NotAdded
    BY <1>2 DEF PointErrors, NotAdded, NotMatching, NotInBounds
  <2>4. Cardinality(Accepted') = Cardinality(Accepted) + 1
    BY <2>1, FS_AddElement
  <2>. QED
    BY <2>1, <2>2, <2>3, <2>4
<1>. QED
  BY <1>1, <1>2, AddPointCounts DEF CountsSoFar

LEMMA CountsSoFarInductive ==
  ASSUME TypeOK, ClosedIsAtRest, OnDisk, CountsSoFar, [Next]_vars
  PROVE  CountsSoFar'
<1>0. /\ number_of_points \in Nat /\ faults \in Nat
      /\ Kept /\ result' # NotAdded => Kept'
  BY OnDiskInductive DEF TypeOK, StatTypeOK, CallTypeOK
<1>1. ASSUME UNCHANGED taken
      PROVE  Accepted' = Accepted
  BY <1>1, NothingAccepted
<1>2. \A r \in PointErrors : r # NotAdded
  BY DEF PointErrors, NotAdded, NotMatching, NotInBounds
<1>3. ASSUME NEW n \in NumPoints, CallWrite(n)
      PROVE  CountsSoFar'
  <2>1. /\ pc = "idle" /\ Accepted' = Accepted
        /\ UNCHANGED <<number_of_points, faults, is_closed, close_failed>>
    BY <1>1, <1>3 DEF CallWrite, statVars
  <2>2. CASE is_closed
    BY <1>3, <2>1, <2>2 DEF CallWrite, CountsSoFar
  <2>3. CASE ~is_closed
    <3>1. /\ pc' = "adding" /\ answer' = answer /\ result' = "Ok"
      BY <1>3, <2>3 DEF CallWrite
    <3>2. ~close_failed => /\ number_of_points = 0 /\ Accepted = {}
                           /\ faults = 0 /\ Kept'
      BY <2>1, <2>3 DEF CountsSoFar, Kept
    <3>. QED
      BY <2>1, <2>3, <3>1, <3>2, FS_EmptySet DEF CountsSoFar, PointErrors
  <2>. QED
    BY <2>2, <2>3
<1>4. CASE EndOfPoints
  BY <1>0, <1>1, <1>2, <1>4
  DEF EndOfPoints, CountsSoFar, statVars, callVars, ghostVars
<1>5. CASE Unwind
  BY <1>1, <1>5 DEF Unwind, Dropping, CountsSoFar, statVars, ghostVars
<1>6. ASSUME NEW p \in Points, Reject(p)
      PROVE  CountsSoFar'
  <2>1. /\ Accepted' = Accepted /\ pc = "adding" /\ pc' = pc /\ via' = via
        /\ UNCHANGED <<number_of_points, faults, is_closed, close_failed, answer>>
    BY <1>6, TakenAccepted DEF Reject, Take, Valid, statVars, callVars
  <2>2. result \in PointErrors /\ result' \in PointErrors
    BY <1>6, <2>1 DEF Reject, OutOfBounds, CountsSoFar, PointErrors
  <2>. QED
    BY <1>0, <1>2, <1>6, <2>1, <2>2 DEF CountsSoFar
<1>7. ASSUME NEW p \in Points, AddPoint(p)
      PROVE  CountsSoFar'
  BY <1>0, <1>7, AddPointKeepsCounts
<1>8. CASE CloseRefused
  BY <1>0, <1>1, <1>8
  DEF CloseRefused, CloseReturns, CountsSoFar, statVars, ghostVars
<1>9. ASSUME NEW k \in VoxelKeys, DrainChunk(k)
      PROVE  CountsSoFar'
  BY <1>0, <1>1, <1>2, <1>9
  DEF DrainChunk, CountsSoFar, statVars, callVars, ghostVars
<1>10. ASSUME NEW k \in VoxelKeys, DrainFails(k)
       PROVE  CountsSoFar'
  <2>1. /\ number_of_points' # 0 /\ close_failed' /\ pc' # "adding"
        /\ is_closed' = is_closed
    BY <1>10 DEF DrainFails, CloseReturns, statVars
  <2>2. answer' = "Ok" => answer = "Ok"
    BY <1>10 DEF DrainFails, CloseReturns
  <2>. QED
    BY <2>1, <2>2 DEF CountsSoFar
<1>11. CASE CloseFinish
  BY <1>0, <1>1, <1>11 DEF CloseFinish, CloseReturns, CountsSoFar, ghostVars
<1>12. CASE CloseFinishFails
  BY <1>0, <1>12 DEF CloseFinishFails, CloseReturns, CountsSoFar
<1>13. CASE DropWriter
  BY <1>0, <1>1, <1>13 DEF DropWriter, Dropping, CountsSoFar, statVars, ghostVars
<1>14. CASE UNCHANGED vars
  BY <1>0, <1>1, <1>2, <1>14 DEF vars, CountsSoFar, statVars, callVars, ghostVars
<1>. QED
  BY <1>3, <1>4, <1>5, <1>6, <1>7, <1>8, <1>9, <1>10, <1>11, <1>12, <1>13, <1>14
  DEF Next, Running

(***************************************************************************)
(* Once the buffers are drained, the chunks hold the points accepted.      *)
(***************************************************************************)
LEMMA DrainedChunks ==
  ASSUME OnDisk, Kept, Drained, faults = 0
  PROVE  UNION { b.points : b \in Chunks } = Accepted
<1>1. ASSUME NEW p \in UNION { b.points : b \in Chunks }
      PROVE  p \in Accepted
  BY <1>1 DEF OnDisk, NeverTwice
<1>2. ASSUME NEW p \in Accepted
      PROVE  p \in UNION { b.points : b \in Chunks }
  <2>1. PICK b \in Chunks : p \in b.points
    BY <1>2 DEF Kept, Drained
  <2>. QED
    BY <2>1
<1>. QED
  BY <1>1, <1>2

LEMMA HeaderCountsInductive ==
  ASSUME TypeOK, ClosedIsAtRest, OnDisk, CountsSoFar, HeaderCountsPoints,
         [Next]_vars
  PROVE  HeaderCountsPoints'
<1>. SUFFICES ASSUME is_closed', answer' = "Ok", ~close_failed'
              PROVE  HeaderCountsPoints'
  BY DEF HeaderCountsPoints
<1>1. CASE is_closed
  <2>1. answer = "Ok" /\ UNCHANGED <<stream, close_failed>>
    BY <1>1, ClosedFileIsLeft DEF fileVars, compressorVars, chunkVars
  <2>2. Chunks' = Chunks
    BY <2>1 DEF Chunks
  <2>. QED
    BY <1>1, <2>1, <2>2 DEF HeaderCountsPoints
<1>2. CASE ~is_closed
  <2>1. CloseFinish
    BY <1>2, ClosingSteps
  <2>2. pc = "closing" /\ via = "write" /\ result = "Ok" /\ ~close_failed
    <3>1. answer # "Ok"
      BY <1>2 DEF CountsSoFar
    <3>. QED
      BY <2>1, <3>1 DEF CloseFinish, CloseReturns, ghostVars
  <2>3. faults = 0 /\ Kept /\ number_of_points = Cardinality(Accepted)
    BY <1>2, <2>2 DEF CountsSoFar, PointErrors
  <2>. PICK h, e, i, t : ClosedFile(h, e, i, t)
    BY <1>2, <2>1, <2>3, CloseWritesFile DEF OnDisk
  <2>4. UNION { b.points : b \in Chunks' } = Accepted
    BY <2>1, <2>3, DrainedChunks DEF CloseFinish, ClosedFile
  <2>. QED
    BY <2>3, <2>4 DEF HeaderCountsPoints, ClosedFile
<1>. QED
  BY <1>1, <1>2

(***************************************************************************)
(* A write that returns Ok has written what it counted: the number of      *)
(* points in the header (writer.rs 622, 771: header.add_point) is that of  *)
(* the points in the chunks on disk, whatever earlier calls did.           *)
(***************************************************************************)
THEOREM HeadersCountPoints == Spec => []HeaderCountsPoints
<1>1. Init => CountsSoFar /\ HeaderCountsPoints
  BY DEF Init, CountsSoFar, HeaderCountsPoints, Accepted
<1>2. /\ TypeOK /\ ClosedIsAtRest /\ OnDisk /\ CountsSoFar
      /\ HeaderCountsPoints /\ [Next]_vars
      => CountsSoFar' /\ HeaderCountsPoints'
  BY CountsSoFarInductive, HeaderCountsInductive
<1>. QED
  BY <1>1, <1>2, TypeCorrect, OnDiskInvariant, PTL DEF Spec

-----------------------------------------------------------------------------
(* The refinement of CopcStore.                                            *)

(***************************************************************************)
(* What adding a point does to the stream.                                 *)
(***************************************************************************)
LEMMA AddPointStream ==
  ASSUME TypeOK, NEW p \in Points, AddPoint(p)
  PROVE  \/ stream' \in TornWrite(stream)
         \/ \E points \in SUBSET Points, bytes \in ChunkBytes :
              stream' = AfterChunk(points, bytes)
<1>1. CASE stream' = stream
  BY <1>1 DEF TornWrite
<1>2. ASSUME NEW k \in Home[p], NEW children, NEW write_chunk,
             AddTo(p, k, children, write_chunk)
      PROVE  \/ stream' \in TornWrite(stream)
             \/ \E points \in SUBSET Points, bytes \in ChunkBytes :
                  stream' = AfterChunk(points, bytes)
  <2>1. k \in VoxelKeys /\ Buffered(k, p)[k] \in SUBSET Points
    BY HomeIsVoxels, BufferedType DEF TypeOK
  <2>. QED
    BY <1>1, <1>2, <2>1
    DEF AddTo, WriteChunk, CompressChunk, CompressChunkFails, fileVars,
        compressorVars, chunkVars
<1>3. ASSUME NEW children, AddPointGreedy(p, children)
      PROVE  \/ stream' \in TornWrite(stream)
             \/ \E points \in SUBSET Points, bytes \in ChunkBytes :
                  stream' = AfterChunk(points, bytes)
  <2>1. \A k \in FirstVisited(GreedyNodes(p)) : k \in Home[p]
    BY DEF FirstVisited, GreedyNodes, BelowFull
  <2>. QED
    BY <1>1, <1>2, <1>3, <2>1
    DEF AddPointGreedy, fileVars, compressorVars, chunkVars
<1>4. \A levels : \A k \in Drawn(Candidates(p, levels)) : k \in Home[p]
  BY DEF Drawn, Candidates, Visited
<1>. QED
  BY <1>2, <1>3, <1>4 DEF AddPoint, AddPointStochastic

LEMMA ChunksHoldPointsInductive ==
  ASSUME TypeOK, ChunksHoldPoints, [Next]_vars
  PROVE  ChunksHoldPoints'
<1>1. ASSUME NoNewChunk(stream, stream')
      PROVE  ChunksHoldPoints'
  BY <1>1 DEF NoNewChunk, ChunksHoldPoints, Chunks
<1>2. ASSUME UNCHANGED stream
      PROVE  ChunksHoldPoints'
  BY <1>2 DEF ChunksHoldPoints, Chunks
<1>3. ASSUME NEW points \in SUBSET Points, NEW bytes,
             stream' = AfterChunk(points, bytes)
      PROVE  ChunksHoldPoints'
  <2>1. current_chunk \cup points \subseteq Points
    BY DEF TypeOK, FileTypeOK
  <2>. QED
    BY <1>3, <2>1, AfterChunkMoves DEF ChunksHoldPoints
<1>4. ASSUME stream' \in TornWrite(stream)
      PROVE  ChunksHoldPoints'
  BY <1>1, <1>4, TornNoChunk
<1>5. ASSUME NEW n \in NumPoints, CallWrite(n)
      PROVE  ChunksHoldPoints'
  BY <1>2, <1>5 DEF CallWrite, fileVars, compressorVars, chunkVars
<1>6. CASE EndOfPoints \/ Unwind \/ CloseRefused \/ DropWriter \/ UNCHANGED vars
  BY <1>2, <1>6
  DEF EndOfPoints, Unwind, CloseRefused, DropWriter, vars, fileVars,
      compressorVars, chunkVars
<1>7. ASSUME NEW p \in Points, Reject(p)
      PROVE  ChunksHoldPoints'
  BY <1>2, <1>7 DEF Reject, fileVars, compressorVars, chunkVars
<1>8. ASSUME NEW p \in Points, AddPoint(p)
      PROVE  ChunksHoldPoints'
  BY <1>3, <1>4, <1>8, AddPointStream
<1>9. ASSUME NEW k \in VoxelKeys, DrainChunk(k) \/ DrainFails(k)
      PROVE  ChunksHoldPoints'
  BY <1>3, <1>4, <1>9
  DEF DrainChunk, DrainFails, WriteChunk, CompressChunk, CompressChunkFails,
      TypeOK, FileTypeOK
<1>10. CASE CloseFinish \/ CloseFinishFails
  BY <1>1, <1>10, ClosingNoChunk
<1>. QED
  BY <1>5, <1>6, <1>7, <1>8, <1>9, <1>10 DEF Next, Running

(***************************************************************************)
(* close is taken to have failed only by an error of the stream.           *)
(***************************************************************************)
LEMMA FailsByFault ==
  ASSUME TypeOK, [Next]_vars, ~close_failed, close_failed'
  PROVE  Breaks
<1>1. /\ \A n \in NumPoints : ~CallWrite(n)
      /\ \A p \in Points : ~Reject(p) /\ ~AddPoint(p)
      /\ \A k \in VoxelKeys : ~DrainChunk(k)
      /\ ~EndOfPoints /\ ~Unwind /\ ~CloseRefused /\ ~CloseFinish /\ ~DropWriter
      /\ ~UNCHANGED vars
  BY DEF CallWrite, Reject, AddPoint, DrainChunk, EndOfPoints, Unwind,
         CloseRefused, CloseFinish, DropWriter, vars, ghostVars
<1>2. IoFault
  BY <1>1 DEF Next, Running, DrainFails, CloseFinishFails
<1>. QED
  BY <1>2 DEF IoFault, Breaks, TypeOK, CallTypeOK

(***************************************************************************)
(* The entry of a chunk that is written is a new key.                      *)
(***************************************************************************)
LEMMA ChunkWritesKey ==
  ASSUME TypeOK, NEW k, NEW points, NEW b, NEW e, ChunkAtEnd(k, points, b, e)
  PROVE  WrittenKeys' = WrittenKeys \cup {k}
BY AppendedEntry DEF ChunkAtEnd, TypeOK, FileTypeOK

LEMMA AncestorsWrittenInductive ==
  ASSUME TypeOK, ClosedIsAtRest, OnDisk, WrittenOnce, ParentsWritten,
         AncestorsWritten, [Next]_vars
  PROVE  AncestorsWritten'
<1>. SUFFICES ASSUME faults' = 0
              PROVE  AncestorsWritten'
  BY DEF AncestorsWritten
<1>1. ~Breaks /\ (faults = 0 => ~close_failed /\ ~close_failed')
  <2>1. ~Breaks
    BY DEF Breaks, TypeOK, CallTypeOK
  <2>. QED
    BY <2>1, FailsByFault DEF AncestorsWritten, TypeOK, CallTypeOK
<1>2. CASE LeavesFile
  <2>1. faults = 0 /\ WrittenKeys' = WrittenKeys /\ open_chunks' = open_chunks
    BY <1>2 DEF LeavesFile, fileVars, WrittenKeys
  <2>. QED
    BY <1>1, <2>1 DEF AncestorsWritten
<1>3. CASE Closes
  <2>1. faults = 0 /\ WrittenKeys' = WrittenKeys /\ open_chunks' = open_chunks
    BY <1>3 DEF Closes, CloseFinish, WrittenKeys
  <2>. QED
    BY <1>1, <2>1 DEF AncestorsWritten
<1>4. ASSUME NEW k \in VoxelKeys, NEW points, NEW b, NEW e,
             ChunkAtEnd(k, points, b, e), faults = 0,
             Ancestors(k) \subseteq WrittenKeys,
             open_chunks' = [open_chunks EXCEPT ![k] = {}]
      PROVE  AncestorsWritten'
  <2>1. WrittenKeys' = WrittenKeys \cup {k}
    BY <1>4, ChunkWritesKey
  <2>2. \A j \in VoxelKeys : open_chunks'[j] # {} => open_chunks[j] # {}
    BY <1>4 DEF TypeOK, FileTypeOK
  <2>. QED
    BY <1>1, <1>4, <2>1, <2>2 DEF AncestorsWritten
<1>5. ASSUME NEW p \in Points, NEW k \in VoxelKeys, Accepts(p, k)
      PROVE  faults = 0 /\ Ancestors(k) \subseteq WrittenKeys
  <2>1. pc = "adding" /\ ~is_closed
    <3>1. taken' # taken
      BY <1>5, NothingAccepted DEF Accepts
    <3>. QED
      BY <1>5, <3>1
      DEF Accepts, Next, Running, CallWrite, EndOfPoints, Unwind, Reject,
          AddPoint, Take, CloseRefused, DrainChunk, DrainFails, CloseFinish,
          CloseFinishFails, DropWriter, vars, ghostVars
  <2>2. faults = 0 /\ ~close_failed
    BY <1>1, <1>5 DEF Accepts
  <2>3. \A j \in VoxelKeys : IsFull(j) => j \in WrittenKeys
    BY <2>1, <2>2 DEF ParentsWritten, Accepting
  <2>4. k \in BelowFull(p)
    BY <1>5 DEF Accepts, ParentsWritten
  <2>5. \A j \in Ancestors(k) : j \in VoxelKeys /\ IsFull(j)
    BY <2>4 DEF BelowFull, TypeOK, OctreeTypeOK
  <2>. QED
    BY <2>2, <2>3, <2>5
<1>6. ASSUME NEW p \in Points, NEW k \in VoxelKeys, Buffers(p, k)
      PROVE  AncestorsWritten'
  <2>1. faults = 0 /\ Ancestors(k) \subseteq WrittenKeys
    BY <1>5, <1>6 DEF Buffers
  <2>2. WrittenKeys' = WrittenKeys
    BY <1>6 DEF Buffers, WrittenKeys
  <2>3. \A j \in VoxelKeys : j # k => open_chunks'[j] = open_chunks[j]
    BY <1>6 DEF Buffers, Buffered, TypeOK, FileTypeOK
  <2>. QED
    BY <1>1, <2>1, <2>2, <2>3 DEF AncestorsWritten
<1>7. ASSUME NEW p \in Points, NEW k \in VoxelKeys, Fills(p, k)
      PROVE  AncestorsWritten'
  <2>1. faults = 0 /\ Ancestors(k) \subseteq WrittenKeys
    BY <1>5, <1>7 DEF Fills
  <2>. QED
    BY <1>4, <1>7, <2>1, FillsChunk, NeverTwiceInductive DEF Fills, OnDisk
<1>8. ASSUME NEW k \in VoxelKeys, Drains(k)
      PROVE  AncestorsWritten'
  <2>1. faults = 0 /\ Ancestors(k) \subseteq WrittenKeys
    BY <1>8 DEF Drains, AncestorsWritten
  <2>. QED
    BY <1>4, <1>8, <2>1, DrainsChunk, NeverTwiceInductive DEF Drains, OnDisk
<1>. QED
  BY <1>1, <1>2, <1>3, <1>6, <1>7, <1>8, StepsOnDisk

(***************************************************************************)
(* What can be found on the disk of a file just closed is what has been    *)
(* accepted: every chunk has its entry, and all nodes above it have theirs.*)
(***************************************************************************)
LEMMA ClosingPublishes ==
  ASSUME TypeOK, OnDisk, Kept, AncestorsWritten, faults = 0, Closes
  PROVE  Published' = Accepted
<1>. PICK h, e, i, t : ClosedFile(h, e, i, t)
  BY CloseWritesFile DEF OnDisk, Closes
<1>1. /\ Chunks' = Chunks
      /\ h \in stream'.disk /\ e \in stream'.disk
      /\ h.at = Start /\ "start_of_first_evlr" \in DOMAIN h
      /\ h.start_of_first_evlr = e.at
      /\ "page" \in DOMAIN e /\ e.page = hierarchy
      /\ \A b \in stream'.disk : "page" \in DOMAIN b => b = e
  BY DEF ClosedFile
<1>2. UNION { b.points : b \in Chunks } = Accepted
  BY DrainedChunks DEF Closes, CloseFinish
<1>. DEFINE Reachable(g) ==
              { j \in DOMAIN g.page :
                  Ancestors(g.page[j].key)
                    \subseteq { g.page[m].key : m \in DOMAIN g.page } }
            Pages == { b \in stream'.disk :
                "page" \in DOMAIN b /\ \E header \in stream'.disk :
                  /\ header.at = Start
                  /\ "start_of_first_evlr" \in DOMAIN header
                  /\ header.start_of_first_evlr = b.at }
            Found == UNION { { g.page[j] : j \in Reachable(g) } : g \in Pages }
<1>3. Published' =
        UNION { UNION { b.points : b \in { c \in Chunks' : c.at = f.offset } } :
                  f \in Found }
  BY DEF Published
<1>4. Pages = {e}
  BY <1>1
<1>5. Reachable(e) = DOMAIN hierarchy
  <2>1. \A j \in DOMAIN hierarchy :
          Ancestors(hierarchy[j].key) \subseteq WrittenKeys
    BY WrittenKeysAreVoxels DEF AncestorsWritten, WrittenKeys
  <2>2. Reachable(e) = { j \in DOMAIN hierarchy :
                           Ancestors(hierarchy[j].key) \subseteq WrittenKeys }
    <3>1. { e.page[m].key : m \in DOMAIN e.page } = WrittenKeys
      BY <1>1 DEF WrittenKeys
    <3>. QED
      BY <1>1, <3>1, Zenon
  <2>. HIDE DEF Reachable
  <2>. QED
    BY <2>1, <2>2
<1>6. Found = { hierarchy[j] : j \in DOMAIN hierarchy }
  <2>. HIDE DEF Pages, Reachable
  <2>. QED
    BY <1>1, <1>4, <1>5
<1>. HIDE DEF Found
<1>7. \A b \in Chunks : \E f \in Found : f.offset = b.at
  BY <1>6 DEF OnDisk, OpenFile, Closes
<1>8. Published' \subseteq UNION { b.points : b \in Chunks }
  BY <1>1, <1>3
<1>9. ASSUME NEW p \in UNION { b.points : b \in Chunks }
      PROVE  p \in Published'
  <2>1. PICK b \in Chunks : p \in b.points
    BY <1>9
  <2>2. PICK f \in Found : f.offset = b.at
    BY <1>7
  <2>. QED
    BY <1>1, <1>3, <2>1, <2>2
<1>. QED
  BY <1>2, <1>8, <1>9

(***************************************************************************)
(* Every step is one of the abstract file or leaves it alone: a point is   *)
(* accepted, the end of close publishes, a write that fails breaks.        *)
(***************************************************************************)
LEMMA StepsOfStore ==
  ASSUME TypeOK, TypeOK', ClosedIsAtRest, OnDisk, Kept, AncestorsWritten,
         ChunksHoldPoints', [Next]_vars, result' # NotAdded
  PROVE  [Store!StoreNext]_(Store!storeVars)
<1>. DEFINE published == IF is_closed THEN Published ELSE {}
            StoreStep == [Store!StoreNext]_(Store!storeVars)
<1>0. /\ Accepted = { p \in taken : Valid(p) /\ p \in Encodable }
      /\ Accepted' = { p \in taken : Valid(p) /\ p \in Encodable }'
  BY DEF Accepted
<1>1. CASE faults' # 0
  <2>1. (faults > 0)'
    BY <1>1 DEF TypeOK, CallTypeOK
  <2>2. Accepted' \subseteq Points
    BY DEF Accepted, TypeOK, CallTypeOK
  <2>3. published' \subseteq Points
    BY DEF Published, ChunksHoldPoints
  <2>4. is_closed' \in BOOLEAN
    BY DEF TypeOK, CallTypeOK
  <2>5. Store!Break
    BY <1>0, <2>1, <2>2, <2>3, <2>4 DEF Store!Break
  <2>. QED
    BY <2>5 DEF Store!StoreNext
<1>2. CASE faults' = 0
  <2>0. /\ ~Breaks
        /\ faults = 0
    <3>1. ~Breaks
      BY <1>2 DEF Breaks, TypeOK, CallTypeOK
    <3>. QED
      BY <1>2, <3>1, StepsOnDisk
      DEF LeavesFile, Closes, Buffers, Fills, Drains, Accepts
  <2>1. ASSUME Accepted' = Accepted, published' = published,
               UNCHANGED <<is_closed, faults>>
        PROVE  StoreStep
    BY <1>0, <2>1 DEF Store!storeVars
  <2>2. CASE LeavesFile
    <3>1. stream' = stream /\ UNCHANGED <<is_closed, faults>>
          /\ Accepted' = Accepted
      BY <2>2 DEF LeavesFile, fileVars, compressorVars, chunkVars
    <3>2. published' = published
      BY <3>1 DEF Published, Chunks
    <3>. QED
      BY <2>1, <3>1, <3>2
  <2>3. ASSUME NEW p \in Points, NEW k \in VoxelKeys, Accepts(p, k)
        PROVE  StoreStep
    <3>1. Store!Accept(p)
      BY <1>0, <2>3 DEF Accepts, Store!Accept
    <3>. QED
      BY <3>1 DEF Store!StoreNext
  <2>4. ASSUME NEW k \in VoxelKeys, Drains(k)
        PROVE  StoreStep
    BY <2>1, <2>4 DEF Drains
  <2>5. CASE Closes
    <3>1. Published' = Accepted
      BY <2>0, <2>5, ClosingPublishes
    <3>2. /\ ~is_closed /\ is_closed' = TRUE
          /\ Accepted' = Accepted /\ UNCHANGED faults
      BY <2>5 DEF Closes, CloseFinish
    <3>3. Store!Publish
      BY <1>0, <3>1, <3>2 DEF Store!Publish
    <3>. QED
      BY <3>3 DEF Store!StoreNext
  <2>. QED
    BY <2>0, <2>2, <2>3, <2>4, <2>5, StepsOnDisk DEF Buffers, Fills
<1>. QED
  BY <1>1, <1>2

(***************************************************************************)
(* The writer implements the abstract file of CopcStore under the greedy   *)
(* strategy: what close publishes is what the calls of write accepted, at  *)
(* once and for good, in every behaviour in which no call ends with        *)
(* PointNotAddedToAnyNode.                                                 *)
(***************************************************************************)
THEOREM WriterImplementsStore ==
  ASSUME AlwaysGreedy
  PROVE  Spec /\ [](result # NotAdded) => ImplementsStore
<1>1. Init => Kept /\ AncestorsWritten /\ ChunksHoldPoints
  <2>. SUFFICES ASSUME Init PROVE Kept /\ AncestorsWritten /\ ChunksHoldPoints
    OBVIOUS
  <2>1. WrittenKeys = {} /\ \A k \in VoxelKeys : open_chunks[k] = {}
    BY DEF Init, WrittenKeys
  <2>2. ~close_failed
    BY DEF Init
  <2>3. AncestorsWritten
    BY <2>1, <2>2 DEF AncestorsWritten
  <2>4. \A b \in stream.disk : "points" \notin DOMAIN b
    BY DEF Init, CompressorInit, TableOffset
  <2>5. ChunksHoldPoints
    BY <2>4 DEF ChunksHoldPoints, Chunks
  <2>. QED
    BY <2>3, <2>5, OnDiskInit
<1>2. Init => Store!StoreInit
  BY DEF Init, Accepted, Store!StoreInit
<1>3. /\ TypeOK /\ ClosedIsAtRest /\ OnDisk /\ WrittenOnce /\ ParentsWritten
      /\ AncestorsWritten /\ [Next]_vars
      => AncestorsWritten'
  BY AncestorsWrittenInductive
<1>4. TypeOK /\ ChunksHoldPoints /\ [Next]_vars => ChunksHoldPoints'
  BY ChunksHoldPointsInductive
<1>5. /\ TypeOK /\ ClosedIsAtRest /\ OnDisk /\ Kept
      /\ (result # NotAdded)' /\ [Next]_vars
      => Kept'
  BY OnDiskInductive
<1>6. /\ TypeOK /\ TypeOK' /\ ClosedIsAtRest /\ OnDisk /\ Kept
      /\ AncestorsWritten /\ ChunksHoldPoints'
      /\ (result # NotAdded)' /\ [Next]_vars
      => [Store!StoreNext]_(Store!storeVars)
  BY StepsOfStore
<1>7. Spec => []ParentsWritten
  BY ParentsWrittenInvariant
<1>8. Spec /\ [](result # NotAdded) => Store!StoreSpec
  BY <1>1, <1>2, <1>3, <1>4, <1>5, <1>6, <1>7, TypeCorrect, OnDiskInvariant,
     WrittenOnceInvariant, PTL DEF Spec, Store!StoreSpec
<1>. QED
  BY <1>8 DEF ImplementsStore


-----------------------------------------------------------------------------
(* The disk of a closed file, block by block.                              *)

\* What new reserves and writes in front of the chunks.
ReservedHeader == [at |-> Start, len |-> HeaderBytes]

ReservedInfo == [at |-> Start + HeaderBytes, len |-> InfoBytes]

LasZipVlr ==
  [at |-> Start + HeaderBytes + InfoBytes, len |-> VlrBytes, laszip |-> TRUE]

\* What close puts in their places and behind the chunks.
FileHeader(first_evlr) ==
  [at |-> Start, len |-> HeaderBytes,
   start_of_first_evlr  |-> first_evlr,
   number_of_evlrs      |-> NumberOfEvlrs,
   offset_to_point_data |-> start_pos - Start,
   number_of_points     |-> number_of_points]

InfoVlr == [at |-> Start + HeaderBytes, len |-> InfoBytes, info |-> copc_info]

Trailer(end, bytes) == IF bytes = 0 THEN {} ELSE {[at |-> end, len |-> bytes]}

Table(at) == [at |-> at, len |-> TableBytes, table |-> chunk_table]

HierarchyEvlr(at) ==
  [at |-> at, len |-> 60 + 32 * Len(hierarchy), page |-> hierarchy]

ForwardedEvlr(at, i) == [at |-> at + 61 * (i - 1), len |-> 61, evlr |-> i]

Forwarded(at) == { ForwardedEvlr(at, i) : i \in 1 .. ForwardedEvlrs }

(***************************************************************************)
(* Chunks hold points, lie behind the place of the chunk table's offset,   *)
(* beside each other, and each has an entry; no two entries lead to the    *)
(* same place.                                                             *)
(***************************************************************************)
ChunksApart ==
  faults = 0 =>
    /\ IsFiniteSet(Chunks)
    /\ \A b \in Chunks :
         /\ DOMAIN b = {"at", "len", "points"}
         /\ b.at \in Nat /\ b.len \in Nat /\ b.len # 0
         /\ start_pos + 8 <= b.at
         /\ b.points # {}
         /\ \E i \in DOMAIN hierarchy : hierarchy[i].offset = b.at
    /\ \A b, c \in Chunks : b # c => Disjoint(b, c)
    /\ \A i, j \in DOMAIN hierarchy :
         hierarchy[i].offset = hierarchy[j].offset => i = j

(***************************************************************************)
(* The disk of a file that is open: the reserved places and the chunks.    *)
(***************************************************************************)
OpenLayout ==
  faults = 0 /\ ~is_closed =>
    /\ DOMAIN stream = {"pos", "disk"}
    /\ stream.disk =
         Chunks \cup {ReservedHeader, ReservedInfo, LasZipVlr, TableOffset(-1)}

(***************************************************************************)
(* The disk of a file closed behind its chunks, which end at "end" or      *)
(* before.                                                                 *)
(***************************************************************************)
ClosedDisk(end, trailer) ==
  LET first == end + trailer + TableBytes
  IN  {FileHeader(first), InfoVlr, LasZipVlr, TableOffset(end + trailer),
       Table(end + trailer), HierarchyEvlr(first)}
        \cup Trailer(end, trailer)
        \cup Forwarded(first + 60 + 32 * Len(hierarchy))

ClosedLayout ==
  faults = 0 /\ is_closed =>
    /\ DOMAIN stream = {"pos", "disk"}
    /\ copc_info.root_hier_size = 32 * Len(hierarchy)
    /\ \E end \in Nat, trailer \in TrailerBytes :
         /\ start_pos + 8 <= end
         /\ \A b \in Chunks : b.at + b.len <= end
         /\ stream.disk = Chunks \cup ClosedDisk(end, trailer)

LEMMA ChunkStaysApart ==
  ASSUME TypeOK, OnDisk, ChunksApart, OpenLayout, faults = 0, ~is_closed,
         UNCHANGED <<is_closed, faults>>,
         NEW k, NEW points, points # {}, NEW b, NEW e,
         ChunkAtEnd(k, points, b, e)
  PROVE  ChunksApart' /\ OpenLayout'
<1>1. /\ DOMAIN hierarchy' = 1 .. (Len(hierarchy) + 1)
      /\ DOMAIN hierarchy = 1 .. Len(hierarchy) /\ Len(hierarchy) \in Nat
      /\ \A i \in DOMAIN hierarchy : hierarchy'[i] = hierarchy[i]
      /\ hierarchy'[Len(hierarchy) + 1] = e
  BY AppendedEntry DEF ChunkAtEnd, TypeOK, FileTypeOK
<1>2. /\ stream.pos \in Nat /\ start_pos \in Nat /\ start_pos + 8 <= stream.pos
      /\ b.at = stream.pos /\ b.len \in Nat /\ b.len # 0
      /\ DOMAIN b = {"at", "len", "points"} /\ b.points = points
      /\ e.offset = b.at
      /\ Chunks' = Chunks \cup {b}
      /\ stream'.disk = stream.disk \cup {b}
      /\ DOMAIN stream' = {"pos", "disk"}
  BY StreamPositions DEF TypeOK, FileTypeOK, ChunkAtEnd, OnDisk, OpenFile
<1>3. \A c \in Chunks : c.at + c.len <= b.at /\ c.at < b.at
  BY <1>2 DEF OnDisk, OpenFile, ChunksApart, Chunks
<1>4. IsFiniteSet(Chunks')
  BY <1>2, FS_AddElement DEF ChunksApart
<1>5. ASSUME NEW c \in Chunks'
      PROVE  /\ DOMAIN c = {"at", "len", "points"}
             /\ c.at \in Nat /\ c.len \in Nat /\ c.len # 0
             /\ start_pos + 8 <= c.at
             /\ c.points # {}
             /\ \E i \in DOMAIN hierarchy' : hierarchy'[i].offset = c.at
  <2>1. CASE c \in Chunks
    BY <1>1, <2>1 DEF ChunksApart
  <2>2. CASE c = b
    BY <1>1, <1>2, <2>2
  <2>. QED
    BY <1>2, <2>1, <2>2
<1>6. \A c, d \in Chunks' : c # d => Disjoint(c, d)
  BY <1>2, <1>3 DEF ChunksApart, Disjoint
<1>7. \A i \in DOMAIN hierarchy : hierarchy[i].offset < b.at
  <2>. SUFFICES ASSUME NEW i \in DOMAIN hierarchy
                PROVE  hierarchy[i].offset < b.at
    OBVIOUS
  <2>. PICK c \in Chunks : c.at = hierarchy[i].offset
    BY DEF OnDisk, EntriesLocateChunks
  <2>. QED
    BY <1>3
<1>8. ASSUME NEW i \in DOMAIN hierarchy', NEW j \in DOMAIN hierarchy',
             hierarchy'[i].offset = hierarchy'[j].offset
      PROVE  i = j
  <2>1. \A m \in DOMAIN hierarchy' :
          m \in DOMAIN hierarchy \/ m = Len(hierarchy) + 1
    BY <1>1
  <2>2. \A m \in DOMAIN hierarchy : hierarchy'[m].offset < b.at
    BY <1>1, <1>7
  <2>3. hierarchy'[Len(hierarchy) + 1].offset = b.at
    BY <1>1, <1>2
  <2>4. \A m \in DOMAIN hierarchy : hierarchy'[m].offset # b.at
    <3>1. \A m \in DOMAIN hierarchy : hierarchy[m] \in Entries
      BY DEF TypeOK, FileTypeOK
    <3>2. \A m \in DOMAIN hierarchy : hierarchy[m].offset \in Nat
      BY <3>1 DEF Entries
    <3>. QED
      BY <1>1, <1>2, <2>2, <3>2
  <2>. QED
    BY <1>1, <1>8, <2>1, <2>3, <2>4 DEF ChunksApart
<1>9. ChunksApart'
  BY <1>4, <1>5, <1>6, <1>8 DEF ChunksApart, Disjoint
<1>10. OpenLayout'
  <2>1. stream.disk =
          Chunks \cup {ReservedHeader, ReservedInfo, LasZipVlr, TableOffset(-1)}
    BY DEF OpenLayout
  <2>2. stream'.disk =
          Chunks' \cup {ReservedHeader, ReservedInfo, LasZipVlr, TableOffset(-1)}
    BY <1>2, <2>1
  <2>. QED
    BY <1>2, <2>2
    DEF OpenLayout, ReservedHeader, ReservedInfo, LasZipVlr, TableOffset
<1>. QED
  BY <1>9, <1>10

(***************************************************************************)
(* The forwarded evlrs are written behind everything else.                 *)
(***************************************************************************)
LEMMA ForwardedBehind ==
  ASSUME NEW w, w.pos \in Nat,
         \A c \in w.disk : c.at \in Nat /\ c.len \in Nat /\ c.at + c.len <= w.pos
  PROVE  AfterForwarded(w).disk = w.disk \cup Forwarded(w.pos)
<1>1. AfterForwarded(w).disk =
        { c \in w.disk : \A b \in Forwarded(w.pos) : Disjoint(b, c) }
          \cup Forwarded(w.pos)
  BY DEF AfterForwarded, Forwarded, ForwardedEvlr
<1>2. ASSUME NEW c \in w.disk, NEW b \in Forwarded(w.pos)
      PROVE  Disjoint(b, c)
  <2>1. PICK i \in 1 .. ForwardedEvlrs : b = ForwardedEvlr(w.pos, i)
    BY DEF Forwarded
  <2>2. b.at = w.pos + 61 * (i - 1)
    BY <2>1 DEF ForwardedEvlr
  <2>3. i - 1 \in Nat
    BY WriterAssumption
  <2>. QED
    BY <2>2, <2>3 DEF Disjoint
<1>. QED
  BY <1>1, <1>2

(***************************************************************************)
(* What close leaves on the disk of an open file.                          *)
(***************************************************************************)
LEMMA CloseLaysOut ==
  ASSUME TypeOK, OnDisk, ChunksApart, OpenLayout, faults = 0, Closes
  PROVE  ClosedLayout' /\ stream'.pos = Start
<1>. PICK trailer \in TrailerBytes :
       LET done  == AfterDone(stream, trailer)
           evlrs == AfterEvlrs(done)
           info  == ClosedInfo(done.pos)
       IN  /\ stream' = Seek(AfterInfo(AfterHeader(evlrs, done.pos), info),
                             Start)
           /\ copc_info' = info
  BY DEF Closes, CloseFinish
<1>. PICK end \in Nat : end = stream.pos
  BY DEF TypeOK, FileTypeOK
<1>. DEFINE w1 == AfterTrailer(stream, trailer)
            w2 == AfterTableOffset(stream, trailer)
            w3 == AfterDone(stream, trailer)
            w4 == AfterHierarchy(w3)
            w5 == AfterForwarded(w4)
            w6 == AfterHeader(w5, w3.pos)
            w7 == AfterInfo(w6, ClosedInfo(w3.pos))
            n == 60 + 32 * Len(hierarchy)
            o == TableOffset(end + trailer)
            t == Table(end + trailer)
            e == HierarchyEvlr(end + trailer + TableBytes)
            h == FileHeader(end + trailer + TableBytes)
            i == [at |-> Start + HeaderBytes, len |-> InfoBytes,
                  info |-> copc_info']
            T == Trailer(end, trailer)
            F == Forwarded(end + trailer + TableBytes + n)
<1>0. /\ Start \in Nat /\ HeaderBytes \in Nat /\ InfoBytes \in Nat
      /\ VlrBytes \in Nat /\ TableBytes \in Nat /\ trailer \in Nat
      /\ HeaderBytes > 0 /\ InfoBytes > 0
      /\ start_pos \in Nat /\ n \in Nat /\ ForwardedEvlrs \in Nat
      /\ start_pos = Start + HeaderBytes + InfoBytes + VlrBytes
      /\ end \in Nat /\ start_pos + 8 <= end
      /\ ~is_closed
  <2>1. Len(hierarchy) \in Nat
    BY DEF TypeOK, FileTypeOK
  <2>2. n \in Nat
    BY <2>1
  <2>3. ~is_closed /\ start_pos + 8 <= end
    BY DEF OnDisk, OpenFile, Closes
  <2>. QED
    BY <2>2, <2>3, CompressorAssumption, WriterAssumption DEF start_pos
<1>1. /\ stream.disk = Chunks \cup {ReservedHeader, ReservedInfo, LasZipVlr}
                             \cup {TableOffset(-1)}
      /\ \A c \in stream.disk :
           c.at \in Nat /\ c.len \in Nat /\ c.at + c.len <= end
  BY <1>0 DEF OpenLayout, OnDisk, OpenFile
<1>2. \A c \in Chunks : start_pos + 8 <= c.at /\ c.at \in Nat /\ c.len \in Nat
                       /\ c.at + c.len <= end
  BY <1>1 DEF ChunksApart, Chunks
<1>3. \A c \in T : c.at = end /\ c.len = trailer
  BY DEF Trailer
<1>4. /\ w1.disk = stream.disk \cup T
      /\ w1.pos = end + trailer
  <2>1. CASE trailer = 0
    BY <1>0, <2>1 DEF AfterTrailer, Trailer
  <2>2. CASE trailer # 0
    <3>. DEFINE b == [at |-> end, len |-> trailer]
    <3>1. w1 = Put(stream, b) /\ T = {b} /\ b.at = end /\ b.len = trailer
      BY <2>2 DEF AfterTrailer, Trailer
    <3>. HIDE DEF b, w1, T
    <3>. QED
      BY <1>1, <3>1, PutAtEnd
  <2>. QED
    BY <2>1, <2>2
<1>5. w2.disk = (Chunks \cup {ReservedHeader, ReservedInfo, LasZipVlr} \cup T)
                  \cup {o}
  <2>. DEFINE old == TableOffset(-1)
              others == Chunks \cup {ReservedHeader, ReservedInfo, LasZipVlr} \cup T
  <2>1. w1.disk = others \cup {old}
    BY <1>1, <1>4
  <2>2. o.at = start_pos /\ o.len = 8 /\ old.at = start_pos /\ old.len = 8
    BY DEF TableOffset
  <2>3. \A c \in others : Disjoint(o, c)
    <3>1. \A c \in {ReservedHeader, ReservedInfo, LasZipVlr} :
            c.at + c.len <= start_pos
      BY <1>0 DEF ReservedHeader, ReservedInfo, LasZipVlr
    <3>2. \A c \in Chunks \cup T : start_pos + 8 <= c.at
      BY <1>0, <1>2, <1>3
    <3>. HIDE DEF o
    <3>. QED
      BY <2>2, <3>1, <3>2 DEF Disjoint
  <2>4. ~Disjoint(o, old)
    <3>. HIDE DEF o, old
    <3>. QED
      BY <1>0, <2>2 DEF Disjoint
  <2>5. w2 = Put(w1, o)
    BY <1>4 DEF AfterTableOffset
  <2>. HIDE DEF others, old, o, w1, w2
  <2>6. w2.disk = others \cup {o}
    BY <2>1, <2>3, <2>4, <2>5 DEF Put
  <2>. QED
    BY <2>6 DEF others
<1>6. /\ w3.disk = w2.disk \cup {t}
      /\ w3.pos = end + trailer + TableBytes
  <2>1. w3 = Put(w2, t) /\ t.at = end + trailer /\ t.len = TableBytes
    BY <1>4 DEF AfterDone, Table
  <2>2. \A c \in w2.disk : c.at + c.len <= end + trailer
    <3>. SUFFICES ASSUME NEW c \in w2.disk PROVE c.at + c.len <= end + trailer
      OBVIOUS
    <3>1. CASE c \in stream.disk
      <4>1. c.at \in Nat /\ c.len \in Nat /\ c.at + c.len <= end
        BY <1>1, <3>1
      <4>. QED
        BY <1>0, <4>1
    <3>2. CASE c \in T
      <4>1. c.at = end /\ c.len = trailer
        BY <1>3, <3>2
      <4>. QED
        BY <1>0, <4>1
    <3>3. CASE c = o
      <4>1. c.at = start_pos /\ c.len = 8
        BY <3>3 DEF TableOffset
      <4>. QED
        BY <1>0, <4>1
    <3>. QED
      BY <1>1, <1>5, <3>1, <3>2, <3>3
  <2>. HIDE DEF w2, w3, t
  <2>. QED
    BY <2>1, <2>2, PutAtEnd
<1>7. \A c \in w3.disk : /\ c.at \in Nat /\ c.len \in Nat
                        /\ c.at + c.len <= end + trailer + TableBytes
  <2>1. \A c \in w3.disk : c \in stream.disk \/ c \in T \/ c = o \/ c = t
    BY <1>1, <1>5, <1>6
  <2>2. /\ o.at = start_pos /\ o.len = 8
        /\ t.at = end + trailer /\ t.len = TableBytes
    BY DEF TableOffset, Table
  <2>3. ASSUME NEW c \in stream.disk
        PROVE  /\ c.at \in Nat /\ c.len \in Nat
               /\ c.at + c.len <= end + trailer + TableBytes
    <3>1. c.at \in Nat /\ c.len \in Nat /\ c.at + c.len <= end
      BY <1>1
    <3>. QED
      BY <1>0, <3>1
  <2>4. ASSUME NEW c \in {o, t}
        PROVE  /\ c.at \in Nat /\ c.len \in Nat
               /\ c.at + c.len <= end + trailer + TableBytes
    <3>. HIDE DEF o, t
    <3>1. \/ c.at = start_pos /\ c.len = 8
          \/ c.at = end + trailer /\ c.len = TableBytes
      BY <2>2
    <3>. QED
      BY <1>0, <3>1
  <2>5. ASSUME NEW c \in T
        PROVE  /\ c.at \in Nat /\ c.len \in Nat
               /\ c.at + c.len <= end + trailer + TableBytes
    <3>1. c.at = end /\ c.len = trailer
      BY <1>3
    <3>. QED
      BY <1>0, <3>1
  <2>. HIDE DEF o, t, T, w3
  <2>. QED
    BY <2>1, <2>3, <2>4, <2>5
<1>8. /\ w4.disk = w3.disk \cup {e}
      /\ w4.pos = end + trailer + TableBytes + n
      /\ e.at = end + trailer + TableBytes /\ e.len = n
  <2>1. /\ w4 = Put(w3, e)
        /\ e.at = end + trailer + TableBytes /\ e.len = n
    BY <1>6 DEF AfterHierarchy, HierarchyEvlr
  <2>. HIDE DEF w3, w4, e, n
  <2>. QED
    BY <1>7, <2>1, PutAtEnd
<1>9. w5.disk = w4.disk \cup F
  <2>1. \A c \in w4.disk : c.at \in Nat /\ c.len \in Nat /\ c.at + c.len <= w4.pos
    <3>. HIDE DEF w3, w4, e, n
    <3>. QED
      BY <1>0, <1>7, <1>8
  <2>2. w4.pos \in Nat
    <3>. HIDE DEF w4, n
    <3>. QED
      BY <1>0, <1>8
  <2>. HIDE DEF w4
  <2>. QED
    BY <1>8, <2>1, <2>2, ForwardedBehind
<1>10. \A c \in Chunks \cup T \cup {LasZipVlr, o, t, e} \cup F :
         Start + HeaderBytes + InfoBytes <= c.at
  <2>1. \A c \in Chunks \cup T : Start + HeaderBytes + InfoBytes <= c.at
    <3>. HIDE DEF T
    <3>. QED
      BY <1>0, <1>2, <1>3
  <2>2. /\ o.at = start_pos /\ t.at = end + trailer
        /\ LasZipVlr.at = Start + HeaderBytes + InfoBytes
    BY DEF TableOffset, Table, LasZipVlr
  <2>3. ASSUME NEW c \in {LasZipVlr, o, t, e}
        PROVE  Start + HeaderBytes + InfoBytes <= c.at
    <3>. HIDE DEF o, t, e
    <3>1. c.at \in {Start + HeaderBytes + InfoBytes, start_pos, end + trailer,
                    end + trailer + TableBytes}
      BY <1>8, <2>2
    <3>. HIDE DEF n
    <3>. QED
      BY <1>0, <3>1
  <2>4. ASSUME NEW c \in F PROVE Start + HeaderBytes + InfoBytes <= c.at
    <3>1. PICK j \in 1 .. ForwardedEvlrs :
            c = ForwardedEvlr(end + trailer + TableBytes + n, j)
      BY DEF Forwarded
    <3>2. c.at = end + trailer + TableBytes + n + 61 * (j - 1)
      BY <3>1 DEF ForwardedEvlr
    <3>3. j - 1 \in Nat
      BY <1>0
    <3>. HIDE DEF n
    <3>. QED
      BY <1>0, <3>2, <3>3
  <2>. HIDE DEF T, F, o, t, e
  <2>. QED
    BY <2>1, <2>3, <2>4
<1>11. w6.disk = (Chunks \cup T \cup {LasZipVlr, o, t, e} \cup F
                    \cup {ReservedInfo}) \cup {h}
  <2>. DEFINE others == Chunks \cup T \cup {LasZipVlr, o, t, e} \cup F
                          \cup {ReservedInfo}
  <2>1. w6 = Put(w5, h)
    BY <1>6 DEF AfterHeader, FileHeader
  <2>2. h.at = Start /\ h.len = HeaderBytes
    BY DEF FileHeader
  <2>3. w5.disk = others \cup {ReservedHeader}
    <3>. HIDE DEF w2, w3, w4, w5, T, F, o, t, e
    <3>. QED
      BY <1>5, <1>6, <1>8, <1>9
  <2>4. \A c \in others : Start + HeaderBytes <= c.at
    <3>1. ReservedInfo.at = Start + HeaderBytes
      BY DEF ReservedInfo
    <3>2. \A c \in others : c = ReservedInfo \/ Start + HeaderBytes + InfoBytes <= c.at
      <4>. HIDE DEF T, F, o, t, e
      <4>. QED
        BY <1>10
    <3>3. \A c \in others : c # ReservedInfo => c.at \in Int
      <4>1. \A c \in w5.disk : c \in Chunks \/ c \in w3.disk \/ c = e \/ c \in F
        <5>. HIDE DEF w3, w4, w5, F, e
        <5>. QED
          BY <1>8, <1>9
      <4>2. \A c \in F : c.at \in Int
        BY <1>0 DEF Forwarded, ForwardedEvlr
      <4>3. e.at \in Int
        <5>. HIDE DEF e
        <5>. QED
          BY <1>0, <1>8
      <4>. HIDE DEF w3, w5, F, e, others
      <4>. QED
        BY <1>2, <1>7, <2>3, <4>1, <4>2, <4>3
    <3>. HIDE DEF others
    <3>. QED
      BY <1>0, <3>1, <3>2, <3>3
  <2>5. \A c \in others : Disjoint(h, c)
    <3>. HIDE DEF h, others
    <3>. QED
      BY <2>2, <2>4 DEF Disjoint
  <2>6. ~Disjoint(h, ReservedHeader)
    <3>1. ReservedHeader.at = Start /\ ReservedHeader.len = HeaderBytes
      BY DEF ReservedHeader
    <3>. HIDE DEF h
    <3>. QED
      BY <1>0, <2>2, <3>1 DEF Disjoint
  <2>. HIDE DEF others, h, w5, w6
  <2>7. w6.disk = others \cup {h}
    BY <2>1, <2>3, <2>5, <2>6 DEF Put
  <2>. QED
    BY <2>7 DEF others
<1>12. w7.disk = (Chunks \cup T \cup {LasZipVlr, o, t, e} \cup F \cup {h})
                   \cup {i}
  <2>. DEFINE others == Chunks \cup T \cup {LasZipVlr, o, t, e} \cup F \cup {h}
  <2>1. w7 = Put(w6, i)
    BY DEF AfterInfo
  <2>2. /\ i.at = Start + HeaderBytes /\ i.len = InfoBytes
        /\ h.at = Start /\ h.len = HeaderBytes
    BY DEF FileHeader
  <2>3. w6.disk = others \cup {ReservedInfo}
    <3>. HIDE DEF w6, T, F, o, t, e, h
    <3>. QED
      BY <1>11
  <2>4. \A c \in others : Disjoint(i, c)
    <3>1. \A c \in others : c = h \/ Start + HeaderBytes + InfoBytes <= c.at
      <4>. HIDE DEF T, F, o, t, e, h
      <4>. QED
        BY <1>10
    <3>. HIDE DEF i, h, others
    <3>. QED
      BY <1>0, <2>2, <3>1 DEF Disjoint
  <2>5. ~Disjoint(i, ReservedInfo)
    <3>1. ReservedInfo.at = Start + HeaderBytes /\ ReservedInfo.len = InfoBytes
      BY DEF ReservedInfo
    <3>. HIDE DEF i
    <3>. QED
      BY <1>0, <2>2, <3>1 DEF Disjoint
  <2>. HIDE DEF others, i, w6, w7
  <2>6. w7.disk = others \cup {i}
    BY <2>1, <2>3, <2>4, <2>5 DEF Put
  <2>. QED
    BY <2>6 DEF others
<1>13. /\ stream'.disk = w7.disk /\ stream'.pos = Start
       /\ DOMAIN stream' = {"pos", "disk"}
  BY DEF Seek, AfterEvlrs
<1>14. /\ Chunks' = Chunks /\ is_closed' /\ faults' = 0
       /\ UNCHANGED <<hierarchy, chunk_table, number_of_points>>
  BY CloseWritesFile DEF OnDisk, Closes, CloseFinish, chunkVars, ClosedFile
<1>15. ClosedDisk(end, trailer)' =
         {h, i, LasZipVlr, o, t, e} \cup T \cup F
  <2>1. /\ \A at : FileHeader(at)' = FileHeader(at)
        /\ \A at : Table(at)' = Table(at)
        /\ \A at : HierarchyEvlr(at)' = HierarchyEvlr(at)
        /\ InfoVlr' = i /\ Len(hierarchy)' = Len(hierarchy)
    BY <1>14 DEF FileHeader, Table, HierarchyEvlr, InfoVlr
  <2>2. ClosedDisk(end, trailer)' =
          {h, i, LasZipVlr, o, t, e} \cup Trailer(end, trailer)
            \cup Forwarded(end + trailer + TableBytes + 60 + 32 * Len(hierarchy))
    <3>. HIDE DEF h, i, o, t, e
    <3>. QED
      BY <2>1 DEF ClosedDisk, h, o, t, e
  <2>3. end + trailer + TableBytes + 60 + 32 * Len(hierarchy)
          = end + trailer + TableBytes + n
    <3>1. Len(hierarchy) \in Nat
      BY DEF TypeOK, FileTypeOK
    <3>. QED
      BY <1>0, <3>1
  <2>. QED
    BY <2>2, <2>3
<1>16. copc_info'.root_hier_size = 32 * Len(hierarchy')
  <2>1. copc_info \in [gpstime_minimum : Int, gpstime_maximum : Int,
                       root_hier_offset : Nat, root_hier_size : Nat,
                       root_points : Nat]
    BY DEF TypeOK, StatTypeOK
  <2>. QED
    BY <1>14, <2>1 DEF ClosedInfo
<1>17. stream'.disk = Chunks' \cup ClosedDisk(end, trailer)'
  <2>. HIDE DEF w7, h, i, o, t, e, T, F
  <2>. QED
    BY <1>12, <1>13, <1>14, <1>15
<1>. QED
  BY <1>0, <1>2, <1>13, <1>14, <1>16, <1>17 DEF ClosedLayout

(***************************************************************************)
(* What a file has on disk without an error of the stream, open or closed; *)
(* close leaves the stream at the start of the file.                       *)
(***************************************************************************)
Layout == ChunksApart /\ OpenLayout /\ ClosedLayout

Rewound == faults = 0 /\ is_closed => stream.pos = Start

LEMMA LayoutInit == Init => Layout /\ Rewound
<1>. SUFFICES ASSUME Init PROVE Layout /\ Rewound
  OBVIOUS
<1>1. /\ stream.disk = {ReservedHeader, ReservedInfo, LasZipVlr, TableOffset(-1)}
      /\ DOMAIN stream = {"pos", "disk"}
      /\ hierarchy = <<>> /\ ~is_closed
  BY DEF Init, CompressorInit, ReservedHeader, ReservedInfo, LasZipVlr
<1>2. Chunks = {}
  BY <1>1
  DEF Chunks, ReservedHeader, ReservedInfo, LasZipVlr, TableOffset
<1>3. OpenLayout /\ ClosedLayout /\ Rewound
  BY <1>1, <1>2 DEF OpenLayout, ClosedLayout, Rewound
<1>4. ChunksApart
  BY <1>1, <1>2, FS_EmptySet DEF ChunksApart
<1>. QED
  BY <1>3, <1>4 DEF Layout

LEMMA LayoutInductive ==
  ASSUME TypeOK, ClosedIsAtRest, OnDisk, Layout, Rewound, [Next]_vars
  PROVE  Layout' /\ Rewound'
<1>. SUFFICES ASSUME faults' = 0 PROVE Layout' /\ Rewound'
  BY DEF Layout, Rewound, ChunksApart, OpenLayout, ClosedLayout
<1>1. ~Breaks
  BY DEF Breaks, TypeOK, CallTypeOK
<1>2. ASSUME UNCHANGED <<stream, hierarchy, is_closed, faults>>,
             is_closed => UNCHANGED <<chunk_table, number_of_points, copc_info>>
      PROVE  Layout' /\ Rewound'
  <2>1. Chunks' = Chunks
    BY <1>2 DEF Chunks
  <2>2. ChunksApart' /\ OpenLayout' /\ Rewound'
    BY <1>2, <2>1
    DEF Layout, ChunksApart, OpenLayout, Rewound, Disjoint, ReservedHeader,
        ReservedInfo, LasZipVlr, TableOffset
  <2>3. ClosedLayout'
    <3>. SUFFICES ASSUME is_closed PROVE ClosedLayout'
      BY <1>2 DEF ClosedLayout
    <3>1. PICK end \in Nat, trailer \in TrailerBytes :
            /\ start_pos + 8 <= end
            /\ \A b \in Chunks : b.at + b.len <= end
            /\ stream.disk = Chunks \cup ClosedDisk(end, trailer)
      BY <1>2 DEF Layout, ClosedLayout
    <3>2. ClosedDisk(end, trailer)' = ClosedDisk(end, trailer)
      BY <1>2
      DEF ClosedDisk, FileHeader, InfoVlr, Table, HierarchyEvlr, TableOffset
    <3>. QED
      BY <1>2, <2>1, <3>1, <3>2 DEF Layout, ClosedLayout
  <2>. QED
    BY <2>2, <2>3 DEF Layout
<1>3. CASE is_closed
  BY <1>2, <1>3, ClosedFileIsLeft DEF fileVars, compressorVars, chunkVars, statVars
<1>4. CASE ~is_closed
  <2>1. CASE LeavesFile
    BY <1>2, <1>4, <2>1 DEF LeavesFile, fileVars, compressorVars, chunkVars
  <2>2. CASE Closes
    <3>1. faults = 0 /\ is_closed'
      BY <2>2 DEF Closes, CloseFinish
    <3>2. ClosedLayout' /\ stream'.pos = Start
      BY <2>2, <3>1, CloseLaysOut DEF Layout
    <3>3. Chunks' = Chunks /\ hierarchy' = hierarchy
      BY <2>2, <3>1, CloseWritesFile
      DEF OnDisk, Closes, CloseFinish, ClosedFile
    <3>4. ChunksApart'
      BY <3>1, <3>3 DEF Layout, ChunksApart, Disjoint
    <3>. QED
      BY <3>1, <3>2, <3>4 DEF Layout, OpenLayout, Rewound
  <2>3. ASSUME NEW k \in VoxelKeys, NEW points, points # {}, NEW b, NEW e,
               ChunkAtEnd(k, points, b, e), UNCHANGED <<is_closed, faults>>
        PROVE  Layout' /\ Rewound'
    <3>1. faults = 0
      BY <2>3
    <3>2. ChunksApart' /\ OpenLayout'
      BY <1>4, <2>3, <3>1, ChunkStaysApart DEF Layout
    <3>. QED
      BY <1>4, <2>3, <3>2 DEF Layout, ClosedLayout, Rewound
  <2>4. ASSUME NEW p \in Points, NEW k \in VoxelKeys, Buffers(p, k)
        PROVE  Layout' /\ Rewound'
    BY <1>2, <1>4, <2>4 DEF Buffers, Accepts, compressorVars, chunkVars
  <2>5. ASSUME NEW p \in Points, NEW k \in VoxelKeys, Fills(p, k)
        PROVE  Layout' /\ Rewound'
    <3>1. UNCHANGED <<is_closed, faults>>
      BY <2>5 DEF Fills, Accepts
    <3>2. PICK b, e : ChunkAtEnd(k, open_chunks[k] \cup {p}, b, e)
      BY <2>5, <3>1, FillsChunk, NeverTwiceInductive DEF OnDisk
    <3>. QED
      BY <2>3, <3>1, <3>2
  <2>6. ASSUME NEW k \in VoxelKeys, Drains(k)
        PROVE  Layout' /\ Rewound'
    <3>1. UNCHANGED <<is_closed, faults>> /\ open_chunks[k] # {}
      BY <2>6 DEF Drains
    <3>2. PICK b, e : ChunkAtEnd(k, open_chunks[k], b, e)
      BY <2>6, <3>1, DrainsChunk, NeverTwiceInductive DEF OnDisk
    <3>. QED
      BY <2>3, <3>1, <3>2
  <2>. QED
    BY <1>1, <2>1, <2>2, <2>4, <2>5, <2>6, StepsOnDisk
<1>. QED
  BY <1>3, <1>4

(***************************************************************************)
(* The chunks of a closed file hold the points accepted.                   *)
(***************************************************************************)
ClosedHoldsAccepted ==
  faults = 0 /\ is_closed => UNION { b.points : b \in Chunks } = Accepted

LEMMA ClosedHoldsAcceptedInductive ==
  ASSUME TypeOK, ClosedIsAtRest, OnDisk, Kept, ClosedHoldsAccepted, [Next]_vars
  PROVE  ClosedHoldsAccepted'
<1>. SUFFICES ASSUME faults' = 0, is_closed' PROVE ClosedHoldsAccepted'
  BY DEF ClosedHoldsAccepted
<1>1. CASE is_closed
  <2>1. /\ faults = 0 /\ Accepted' = Accepted /\ stream' = stream
    BY <1>1, ClosedFileIsLeft, NothingAccepted
    DEF fileVars, compressorVars, chunkVars
  <2>2. Chunks' = Chunks
    BY <2>1 DEF Chunks
  <2>. QED
    BY <1>1, <2>1, <2>2 DEF ClosedHoldsAccepted
<1>2. CASE ~is_closed
  <2>1. CloseFinish /\ faults = 0 /\ Accepted' = Accepted
    <3>1. CloseFinish
      BY <1>2, ClosingSteps
    <3>. QED
      BY <3>1, NothingAccepted DEF CloseFinish, ghostVars
  <2>2. Chunks' = Chunks
    BY <1>2, <2>1, CloseWritesFile DEF OnDisk, ClosedFile
  <2>3. UNION { b.points : b \in Chunks } = Accepted
    BY <2>1, DrainedChunks DEF CloseFinish
  <2>. QED
    BY <2>1, <2>2, <2>3 DEF ClosedHoldsAccepted
<1>. QED
  BY <1>1, <1>2

(***************************************************************************)
(* If every point can be encoded, the points counted are those accepted,   *)
(* also those that find no node.                                           *)
(***************************************************************************)
AllCounted ==
  Points \subseteq Encodable => number_of_points = Cardinality(Accepted)

LEMMA AllCountedInductive ==
  ASSUME TypeOK, ClosedIsAtRest, AllCounted, [Next]_vars
  PROVE  AllCounted'
<1>. SUFFICES ASSUME Points \subseteq Encodable PROVE AllCounted'
  BY DEF AllCounted
<1>0. IsFiniteSet(Accepted) /\ number_of_points = Cardinality(Accepted)
  BY CompressorAssumption, FS_Subset DEF Accepted, TypeOK, CallTypeOK, AllCounted
<1>1. ASSUME UNCHANGED <<taken, number_of_points>>
      PROVE  AllCounted'
  BY <1>0, <1>1, NothingAccepted DEF AllCounted
<1>2. ASSUME NEW p \in Points, AddPoint(p)
      PROVE  AllCounted'
  <2>1. /\ number_of_points' = number_of_points + 1
        /\ p \notin Accepted
    BY <1>2, AddPointCounts
  <2>2. Take(p) /\ Valid(p) /\ p \in Encodable
    BY <1>2 DEF AddPoint, Valid
  <2>3. Accepted' = Accepted \cup {p}
    BY <2>2, TakenAccepted
  <2>4. Cardinality(Accepted') = Cardinality(Accepted) + 1
    BY <1>0, <2>1, <2>3, FS_AddElement
  <2>. QED
    BY <1>0, <2>1, <2>4 DEF AllCounted
<1>3. ASSUME NEW p \in Points, Reject(p)
      PROVE  AllCounted'
  <2>1. Take(p) /\ ~Valid(p) /\ number_of_points' = number_of_points
    BY <1>3 DEF Reject, Valid, statVars
  <2>2. Accepted' = Accepted
    BY <2>1, TakenAccepted
  <2>. QED
    BY <1>0, <2>1, <2>2 DEF AllCounted
<1>4. ASSUME NEW n \in NumPoints, CallWrite(n)
      PROVE  AllCounted'
  BY <1>1, <1>4 DEF CallWrite, statVars
<1>5. ASSUME NEW k \in VoxelKeys, DrainChunk(k) \/ DrainFails(k)
      PROVE  AllCounted'
  BY <1>1, <1>5 DEF DrainChunk, DrainFails, statVars, ghostVars
<1>6. CASE \/ EndOfPoints \/ Unwind \/ CloseRefused \/ CloseFinish
           \/ CloseFinishFails \/ DropWriter \/ UNCHANGED vars
  BY <1>1, <1>6
  DEF EndOfPoints, Unwind, CloseRefused, CloseFinish, CloseFinishFails,
      DropWriter, vars, statVars, ghostVars
<1>. QED
  BY <1>2, <1>3, <1>4, <1>5, <1>6 DEF Next, Running

(***************************************************************************)
(* The blocks of a closed file, by what they hold and where they are.      *)
(***************************************************************************)
LaidOut(end, trailer) ==
  /\ end \in Nat /\ trailer \in Nat
  /\ start_pos + 8 <= end
  /\ \A b \in Chunks : b.at + b.len <= end
  /\ stream.disk = Chunks \cup ClosedDisk(end, trailer)

FirstEvlr(end, trailer) == end + trailer + TableBytes

ClosedEvlrs(first) ==
  {HierarchyEvlr(first)} \cup Forwarded(first + 60 + 32 * Len(hierarchy))

LEMMA ForwardedFields ==
  ASSUME NEW at \in Nat, NEW b \in Forwarded(at)
  PROVE  /\ DOMAIN b = {"at", "len", "evlr"}
         /\ b.at \in Nat /\ at <= b.at /\ b.len = 61
<1>1. PICK i \in 1 .. ForwardedEvlrs : b = ForwardedEvlr(at, i)
  BY DEF Forwarded
<1>2. i - 1 \in Nat
  BY WriterAssumption
<1>3. b.at = at + 61 * (i - 1)
  BY <1>1 DEF ForwardedEvlr
<1>. QED
  BY <1>1, <1>2, <1>3 DEF ForwardedEvlr

LEMMA ClosedBlocks ==
  ASSUME TypeOK, ChunksApart, faults = 0, NEW end, NEW trailer,
         LaidOut(end, trailer), NEW first, first = FirstEvlr(end, trailer),
         NEW b \in stream.disk
  PROVE  /\ b.at \in Nat /\ b.len \in Nat
         /\ "start_of_first_evlr" \in DOMAIN b <=> b = FileHeader(first)
         /\ "info" \in DOMAIN b <=> b = InfoVlr
         /\ "laszip" \in DOMAIN b <=> b = LasZipVlr
         /\ "page" \in DOMAIN b <=> b = HierarchyEvlr(first)
         /\ "points" \in DOMAIN b <=> b \in Chunks
         /\ first <= b.at <=> b \in ClosedEvlrs(first)
         /\ Start + HeaderBytes <= b.at /\ b.at < start_pos
              <=> b \in {InfoVlr, LasZipVlr}
<1>. DEFINE behind == first + 60 + 32 * Len(hierarchy)
            Kinds ==
              /\ "start_of_first_evlr" \in DOMAIN b <=> b = FileHeader(first)
              /\ "info" \in DOMAIN b <=> b = InfoVlr
              /\ "laszip" \in DOMAIN b <=> b = LasZipVlr
              /\ "page" \in DOMAIN b <=> b = HierarchyEvlr(first)
              /\ "points" \in DOMAIN b <=> b \in Chunks
            Places ==
              /\ b.at \in Nat /\ b.len \in Nat
              /\ first <= b.at <=> b \in ClosedEvlrs(first)
              /\ Start + HeaderBytes <= b.at /\ b.at < start_pos
                   <=> b \in {InfoVlr, LasZipVlr}
<1>0. /\ Start \in Nat /\ HeaderBytes \in Nat /\ InfoBytes \in Nat
      /\ VlrBytes \in Nat /\ TableBytes \in Nat /\ TableBytes > 0
      /\ HeaderBytes > 0 /\ InfoBytes > 0 /\ VlrBytes > 0
      /\ start_pos = Start + HeaderBytes + InfoBytes + VlrBytes
      /\ end \in Nat /\ trailer \in Nat /\ start_pos + 8 <= end
      /\ first = end + trailer + TableBytes
      /\ Len(hierarchy) \in Nat /\ behind \in Nat /\ first <= behind
  <2>1. Len(hierarchy) \in Nat
    BY DEF TypeOK, FileTypeOK
  <2>2. /\ Start \in Nat /\ HeaderBytes \in Nat /\ InfoBytes \in Nat
        /\ VlrBytes \in Nat /\ TableBytes \in Nat /\ TableBytes > 0
        /\ HeaderBytes > 0 /\ InfoBytes > 0 /\ VlrBytes > 0
        /\ start_pos = Start + HeaderBytes + InfoBytes + VlrBytes
    BY CompressorAssumption DEF start_pos
  <2>3. /\ end \in Nat /\ trailer \in Nat /\ start_pos + 8 <= end
        /\ first = end + trailer + TableBytes
    BY DEF LaidOut, FirstEvlr
  <2>4. first \in Nat
    BY <2>2, <2>3
  <2>5. behind \in Nat /\ first <= behind
    BY <2>1, <2>4
  <2>. QED
    BY <2>1, <2>2, <2>3, <2>5
<1>1. /\ DOMAIN FileHeader(first) =
           {"at", "len", "start_of_first_evlr", "number_of_evlrs",
            "offset_to_point_data", "number_of_points"}
      /\ FileHeader(first).at = Start /\ FileHeader(first).len = HeaderBytes
  BY DEF FileHeader
<1>2. /\ DOMAIN InfoVlr = {"at", "len", "info"}
      /\ InfoVlr.at = Start + HeaderBytes /\ InfoVlr.len = InfoBytes
  BY DEF InfoVlr
<1>3. /\ DOMAIN LasZipVlr = {"at", "len", "laszip"}
      /\ LasZipVlr.at = Start + HeaderBytes + InfoBytes
      /\ LasZipVlr.len = VlrBytes
  BY DEF LasZipVlr
<1>4. /\ DOMAIN HierarchyEvlr(first) = {"at", "len", "page"}
      /\ HierarchyEvlr(first).at = first
      /\ HierarchyEvlr(first).len = 60 + 32 * Len(hierarchy)
  BY DEF HierarchyEvlr
<1>5. \A c \in Forwarded(behind) :
        /\ DOMAIN c = {"at", "len", "evlr"}
        /\ c.at \in Nat /\ first <= c.at /\ c.len = 61
  <2>. SUFFICES ASSUME NEW c \in Forwarded(behind)
                PROVE  /\ DOMAIN c = {"at", "len", "evlr"}
                       /\ c.at \in Nat /\ first <= c.at /\ c.len = 61
    OBVIOUS
  <2>. HIDE DEF behind
  <2>1. /\ DOMAIN c = {"at", "len", "evlr"}
        /\ c.at \in Nat /\ behind <= c.at /\ c.len = 61
    BY <1>0, ForwardedFields
  <2>. QED
    BY <1>0, <2>1
<1>6. \A c \in ClosedEvlrs(first) :
        c = HierarchyEvlr(first) \/ c \in Forwarded(behind)
  BY DEF ClosedEvlrs
<1>7. \A c \in Chunks :
        /\ DOMAIN c = {"at", "len", "points"} /\ c.at \in Nat /\ c.len \in Nat
        /\ start_pos <= c.at /\ c.at < first
  <2>. SUFFICES ASSUME NEW c \in Chunks
                PROVE  /\ DOMAIN c = {"at", "len", "points"}
                       /\ c.at \in Nat /\ c.len \in Nat
                       /\ start_pos <= c.at /\ c.at < first
    OBVIOUS
  <2>1. /\ DOMAIN c = {"at", "len", "points"} /\ c.at \in Nat /\ c.len \in Nat
        /\ start_pos + 8 <= c.at /\ c.at + c.len <= end
    BY DEF ChunksApart, LaidOut
  <2>. QED
    BY <1>0, <2>1
<1>8. \A c \in Trailer(end, trailer) \cup {TableOffset(end + trailer)}
                \cup {Table(end + trailer)} :
        /\ DOMAIN c \in {{"at", "len"}, {"at", "len", "table"},
                          {"at", "len", "table_offset"}}
        /\ c.at \in Nat /\ c.len \in Nat
        /\ start_pos <= c.at /\ c.at < first
  <2>1. \A c \in Trailer(end, trailer) :
          DOMAIN c = {"at", "len"} /\ c.at = end /\ c.len = trailer
    BY DEF Trailer
  <2>2. /\ DOMAIN TableOffset(end + trailer) = {"at", "len", "table_offset"}
        /\ TableOffset(end + trailer).at = start_pos
        /\ TableOffset(end + trailer).len = 8
    BY DEF TableOffset
  <2>3. /\ DOMAIN Table(end + trailer) = {"at", "len", "table"}
        /\ Table(end + trailer).at = end + trailer
        /\ Table(end + trailer).len = TableBytes
    BY DEF Table
  <2>4. /\ start_pos \in Nat /\ 8 \in Nat /\ end + trailer \in Nat
        /\ start_pos < first /\ start_pos <= end /\ end < first
        /\ start_pos <= end + trailer /\ end + trailer < first
    BY <1>0
  <2>. HIDE DEF behind
  <2>. QED
    BY <1>0, <2>1, <2>2, <2>3, <2>4
<1>9. \/ b \in Chunks
      \/ b \in Trailer(end, trailer) \cup {TableOffset(end + trailer)}
               \cup {Table(end + trailer)}
      \/ b \in {FileHeader(first), InfoVlr, LasZipVlr, HierarchyEvlr(first)}
      \/ b \in Forwarded(behind)
  BY <1>0 DEF LaidOut, ClosedDisk
<1>10. /\ HierarchyEvlr(first) \in ClosedEvlrs(first)
       /\ Forwarded(behind) \subseteq ClosedEvlrs(first)
  BY DEF ClosedEvlrs
<1>11. \A c \in ClosedEvlrs(first) : first <= c.at
  <2>. HIDE DEF behind
  <2>. QED
    BY <1>0, <1>4, <1>5, <1>6
<1>12. "points" \in DOMAIN b <=> b \in Chunks
  BY DEF Chunks
<1>13. CASE b \in Chunks
  <2>1. /\ DOMAIN b = {"at", "len", "points"} /\ b.at \in Nat /\ b.len \in Nat
        /\ start_pos <= b.at /\ b.at < first
    BY <1>7, <1>13
  <2>2. Kinds
    BY <1>1, <1>2, <1>3, <1>4, <1>12, <2>1
  <2>3. Places
    <3>1. "info" \notin DOMAIN b /\ "laszip" \notin DOMAIN b
      BY <2>1
    <3>2. b \notin {InfoVlr, LasZipVlr}
      BY <2>2, <3>1
    <3>3. b \notin ClosedEvlrs(first)
      BY <1>0, <1>11, <2>1
    <3>4. ~(first <= b.at) /\ ~(b.at < start_pos)
      <4>. HIDE DEF behind
      <4>. QED
        BY <1>0, <2>1
    <3>. QED
      BY <2>1, <3>2, <3>3, <3>4
  <2>. QED
    BY <2>2, <2>3
<1>14. CASE b \in Trailer(end, trailer) \cup {TableOffset(end + trailer)}
                   \cup {Table(end + trailer)}
  <2>1. /\ DOMAIN b \in {{"at", "len"}, {"at", "len", "table"},
                          {"at", "len", "table_offset"}}
        /\ b.at \in Nat /\ b.len \in Nat
        /\ start_pos <= b.at /\ b.at < first
    BY <1>8, <1>14
  <2>2. Kinds
    <3>1. DOMAIN b \cap {"start_of_first_evlr", "info", "laszip", "page", "points"}
            = {}
      BY <2>1
    <3>. QED
      BY <1>1, <1>2, <1>3, <1>4, <1>12, <3>1
  <2>3. Places
    <3>1. "info" \notin DOMAIN b /\ "laszip" \notin DOMAIN b
      BY <2>1
    <3>2. b \notin {InfoVlr, LasZipVlr}
      BY <2>2, <3>1
    <3>3. b \notin ClosedEvlrs(first)
      BY <1>0, <1>11, <2>1
    <3>4. ~(first <= b.at) /\ ~(b.at < start_pos)
      <4>. HIDE DEF behind
      <4>. QED
        BY <1>0, <2>1
    <3>. QED
      BY <2>1, <3>2, <3>3, <3>4
  <2>. QED
    BY <2>2, <2>3
<1>15. CASE b \in {FileHeader(first), InfoVlr, LasZipVlr, HierarchyEvlr(first)}
  <2>1. Kinds
    BY <1>1, <1>2, <1>3, <1>4, <1>12, <1>15
  <2>2. Places
    <3>1. CASE b = HierarchyEvlr(first)
      <4>1. b.at = first /\ b.len \in Nat /\ b \in ClosedEvlrs(first)
        BY <1>0, <1>4, <1>10, <3>1
      <4>2. b \notin {InfoVlr, LasZipVlr}
        BY <1>2, <1>3, <1>4, <3>1
      <4>. QED
        BY <1>0, <4>1, <4>2
    <3>2. CASE b = FileHeader(first)
      <4>1. b.at = Start /\ b.len \in Nat
        BY <1>0, <1>1, <3>2
      <4>2. b \notin {InfoVlr, LasZipVlr}
        BY <1>1, <1>2, <1>3, <3>2
      <4>3. b \notin ClosedEvlrs(first)
        BY <1>0, <1>11, <4>1
      <4>. QED
        BY <1>0, <4>1, <4>2, <4>3
    <3>3. CASE b \in {InfoVlr, LasZipVlr}
      <4>1. /\ b.at \in {Start + HeaderBytes, Start + HeaderBytes + InfoBytes}
            /\ b.len \in Nat
        BY <1>0, <1>2, <1>3, <3>3
      <4>2. b \notin ClosedEvlrs(first)
        BY <1>0, <1>11, <4>1
      <4>. QED
        BY <1>0, <3>3, <4>1, <4>2
    <3>. QED
      BY <1>15, <3>1, <3>2, <3>3
  <2>. QED
    BY <2>1, <2>2
<1>16. CASE b \in Forwarded(behind)
  <2>1. /\ DOMAIN b = {"at", "len", "evlr"}
        /\ b.at \in Nat /\ first <= b.at /\ b.len = 61
    BY <1>5, <1>16
  <2>2. Kinds
    BY <1>1, <1>2, <1>3, <1>4, <1>12, <2>1
  <2>3. Places
    <3>1. "info" \notin DOMAIN b /\ "laszip" \notin DOMAIN b
      BY <2>1
    <3>2. b \notin {InfoVlr, LasZipVlr} /\ b \in ClosedEvlrs(first)
      BY <1>10, <1>16, <2>2, <3>1
    <3>3. first <= b.at /\ ~(b.at < start_pos)
      <4>. HIDE DEF behind
      <4>. QED
        BY <1>0, <2>1
    <3>. QED
      BY <2>1, <3>2, <3>3
  <2>. QED
    BY <2>2, <2>3
<1>. QED
  BY <1>9, <1>13, <1>14, <1>15, <1>16

(***************************************************************************)
(* The evlrs follow each other, the hierarchy first.                       *)
(***************************************************************************)
LEMMA EvlrsFollow ==
  ASSUME TypeOK, NEW first \in Nat
  PROVE  /\ IsFiniteSet(ClosedEvlrs(first))
         /\ Cardinality(ClosedEvlrs(first)) = NumberOfEvlrs
         /\ \A b \in ClosedEvlrs(first) :
              /\ "page" \in DOMAIN b \/ "evlr" \in DOMAIN b
              /\ b.at = first \/ \E c \in ClosedEvlrs(first) : c.at + c.len = b.at
<1>. DEFINE h == HierarchyEvlr(first)
            behind == first + 60 + 32 * Len(hierarchy)
            g == [i \in 1 .. ForwardedEvlrs |-> ForwardedEvlr(behind, i)]
<1>0. /\ Len(hierarchy) \in Nat /\ behind \in Nat /\ ForwardedEvlrs \in Nat
  BY WriterAssumption DEF TypeOK, FileTypeOK
<1>1. /\ DOMAIN h = {"at", "len", "page"}
      /\ h.at = first /\ h.at + h.len = behind
  <2>1. h.at = first /\ h.len = 60 + 32 * Len(hierarchy)
    BY DEF HierarchyEvlr
  <2>. QED
    BY <1>0, <2>1 DEF HierarchyEvlr
<1>. HIDE DEF h, behind
<1>2. /\ ClosedEvlrs(first) = Forwarded(behind) \cup {h}
      /\ Forwarded(behind) = { ForwardedEvlr(behind, i) : i \in 1 .. ForwardedEvlrs }
  BY DEF ClosedEvlrs, Forwarded, h, behind
<1>3. \A i \in 1 .. ForwardedEvlrs :
        /\ DOMAIN g[i] = {"at", "len", "evlr"} /\ g[i].evlr = i
        /\ g[i].at = behind + 61 * (i - 1) /\ g[i].len = 61
        /\ g[i] \in Forwarded(behind)
  BY <1>2 DEF ForwardedEvlr
<1>4. /\ IsFiniteSet(Forwarded(behind))
      /\ Cardinality(Forwarded(behind)) = ForwardedEvlrs
  <2>1. g \in Bijection(1 .. ForwardedEvlrs, Forwarded(behind))
    <3>1. g \in [1 .. ForwardedEvlrs -> Forwarded(behind)]
      BY <1>3
    <3>2. \A i, j \in 1 .. ForwardedEvlrs : g[i] = g[j] => i = j
      BY <1>3
    <3>3. \A b \in Forwarded(behind) : \E i \in 1 .. ForwardedEvlrs : g[i] = b
      BY <1>2
    <3>4. DOMAIN g = 1 .. ForwardedEvlrs
      OBVIOUS
    <3>. HIDE DEF g
    <3>5. IsInjective(g)
      BY <3>2, <3>4 DEF IsInjective
    <3>. QED
      BY <3>1, <3>3, <3>5 DEF Bijection, Injection, Surjection
  <2>2. ExistsBijection(1 .. ForwardedEvlrs, Forwarded(behind))
    BY <2>1 DEF ExistsBijection
  <2>3. /\ IsFiniteSet(1 .. ForwardedEvlrs)
        /\ Cardinality(1 .. ForwardedEvlrs) = ForwardedEvlrs
    BY <1>0, FS_Interval
  <2>. QED
    BY <2>2, <2>3, FS_Bijection
<1>5. h \notin Forwarded(behind)
  <2>1. \A b \in Forwarded(behind) : DOMAIN b = {"at", "len", "evlr"}
    BY <1>2 DEF ForwardedEvlr
  <2>. QED
    BY <1>1, <2>1
<1>6. /\ IsFiniteSet(ClosedEvlrs(first))
      /\ Cardinality(ClosedEvlrs(first)) = NumberOfEvlrs
  BY <1>2, <1>4, <1>5, FS_AddElement DEF NumberOfEvlrs
<1>7. ASSUME NEW b \in ClosedEvlrs(first)
      PROVE  /\ "page" \in DOMAIN b \/ "evlr" \in DOMAIN b
             /\ b.at = first \/ \E c \in ClosedEvlrs(first) : c.at + c.len = b.at
  <2>1. CASE b = h
    BY <1>1, <2>1
  <2>2. ASSUME NEW i \in 1 .. ForwardedEvlrs, b = g[i]
        PROVE  /\ "evlr" \in DOMAIN b
               /\ \E c \in ClosedEvlrs(first) : c.at + c.len = b.at
    <3>1. DOMAIN b = {"at", "len", "evlr"} /\ b.at = behind + 61 * (i - 1)
      BY <1>3, <2>2
    <3>2. CASE i = 1
      BY <1>0, <1>1, <1>2, <3>1, <3>2
    <3>3. CASE i # 1
      <4>1. i - 1 \in 1 .. ForwardedEvlrs
        BY <1>0, <3>3
      <4>2. /\ g[i - 1] \in ClosedEvlrs(first)
            /\ g[i - 1].at = behind + 61 * ((i - 1) - 1) /\ g[i - 1].len = 61
        BY <1>2, <1>3, <4>1
      <4>3. g[i - 1].at + g[i - 1].len = b.at
        <5>. HIDE DEF g
        <5>. QED
          BY <1>0, <3>1, <4>2
      <4>. QED
        BY <3>1, <4>2, <4>3
    <3>. QED
      BY <3>2, <3>3
  <2>. QED
    BY <1>2, <2>1, <2>2
<1>. QED
  BY <1>6, <1>7

LEMMA ClosedDiskIsFinite ==
  ASSUME TypeOK, ChunksApart, faults = 0, NEW end, NEW trailer,
         LaidOut(end, trailer)
  PROVE  IsFiniteSet(stream.disk)
<1>. DEFINE first == FirstEvlr(end, trailer)
            singles == {FileHeader(first), InfoVlr, LasZipVlr,
                        TableOffset(end + trailer), Table(end + trailer)}
<1>1. first \in Nat
  BY CompressorAssumption DEF FirstEvlr, LaidOut
<1>2. stream.disk =
        (Chunks \cup ClosedEvlrs(first)) \cup (singles \cup Trailer(end, trailer))
  BY DEF LaidOut, ClosedDisk, ClosedEvlrs, FirstEvlr
<1>3. IsFiniteSet(Trailer(end, trailer))
  BY FS_EmptySet, FS_Singleton DEF Trailer
<1>4. IsFiniteSet(singles)
  <2>. DEFINE s == {FileHeader(first)}
              t == s \cup {InfoVlr}
              u == t \cup {LasZipVlr}
              v == u \cup {TableOffset(end + trailer)}
  <2>1. IsFiniteSet(s)
    BY FS_Singleton
  <2>2. IsFiniteSet(t)
    BY <2>1, FS_AddElement
  <2>3. IsFiniteSet(u)
    BY <2>2, FS_AddElement
  <2>4. IsFiniteSet(v)
    BY <2>3, FS_AddElement
  <2>5. singles = v \cup {Table(end + trailer)}
    OBVIOUS
  <2>. HIDE DEF v, singles
  <2>. QED
    BY <2>4, <2>5, FS_AddElement
<1>5. IsFiniteSet(Chunks) /\ IsFiniteSet(ClosedEvlrs(first))
  BY <1>1, EvlrsFollow DEF ChunksApart
<1>. HIDE DEF singles, first
<1>6. /\ IsFiniteSet(Chunks \cup ClosedEvlrs(first))
      /\ IsFiniteSet(singles \cup Trailer(end, trailer))
  BY <1>3, <1>4, <1>5, FS_Union
<1>. QED
  BY <1>2, <1>6, FS_Union
=============================================================================
