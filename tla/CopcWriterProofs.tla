-------------------------- MODULE CopcWriterProofs --------------------------
(***************************************************************************)
(* Theorems about CopcWriter, for every value of its constants: types, the *)
(* results of calls, and the nodes: a node is written once and never       *)
(* outgrows its limit, and under the greedy strategy no node is written    *)
(* before its parent.                                                      *)
(***************************************************************************)
EXTENDS CopcWriter, CopcOctreeProofs

-----------------------------------------------------------------------------
(* Lemmas about the operators of the model.                                *)

(***************************************************************************)
(* The points of a chunk can be counted.                                   *)
(***************************************************************************)
LEMMA ChunksAreFinite ==
  ASSUME NEW S \in SUBSET Points
  PROVE  IsFiniteSet(S) /\ Cardinality(S) \in Nat
BY CompressorAssumption, FS_Subset, FS_CardinalityType

(***************************************************************************)
(* The nodes a walk may choose for a point are voxels of the octree.       *)
(***************************************************************************)
LEMMA HomeIsVoxels ==
  ASSUME NEW p \in Points
  PROVE  Home[p] \subseteq VoxelKeys
BY DEF Home, VoxelsOf

LEMMA ChildrenAreVoxels ==
  ASSUME NEW S
  PROVE  UNION { Children(j) : j \in S } \subseteq VoxelKeys
BY DEF Children

LEMMA StreamPositions == start_pos \in Nat
BY CompressorAssumption DEF start_pos

(***************************************************************************)
(* What compress_chunk returns, and what it leaves behind.                 *)
(***************************************************************************)
LEMMA WrittenChunkType ==
  ASSUME FileTypeOK, NEW points \in SUBSET Points, NEW bytes \in ChunkBytes
  PROVE  WrittenChunk(points, bytes) \in
           [offset : Nat, byte_size : Int, point_count : Nat]
<1>1. Cardinality(current_chunk \cup points) \in Nat
  BY ChunksAreFinite DEF FileTypeOK
<1>2. bytes \in Nat
  BY CompressorAssumption
<1>. QED
  BY <1>1, <1>2 DEF WrittenChunk, FileTypeOK

LEMMA WriteChunkType ==
  ASSUME FileTypeOK, NEW k \in VoxelKeys, NEW points \in SUBSET Points,
         WriteChunk(k, points),
         open_chunks' \in [VoxelKeys -> SUBSET Points]
  PROVE  FileTypeOK'
<1>. PICK bytes \in ChunkBytes :
       /\ CompressChunk(points, bytes)
       /\ hierarchy' = Append(hierarchy, EntryOf(k, WrittenChunk(points, bytes)))
  BY DEF WriteChunk
<1>. bytes \in Nat
  BY CompressorAssumption
<1>1. WrittenChunk(points, bytes) \in
        [offset : Nat, byte_size : Int, point_count : Nat]
  BY WrittenChunkType
<1>2. hierarchy' \in Seq(Entries)
  <2>1. EntryOf(k, WrittenChunk(points, bytes)) \in Entries
    BY <1>1 DEF EntryOf, Entries
  <2>. QED
    BY <2>1 DEF FileTypeOK
<1>3. chunk_table' \in Seq([point_count : Nat, byte_count : Int])
  BY <1>1 DEF CompressChunk, FileTypeOK
<1>4. /\ stream'.pos \in Nat /\ chunk_start_pos' \in Nat
      /\ current_chunk' \subseteq Points /\ stale_count' \in Nat
  BY DEF CompressChunk, AfterChunk, NextChunkStart, Put, FileTypeOK
<1>. QED
  BY <1>2, <1>3, <1>4 DEF FileTypeOK

LEMMA TornWriteType ==
  ASSUME NEW w, w.pos \in Nat, NEW v \in TornWrite(w)
  PROVE  v.pos \in Nat
BY DEF TornWrite, Put

LEMMA CompressChunkFailsType ==
  ASSUME FileTypeOK, NEW points \in SUBSET Points,
         CompressChunkFails(points),
         open_chunks' \in [VoxelKeys -> SUBSET Points],
         UNCHANGED hierarchy
  PROVE  FileTypeOK'
<1>1. stream'.pos \in Nat
  <2>1. \A v \in TornWrite(stream) : v.pos \in Nat
    BY TornWriteType DEF FileTypeOK
  <2>2. \A bytes \in ChunkBytes : AfterChunk(points, bytes).pos \in Nat
    BY CompressorAssumption DEF AfterChunk, Put, FileTypeOK
  <2>. QED
    BY <2>1, <2>2 DEF CompressChunkFails
<1>2. current_chunk' \subseteq Points
  BY DEF CompressChunkFails, FileTypeOK
<1>3. stale_count' \in Nat
  <2>1. Cardinality(current_chunk \cup points) \in Nat
    BY ChunksAreFinite DEF FileTypeOK
  <2>. QED
    BY <2>1 DEF CompressChunkFails, FileTypeOK
<1>. QED
  BY <1>1, <1>2, <1>3 DEF CompressChunkFails, FileTypeOK

(***************************************************************************)
(* The streams the end of close may leave behind have a position.          *)
(***************************************************************************)
LEMMA AfterDoneType ==
  ASSUME NEW w, w.pos \in Nat, NEW trailer \in TrailerBytes
  PROVE  /\ AfterTrailer(w, trailer).pos \in Nat
         /\ AfterTableOffset(w, trailer).pos \in Nat
         /\ AfterDone(w, trailer).pos \in Nat
         /\ \A v \in AfterFailedDone(w, trailer) : v.pos \in Nat
<1>. trailer \in Nat /\ TableBytes \in Nat /\ start_pos \in Nat
  BY CompressorAssumption, StreamPositions
<1>1. AfterTrailer(w, trailer).pos \in Nat
  BY DEF AfterTrailer, Put
<1>2. AfterTableOffset(w, trailer).pos \in Nat
  BY <1>1 DEF AfterTableOffset, TableOffset, Put
<1>3. AfterDone(w, trailer).pos \in Nat
  BY <1>1 DEF AfterDone, Put
<1>4. ASSUME NEW v \in AfterFailedDone(w, trailer)
      PROVE  v.pos \in Nat
  <2>1. Seek(AfterTableOffset(w, trailer), AfterTrailer(w, trailer).pos).pos \in Nat
    BY <1>1 DEF Seek
  <2>2. CASE v = Seek(AfterTrailer(w, trailer), start_pos)
    BY <2>2 DEF Seek
  <2>. QED
    BY <1>2, <2>1, <2>2, TornWriteType DEF AfterFailedDone
<1>. QED
  BY <1>1, <1>2, <1>3, <1>4

-----------------------------------------------------------------------------
(* Type correctness.                                                       *)

LEMMA CountPointType ==
  ASSUME StatTypeOK, NEW p \in Points, CountPoint(p)
  PROVE  /\ StatTypeOK'
         /\ number_of_points' = number_of_points + 1
BY WriterAssumption DEF StatTypeOK, CountPoint, Counted

LEMMA BufferedType ==
  ASSUME FileTypeOK, NEW p \in Points, NEW k \in VoxelKeys
  PROVE  /\ Buffered(k, p) \in [VoxelKeys -> SUBSET Points]
         /\ Buffered(k, p)[k] \in SUBSET Points
BY DEF FileTypeOK, Buffered

(***************************************************************************)
(* Adding a point to a node, whichever way it ends.                        *)
(***************************************************************************)
LEMMA AddToType ==
  ASSUME TypeOK, NEW p \in Points, NEW k \in VoxelKeys,
         NEW children \in SUBSET VoxelKeys, NEW write_chunk \in BOOLEAN,
         AddTo(p, k, children, write_chunk)
  PROVE  /\ OctreeTypeOK' /\ FileTypeOK' /\ StatTypeOK'
         /\ pc' \in {pc, "closing"}
         /\ result' \in Results
         /\ faults' \in Nat
<1>1. OctreeTypeOK'
  BY DEF TypeOK, OctreeTypeOK, AddTo
<1>2. StatTypeOK'
  BY CountPointType DEF TypeOK, AddTo
<1>3. [open_chunks EXCEPT ![k] = {}] \in [VoxelKeys -> SUBSET Points]
  BY DEF TypeOK, FileTypeOK
<1>4. CASE /\ Abort("LasError")
           /\ UNCHANGED <<fileVars, faults>>
  BY <1>1, <1>2, <1>4 DEF TypeOK, FileTypeOK, CallTypeOK, Abort, Results,
                          fileVars, compressorVars, chunkVars
<1>5. CASE /\ open_chunks' = Buffered(k, p)
           /\ Continue
           /\ UNCHANGED <<hierarchy, compressorVars, faults>>
  BY <1>1, <1>2, <1>5, BufferedType
  DEF TypeOK, FileTypeOK, CallTypeOK, Continue, compressorVars, chunkVars
<1>6. CASE /\ open_chunks' = [open_chunks EXCEPT ![k] = {}]
           /\ WriteChunk(k, Buffered(k, p)[k])
           /\ Continue
           /\ UNCHANGED faults
  <2>1. FileTypeOK'
    BY <1>3, <1>6, BufferedType, WriteChunkType DEF TypeOK
  <2>. QED
    BY <1>1, <1>2, <1>6, <2>1 DEF TypeOK, CallTypeOK, Continue
<1>7. CASE /\ open_chunks' = [open_chunks EXCEPT ![k] = {}]
           /\ CompressChunkFails(Buffered(k, p)[k])
           /\ IoFault
           /\ Abort("IoError")
           /\ UNCHANGED hierarchy
  <2>1. FileTypeOK'
    BY <1>3, <1>7, BufferedType, CompressChunkFailsType DEF TypeOK
  <2>2. faults' \in Nat
    BY <1>7 DEF IoFault, TypeOK, CallTypeOK
  <2>. QED
    BY <1>1, <1>2, <1>7, <2>1, <2>2 DEF Abort, Results
<1>. QED
  BY <1>4, <1>5, <1>6, <1>7 DEF AddTo

LEMMA AddPointGreedyType ==
  ASSUME TypeOK, NEW p \in Points, NEW children \in SUBSET VoxelKeys,
         AddPointGreedy(p, children)
  PROVE  /\ OctreeTypeOK' /\ FileTypeOK' /\ StatTypeOK'
         /\ pc' \in {pc, "closing"}
         /\ result' \in Results
         /\ faults' \in Nat
<1>1. CASE /\ nodes' = nodes \cup children
                          \cup UNION { Children(j) : j \in FullNodes(p) }
           /\ CountPoint(p)
           /\ Abort(NotAdded)
           /\ UNCHANGED <<point_count, fileVars, faults>>
  <2>1. OctreeTypeOK'
    BY <1>1, ChildrenAreVoxels DEF TypeOK, OctreeTypeOK
  <2>2. StatTypeOK'
    BY <1>1, CountPointType DEF TypeOK
  <2>. QED
    BY <1>1, <2>1, <2>2 DEF TypeOK, FileTypeOK, CallTypeOK, Abort, Results,
                            NotAdded, fileVars, compressorVars, chunkVars
<1>2. ASSUME NEW k \in FirstVisited(GreedyNodes(p)),
             NEW passed,
             AddTo(p, k, children \cup UNION { Children(j) : j \in passed },
                   FillsNode(k))
      PROVE  /\ OctreeTypeOK' /\ FileTypeOK' /\ StatTypeOK'
             /\ pc' \in {pc, "closing"}
             /\ result' \in Results
             /\ faults' \in Nat
  <2>1. k \in VoxelKeys
    BY HomeIsVoxels DEF FirstVisited, GreedyNodes, BelowFull
  <2>2. children \cup UNION { Children(j) : j \in passed } \in SUBSET VoxelKeys
    BY ChildrenAreVoxels
  <2>3. FillsNode(k) \in BOOLEAN
    BY DEF FillsNode
  <2>. QED
    BY <1>2, <2>1, <2>2, <2>3, AddToType
<1>. QED
  BY <1>1, <1>2 DEF AddPointGreedy

LEMMA AddPointType ==
  ASSUME TypeOK, NEW p \in Points, AddPoint(p)
  PROVE  TypeOK'
<1>1. /\ OctreeTypeOK' /\ FileTypeOK' /\ StatTypeOK'
      /\ pc' \in {pc, "closing"}
      /\ result' \in Results
      /\ faults' \in Nat
  <2>1. CASE AddPointGreedy(p, {})
    BY <2>1, AddPointGreedyType
  <2>2. ASSUME NEW levels, AddPointStochastic(p, levels)
        PROVE  /\ OctreeTypeOK' /\ FileTypeOK' /\ StatTypeOK'
               /\ pc' \in {pc, "closing"}
               /\ result' \in Results
               /\ faults' \in Nat
    <3>. DEFINE created == StochasticChildren(p, levels)
    <3>1. created \in SUBSET VoxelKeys
      BY ChildrenAreVoxels DEF StochasticChildren
    <3>2. CASE AddPointGreedy(p, created)
      BY <3>1, <3>2, AddPointGreedyType
    <3>3. ASSUME NEW k \in Drawn(Candidates(p, levels)),
                 AddTo(p, k, created, point_count[k] + 1 > max_node_size)
          PROVE  /\ OctreeTypeOK' /\ FileTypeOK' /\ StatTypeOK'
                 /\ pc' \in {pc, "closing"}
                 /\ result' \in Results
                 /\ faults' \in Nat
      <4>1. k \in VoxelKeys
        BY HomeIsVoxels DEF Drawn, Candidates, Visited
      <4>2. (point_count[k] + 1 > max_node_size) \in BOOLEAN
        OBVIOUS
      <4>. QED
        BY <3>1, <3>3, <4>1, <4>2, AddToType
    <3>. QED
      BY <2>2, <3>2, <3>3 DEF AddPointStochastic
  <2>. QED
    BY <2>1, <2>2 DEF AddPoint
<1>2. CallTypeOK'
  BY <1>1 DEF AddPoint, Take, TypeOK, CallTypeOK, callVars
<1>. QED
  BY <1>1, <1>2 DEF TypeOK

LEMMA CloseReturnsType ==
  ASSUME CallTypeOK, NEW error \in Answers, CloseReturns(error)
  PROVE  /\ pc' \in {"idle", "dropped"}
         /\ answer' \in Answers
BY DEF CallTypeOK, CloseReturns, Answers

(***************************************************************************)
(* What close writes after the chunks leaves the stream with a position,   *)
(* and the info with offsets that have not wrapped.                        *)
(***************************************************************************)
LEMMA CloseFinishType ==
  ASSUME TypeOK, NEW trailer \in TrailerBytes,
         NEW done, done = AfterDone(stream, trailer),
         NEW evlrs, evlrs = AfterEvlrs(done)
  PROVE  /\ done.pos \in Nat
         /\ AfterHierarchy(done).pos \in Nat
         /\ evlrs.pos \in Nat
         /\ AfterHeader(evlrs, done.pos).pos \in Nat
         /\ \A w, info : AfterInfo(w, info).pos \in Nat
         /\ ClosedInfo(done.pos) \in
              [gpstime_minimum : Int, gpstime_maximum : Int,
               root_hier_offset : Nat, root_hier_size : Nat,
               root_points : Nat]
<1>. Len(hierarchy) \in Nat
  BY DEF TypeOK, FileTypeOK
<1>1. done.pos \in Nat
  BY AfterDoneType DEF TypeOK, FileTypeOK
<1>2. AfterHierarchy(done).pos \in Nat
  BY <1>1 DEF AfterHierarchy, Put
<1>3. evlrs.pos \in Nat
  <2>1. evlrs.pos = AfterHierarchy(done).pos + 61 * ForwardedEvlrs
    BY DEF AfterEvlrs, AfterForwarded
  <2>. QED  BY <1>2, <2>1, WriterAssumption
<1>4. AfterHeader(evlrs, done.pos).pos \in Nat
  BY CompressorAssumption DEF AfterHeader, Put
<1>5. /\ HierarchyData(done.pos) \in Nat
      /\ 32 * Len(hierarchy) \in Nat
      /\ point_count[Root] \in Nat
  BY <1>1 DEF HierarchyData, TypeOK, OctreeTypeOK, VoxelKeys
<1>6. copc_info \in [gpstime_minimum : Int, gpstime_maximum : Int,
                     root_hier_offset : Nat, root_hier_size : Nat,
                     root_points : Nat]
  BY DEF TypeOK, StatTypeOK
<1>7. ClosedInfo(done.pos) \in
        [gpstime_minimum : Int, gpstime_maximum : Int,
         root_hier_offset : Nat, root_hier_size : Nat,
         root_points : Nat]
  BY <1>5, <1>6 DEF ClosedInfo
<1>8. \A w, info : AfterInfo(w, info).pos \in Nat
  BY CompressorAssumption DEF AfterInfo, Put
<1>. QED
  BY <1>1, <1>2, <1>3, <1>4, <1>7, <1>8

(***************************************************************************)
(* Types are kept by every step.                                           *)
(***************************************************************************)
LEMMA TypesInductive ==
  ASSUME TypeOK, [Next]_vars
  PROVE  TypeOK'
<1>. USE DEF TypeOK
<1>1. ASSUME NEW n \in NumPoints, CallWrite(n) PROVE TypeOK'
  BY <1>1, WriterAssumption
  DEF CallWrite, OctreeTypeOK, FileTypeOK, StatTypeOK, CallTypeOK, Results,
      Answers, octreeVars, fileVars, compressorVars, chunkVars, statVars
<1>2. CASE EndOfPoints
  BY <1>2
  DEF EndOfPoints, OctreeTypeOK, FileTypeOK, StatTypeOK, CallTypeOK,
      octreeVars, fileVars, compressorVars, chunkVars, statVars, callVars, ghostVars
<1>3. CASE Unwind
  BY <1>3
  DEF Unwind, Dropping, OctreeTypeOK, FileTypeOK, StatTypeOK, CallTypeOK,
      octreeVars, fileVars, compressorVars, chunkVars, statVars, ghostVars
<1>4. ASSUME NEW p \in Points, Reject(p) PROVE TypeOK'
  BY <1>4
  DEF Reject, Take, OutOfBounds, Results, NotMatching, NotInBounds,
      OctreeTypeOK, FileTypeOK, StatTypeOK, CallTypeOK,
      octreeVars, fileVars, compressorVars, chunkVars, statVars, callVars
<1>5. ASSUME NEW p \in Points, AddPoint(p) PROVE TypeOK'
  BY <1>5, AddPointType
<1>6. CASE CloseRefused
  <2>1. pc' \in {"idle", "dropped"} /\ answer' \in Answers
    BY <1>6, CloseReturnsType DEF CloseRefused, Answers
  <2>. QED
    BY <1>6, <2>1
    DEF CloseRefused, OctreeTypeOK, FileTypeOK, StatTypeOK, CallTypeOK,
        octreeVars, fileVars, compressorVars, chunkVars, statVars, ghostVars
<1>7. ASSUME NEW k \in VoxelKeys, DrainChunk(k) PROVE TypeOK'
  <2>1. FileTypeOK'
    <3>1. open_chunks' \in [VoxelKeys -> SUBSET Points]
      BY <1>7 DEF DrainChunk, FileTypeOK
    <3>2. open_chunks[k] \in SUBSET Points
      BY DEF FileTypeOK
    <3>. QED
      BY <1>7, <3>1, <3>2, WriteChunkType DEF DrainChunk
  <2>. QED
    BY <1>7, <2>1
    DEF DrainChunk, OctreeTypeOK, StatTypeOK, CallTypeOK,
        octreeVars, statVars, callVars, ghostVars
<1>8. ASSUME NEW k \in VoxelKeys, DrainFails(k) PROVE TypeOK'
  <2>1. FileTypeOK'
    <3>1. open_chunks' \in [VoxelKeys -> SUBSET Points]
      BY <1>8 DEF DrainFails, DrainDropped
    <3>2. open_chunks[k] \in SUBSET Points
      BY DEF FileTypeOK
    <3>. QED
      BY <1>8, <3>1, <3>2, CompressChunkFailsType DEF DrainFails
  <2>2. pc' \in {"idle", "dropped"} /\ answer' \in Answers
    BY <1>8, CloseReturnsType DEF DrainFails, Answers, Results
  <2>3. faults' \in Nat
    BY <1>8 DEF DrainFails, IoFault, CallTypeOK
  <2>. QED
    BY <1>8, <2>1, <2>2, <2>3
    DEF DrainFails, OctreeTypeOK, StatTypeOK, CallTypeOK,
        octreeVars, statVars
<1>9. CASE CloseFinish
  <2>. PICK trailer \in TrailerBytes :
         LET done  == AfterDone(stream, trailer)
             evlrs == AfterEvlrs(done)
             info  == ClosedInfo(done.pos)
         IN  /\ stream' = Seek(AfterInfo(AfterHeader(evlrs, done.pos), info),
                               Start)
             /\ copc_info' = info
    BY <1>9 DEF CloseFinish
  <2>1. StatTypeOK'
    BY <1>9, CloseFinishType DEF CloseFinish, StatTypeOK
  <2>2. stream'.pos \in Nat
    BY CompressorAssumption DEF Seek
  <2>3. FileTypeOK'
    BY <1>9, <2>2 DEF CloseFinish, FileTypeOK, chunkVars
  <2>4. pc' \in {"idle", "dropped"} /\ answer' \in Answers
    BY <1>9, CloseReturnsType DEF CloseFinish, Answers, Results
  <2>. QED
    BY <1>9, <2>1, <2>3, <2>4
    DEF CloseFinish, OctreeTypeOK, CallTypeOK, octreeVars, ghostVars
<1>10. CASE CloseFinishFails
  <2>. PICK trailer \in TrailerBytes :
     LET done   == AfterDone(stream, trailer)
         evlrs  == AfterEvlrs(done)
         header == AfterHeader(evlrs, done.pos)
         info   == ClosedInfo(done.pos)
     IN  \/ /\ stream' \in AfterFailedDone(stream, trailer)
                             \cup TornWrite(done)
                             \cup TornWrite(AfterHierarchy(done))
                             \cup {evlrs}
                             \cup TornWrite(Seek(evlrs, Start))
            /\ UNCHANGED copc_info
         \/ /\ stream' \in TornWrite(header) \cup {AfterInfo(header, info)}
            /\ copc_info' = info
    BY <1>10 DEF CloseFinishFails
  <2>. DEFINE done  == AfterDone(stream, trailer)
              evlrs == AfterEvlrs(done)
  <2>1. StatTypeOK'
    BY <1>10, CloseFinishType DEF CloseFinishFails, StatTypeOK
  <2>2. stream'.pos \in Nat
    <3>1. /\ \A v \in AfterFailedDone(stream, trailer) : v.pos \in Nat
          /\ done.pos \in Nat
          /\ AfterHierarchy(done).pos \in Nat
          /\ evlrs.pos \in Nat
          /\ AfterHeader(evlrs, done.pos).pos \in Nat
          /\ \A w, info : AfterInfo(w, info).pos \in Nat
      BY AfterDoneType, CloseFinishType DEF FileTypeOK
    <3>2. Seek(evlrs, Start).pos \in Nat
      BY CompressorAssumption DEF Seek
    <3>. HIDE DEF done, evlrs
    <3>. QED
      BY <3>1, <3>2, TornWriteType DEF done, evlrs
  <2>3. FileTypeOK'
    BY <1>10, <2>2 DEF CloseFinishFails, FileTypeOK, chunkVars
  <2>4. pc' \in {"idle", "dropped"} /\ answer' \in Answers
    BY <1>10, CloseReturnsType DEF CloseFinishFails, Answers, Results
  <2>5. faults' \in Nat
    BY <1>10 DEF CloseFinishFails, IoFault, CallTypeOK
  <2>. QED
    BY <1>10, <2>1, <2>3, <2>4, <2>5
    DEF CloseFinishFails, OctreeTypeOK, CallTypeOK, octreeVars
<1>11. CASE DropWriter
  BY <1>11
  DEF DropWriter, Dropping, OctreeTypeOK, FileTypeOK, StatTypeOK, CallTypeOK,
      octreeVars, fileVars, compressorVars, chunkVars, statVars, ghostVars
<1>12. CASE UNCHANGED vars
  BY <1>12
  DEF vars, OctreeTypeOK, FileTypeOK, StatTypeOK, CallTypeOK,
      octreeVars, fileVars, compressorVars, chunkVars, statVars, callVars, ghostVars
<1>. QED
  BY <1>1, <1>2, <1>3, <1>4, <1>5, <1>6, <1>7, <1>8, <1>9, <1>10, <1>11,
     <1>12 DEF Next, Running

\* The state of a new writer.
LEMMA InitTypeOK == Init => TypeOK
<1>. SUFFICES ASSUME Init PROVE TypeOK
  OBVIOUS
<1>1. OctreeTypeOK
  BY DEF Init, OctreeTypeOK, VoxelKeys
<1>2. FileTypeOK
  BY StreamPositions DEF Init, CompressorInit, FileTypeOK
<1>3. StatTypeOK
  BY WriterAssumption DEF Init, StatTypeOK
<1>4. CallTypeOK
  <2>1. is_closed \in BOOLEAN /\ close_failed \in BOOLEAN
    BY DEF Init
  <2>. QED
    BY <2>1 DEF Init, CallTypeOK, Results, Answers
<1>. QED
  BY <1>1, <1>2, <1>3, <1>4 DEF TypeOK

(***************************************************************************)
(* Every field of the writer's state keeps its type: no offset wraps, no   *)
(* buffer is missing when it is taken out, and every result is one of the  *)
(* documented ones.                                                        *)
(***************************************************************************)
THEOREM TypeCorrect == Spec => []TypeOK
<1>1. Init => TypeOK
  BY InitTypeOK
<1>2. TypeOK /\ [Next]_vars => TypeOK'
  BY TypesInductive
<1>. QED
  BY <1>1, <1>2, PTL DEF Spec

-----------------------------------------------------------------------------
(* The end of a writer: a file is closed once, and for good, a writer that *)
(* is gone has closed it, and the caller of write gets to see the error of *)
(* the stream or of the points, in their precedence.                       *)

(***************************************************************************)
(* Nothing runs in a closed writer.  Only close sets is_closed, on its way *)
(* out, and neither write nor drop enters close again.                     *)
(***************************************************************************)
ClosedIsAtRest == is_closed => pc \in {"idle", "dropped"}

LEMMA ClosedIsAtRestInductive ==
  ASSUME ClosedIsAtRest, [Next]_vars
  PROVE  ClosedIsAtRest'
<1>1. ASSUME NEW n \in NumPoints, CallWrite(n)
      PROVE  ClosedIsAtRest'
  BY <1>1 DEF CallWrite, ClosedIsAtRest
<1>2. CASE EndOfPoints
  BY <1>2 DEF EndOfPoints, ClosedIsAtRest
<1>3. CASE Unwind
  BY <1>3 DEF Unwind, Dropping, ClosedIsAtRest
<1>4. ASSUME NEW p \in Points, Reject(p) \/ AddPoint(p)
      PROVE  ClosedIsAtRest'
  BY <1>4 DEF Reject, AddPoint, Take, ClosedIsAtRest
<1>5. CASE CloseRefused
  BY <1>5 DEF CloseRefused, CloseReturns, ClosedIsAtRest
<1>6. ASSUME NEW k \in VoxelKeys, DrainChunk(k) \/ DrainFails(k)
      PROVE  ClosedIsAtRest'
  BY <1>6 DEF DrainChunk, DrainFails, CloseReturns, ClosedIsAtRest
<1>7. CASE CloseFinish
  BY <1>7 DEF CloseFinish, CloseReturns, ClosedIsAtRest
<1>8. CASE CloseFinishFails
  BY <1>8 DEF CloseFinishFails, CloseReturns, ClosedIsAtRest
<1>9. CASE DropWriter
  BY <1>9 DEF DropWriter, Dropping, ClosedIsAtRest
<1>10. CASE UNCHANGED vars
  BY <1>10 DEF vars, ClosedIsAtRest
<1>. QED
  BY <1>1, <1>2, <1>3, <1>4, <1>5, <1>6, <1>7, <1>8, <1>9, <1>10
  DEF Next, Running

(***************************************************************************)
(* At rest, a closed writer is left alone: a call of write turns around,   *)
(* and drop does not close again.                                          *)
(***************************************************************************)
LEMMA RestLeavesTheFile ==
  ASSUME ClosedIsAtRest, is_closed, [Next]_vars
  PROVE  is_closed' /\ UNCHANGED <<stream, hierarchy>>
<1>1. pc \in {"idle", "dropped"}
  BY DEF ClosedIsAtRest
<1>2. ~Running
  BY <1>1 DEF Running, EndOfPoints, Unwind, Reject, AddPoint, Take, CloseRefused,
              DrainChunk, DrainFails, CloseFinish, CloseFinishFails
<1>3. ASSUME NEW n \in NumPoints, CallWrite(n)
      PROVE  is_closed' /\ UNCHANGED <<stream, hierarchy>>
  BY <1>3 DEF CallWrite, fileVars, compressorVars, chunkVars
<1>4. CASE DropWriter
  BY <1>4 DEF DropWriter, fileVars, compressorVars, chunkVars
<1>5. CASE UNCHANGED vars
  BY <1>5 DEF vars, fileVars, compressorVars, chunkVars
<1>. QED
  BY <1>2, <1>3, <1>4, <1>5 DEF Next

(***************************************************************************)
(* A closed file is final: no later call of write and no drop touches the  *)
(* stream or the entries again (writer.rs 410, 842).                       *)
(***************************************************************************)
THEOREM ClosedFilesStay == Spec => ClosedIsFinal
<1>1. Init => ClosedIsAtRest
  BY DEF Init, ClosedIsAtRest
<1>2. ClosedIsAtRest /\ [Next]_vars => ClosedIsAtRest'
  BY ClosedIsAtRestInductive
<1>3. ClosedIsAtRest /\ [Next]_vars =>
        [is_closed => is_closed' /\ UNCHANGED <<stream, hierarchy>>]_vars
  BY RestLeavesTheFile
<1>. QED
  BY <1>1, <1>2, <1>3, PTL DEF Spec, ClosedIsFinal

-----------------------------------------------------------------------------
(***************************************************************************)
(* A writer comes to its end through close, which closes the file, finds   *)
(* no point, or fails with an error of the stream.                         *)
(***************************************************************************)
LEMMA DropClosesInductive ==
  ASSUME TypeOK, DropCloses, [Next]_vars
  PROVE  DropCloses'
<1>. faults \in Nat /\ number_of_points \in Nat
  BY DEF TypeOK, StatTypeOK, CallTypeOK
<1>1. ASSUME NEW n \in NumPoints, CallWrite(n)
      PROVE  DropCloses'
  BY <1>1 DEF CallWrite, DropCloses, statVars
<1>2. CASE EndOfPoints
  BY <1>2 DEF EndOfPoints, DropCloses
<1>3. CASE Unwind
  BY <1>3 DEF Unwind, Dropping, DropCloses, statVars, ghostVars
<1>4. ASSUME NEW p \in Points, Reject(p)
      PROVE  DropCloses'
  BY <1>4 DEF Reject, Take, DropCloses, statVars
<1>5. ASSUME NEW p \in Points, AddPoint(p)
      PROVE  DropCloses'
  <2>1. pc = "adding" /\ pc' \in {"adding", "closing"}
    BY <1>5 DEF AddPoint, Take, AddPointGreedy, AddPointStochastic, AddTo,
                Abort, Continue
  <2>. QED
    BY <2>1 DEF DropCloses
<1>6. CASE CloseRefused
  BY <1>6 DEF CloseRefused, DropCloses, statVars
<1>7. ASSUME NEW k \in VoxelKeys, DrainChunk(k)
      PROVE  DropCloses'
  BY <1>7 DEF DrainChunk, DropCloses
<1>8. ASSUME NEW k \in VoxelKeys, DrainFails(k)
      PROVE  DropCloses'
  BY <1>8 DEF DrainFails, IoFault, DropCloses
<1>9. CASE CloseFinish
  BY <1>9 DEF CloseFinish, DropCloses
<1>10. CASE CloseFinishFails
  BY <1>10 DEF CloseFinishFails, IoFault, DropCloses
<1>11. CASE DropWriter
  BY <1>11 DEF DropWriter, Dropping, DropCloses, statVars, ghostVars
<1>12. CASE UNCHANGED vars
  BY <1>12 DEF vars, DropCloses, statVars, ghostVars
<1>. QED
  BY <1>1, <1>2, <1>3, <1>4, <1>5, <1>6, <1>7, <1>8, <1>9, <1>10, <1>11, <1>12
  DEF Next, Running

(***************************************************************************)
(* A writer that is gone has closed its file, if it has counted a point    *)
(* and no write failed: also one dropped by a panic in the iterator        *)
(* (writer.rs 834-845).                                                    *)
(***************************************************************************)
THEOREM DroppedWritersClose == Spec => []DropCloses
<1>1. Init => DropCloses
  BY DEF Init, DropCloses
<1>2. TypeOK /\ DropCloses /\ [Next]_vars => DropCloses'
  BY DropClosesInductive
<1>. QED
  BY <1>1, <1>2, TypeCorrect, PTL DEF Spec

-----------------------------------------------------------------------------
(***************************************************************************)
(* An error of the stream comes up while a point is added, and the point   *)
(* has been counted by then: close, which runs all the same, does not come *)
(* up with the error of an empty file instead.                             *)
(***************************************************************************)
IoErrorsAreCounted == result = "IoError" => number_of_points >= 1

(***************************************************************************)
(* A point that is added, or fails to be, has been counted first, and an   *)
(* error of the stream is the result.                                      *)
(***************************************************************************)
LEMMA CountingPoints ==
  ASSUME TypeOK, NEW p \in Points, AddPoint(p)
  PROVE  /\ number_of_points' >= 1
         /\ pc = "adding" /\ pc' \in {"adding", "closing"}
         /\ faults' # faults => result' = "IoError"
<1>. number_of_points \in Nat
  BY DEF TypeOK, StatTypeOK
<1>1. CountPoint(p)
  BY DEF AddPoint, AddPointGreedy, AddPointStochastic, AddTo
<1>2. number_of_points' >= 1
  BY <1>1 DEF CountPoint, Counted
<1>. QED
  BY <1>2 DEF AddPoint, Take, AddPointGreedy, AddPointStochastic, AddTo,
              Abort, Continue

(***************************************************************************)
(* No step sets the error without a count, and no count goes down.         *)
(***************************************************************************)
LEMMA IoErrorsAreCountedInductive ==
  ASSUME TypeOK, IoErrorsAreCounted, [Next]_vars
  PROVE  IoErrorsAreCounted'
<1>1. ASSUME NEW n \in NumPoints, CallWrite(n)
      PROVE  IoErrorsAreCounted'
  BY <1>1 DEF CallWrite, IoErrorsAreCounted, statVars
<1>2. CASE EndOfPoints
  BY <1>2 DEF EndOfPoints, IoErrorsAreCounted, statVars
<1>3. CASE Unwind
  BY <1>3 DEF Unwind, IoErrorsAreCounted, statVars
<1>4. ASSUME NEW p \in Points, Reject(p)
      PROVE  IoErrorsAreCounted'
  BY <1>4
  DEF Reject, OutOfBounds, NotMatching, NotInBounds, IoErrorsAreCounted,
      statVars
<1>5. ASSUME NEW p \in Points, AddPoint(p)
      PROVE  IoErrorsAreCounted'
  BY <1>5, CountingPoints DEF IoErrorsAreCounted
<1>6. CASE CloseRefused
  BY <1>6 DEF CloseRefused, IoErrorsAreCounted, statVars
<1>7. ASSUME NEW k \in VoxelKeys, DrainChunk(k) \/ DrainFails(k)
      PROVE  IoErrorsAreCounted'
  BY <1>7 DEF DrainChunk, DrainFails, IoErrorsAreCounted, statVars
<1>8. CASE CloseFinish
  BY <1>8 DEF CloseFinish, IoErrorsAreCounted
<1>9. CASE CloseFinishFails
  BY <1>9 DEF CloseFinishFails, IoErrorsAreCounted
<1>10. CASE DropWriter
  BY <1>10 DEF DropWriter, IoErrorsAreCounted, statVars
<1>11. CASE UNCHANGED vars
  BY <1>11 DEF vars, IoErrorsAreCounted, statVars
<1>. QED
  BY <1>1, <1>2, <1>3, <1>4, <1>5, <1>6, <1>7, <1>8, <1>9, <1>10, <1>11
  DEF Next, Running

(***************************************************************************)
(* The action ErrorsSurface is about, and why each step is one.            *)
(***************************************************************************)
Surfaces ==
  via = "write" =>
    /\ faults' > faults =>
         IF pc' = "idle" THEN answer' = "IoError" ELSE result' = "IoError"
    /\ pc = "closing" /\ pc' = "idle" /\ result = "IoError" =>
         answer' = "IoError"

(***************************************************************************)
(* Every step is such an action: those of close return the error of close  *)
(* if it has one, and it has none only at its end.                         *)
(***************************************************************************)
LEMMA StepsSurface ==
  ASSUME TypeOK, IoErrorsAreCounted, ClosedIsAtRest, [Next]_vars
  PROVE  Surfaces
<1>. faults \in Nat /\ number_of_points \in Nat
  BY DEF TypeOK, StatTypeOK, CallTypeOK
<1>1. ASSUME NEW n \in NumPoints, CallWrite(n)
      PROVE  Surfaces
  BY <1>1 DEF CallWrite, Surfaces
<1>2. CASE EndOfPoints
  BY <1>2 DEF EndOfPoints, Surfaces, ghostVars
<1>3. CASE Unwind
  BY <1>3 DEF Unwind, Surfaces, ghostVars
<1>4. ASSUME NEW p \in Points, Reject(p)
      PROVE  Surfaces
  BY <1>4 DEF Reject, Take, Surfaces
<1>5. ASSUME NEW p \in Points, AddPoint(p)
      PROVE  Surfaces
  BY <1>5, CountingPoints DEF Surfaces
<1>6. CASE CloseRefused
  BY <1>6
  DEF CloseRefused, IoErrorsAreCounted, ClosedIsAtRest, Surfaces, ghostVars
<1>7. ASSUME NEW k \in VoxelKeys, DrainChunk(k)
      PROVE  Surfaces
  BY <1>7 DEF DrainChunk, Surfaces, ghostVars
<1>8. ASSUME NEW k \in VoxelKeys, DrainFails(k)
      PROVE  Surfaces
  BY <1>8 DEF DrainFails, CloseReturns, Surfaces
<1>9. CASE CloseFinish
  BY <1>9 DEF CloseFinish, CloseReturns, Surfaces, ghostVars
<1>10. CASE CloseFinishFails
  BY <1>10 DEF CloseFinishFails, CloseReturns, Surfaces
<1>11. CASE DropWriter
  BY <1>11 DEF DropWriter, Surfaces, ghostVars
<1>12. CASE UNCHANGED vars
  BY <1>12 DEF vars, Surfaces, ghostVars
<1>. QED
  BY <1>1, <1>2, <1>3, <1>4, <1>5, <1>6, <1>7, <1>8, <1>9, <1>10, <1>11, <1>12
  DEF Next, Running

(***************************************************************************)
(* No I/O error of a call of write is swallowed (writer.rs 422, 479): it   *)
(* is what close returns, or it ends the loop, and nothing takes its place *)
(* on the way to the caller.                                               *)
(***************************************************************************)
THEOREM IoErrorsReachTheCaller == Spec => ErrorsSurface
<1>1. Init => IoErrorsAreCounted
  BY DEF Init, IoErrorsAreCounted
<1>2. TypeOK /\ IoErrorsAreCounted /\ [Next]_vars => IoErrorsAreCounted'
  BY IoErrorsAreCountedInductive
<1>3. Init => ClosedIsAtRest
  BY DEF Init, ClosedIsAtRest
<1>4. ClosedIsAtRest /\ [Next]_vars => ClosedIsAtRest'
  BY ClosedIsAtRestInductive
<1>5. TypeOK /\ IoErrorsAreCounted /\ ClosedIsAtRest /\ [Next]_vars
        => [Surfaces]_vars
  BY StepsSurface
<1>6. Spec => [][Surfaces]_vars
  BY <1>1, <1>2, <1>3, <1>4, <1>5, TypeCorrect, PTL DEF Spec
<1>. QED
  BY <1>6 DEF Surfaces, ErrorsSurface

-----------------------------------------------------------------------------
(***************************************************************************)
(* What the points handed over so far amount to.                           *)
(***************************************************************************)
Verdict ==
  IF \E p \in batch : p \notin Matching THEN NotMatching
  ELSE IF \E p \in batch : ~InRootBounds(p) THEN NotInBounds
  ELSE "Ok"

PointErrors == {"Ok", NotMatching, NotInBounds}

(***************************************************************************)
(* The verdict is kept in result while the loop runs and until close       *)
(* returns, unless an error of another kind ends the loop.                 *)
(***************************************************************************)
VerdictKept ==
  /\ pc \in {"adding", "closing"} /\ via = "write" /\ result \in PointErrors =>
       result = Verdict
  /\ pc = "idle" /\ answer \in PointErrors => answer = Verdict

(***************************************************************************)
(* A rejected point is judged as the precedence asks.                      *)
(***************************************************************************)
LEMMA RejectJudges ==
  ASSUME VerdictKept, NEW p \in Points, Reject(p)
  PROVE  VerdictKept'
<1>. pc = "adding" /\ pc' = "adding" /\ via' = via /\ batch' = batch \cup {p}
  BY DEF Reject, Take, callVars
<1>1. CASE p \notin Matching /\ result' = NotMatching
  BY <1>1 DEF VerdictKept, Verdict
<1>2. CASE p \in Matching /\ ~InRootBounds(p) /\ result' = OutOfBounds(result)
  <2>1. ~InRootBounds(p)'
    BY <1>2 DEF InRootBounds
  <2>. QED
    BY <1>2, <2>1
    DEF VerdictKept, Verdict, OutOfBounds, PointErrors, InRootBounds,
        NotMatching, NotInBounds
<1>. QED
  BY <1>1, <1>2 DEF Reject

(***************************************************************************)
(* A point that is added changes no verdict.                               *)
(***************************************************************************)
LEMMA AddPointJudges ==
  ASSUME TypeOK, VerdictKept, NEW p \in Points, AddPoint(p)
  PROVE  VerdictKept'
<1>1. /\ pc = "adding" /\ via' = via /\ batch' = batch \cup {p}
      /\ p \in Matching /\ InRootBounds(p)
  BY DEF AddPoint, Take, callVars
<1>2. \/ result' = result
      \/ result' \in {NotAdded, "LasError", "IoError"}
  BY DEF AddPoint, AddPointGreedy, AddPointStochastic, AddTo, Abort, Continue
<1>3. pc' \in {"adding", "closing"}
  BY CountingPoints
<1>4. Verdict' = Verdict
  BY <1>1 DEF Verdict, InRootBounds
<1>. QED
  BY <1>1, <1>2, <1>3, <1>4
  DEF VerdictKept, PointErrors, NotAdded, NotMatching, NotInBounds

(***************************************************************************)
(* The verdict survives every step, and close hands it on.                 *)
(***************************************************************************)
LEMMA VerdictKeptInductive ==
  ASSUME TypeOK, VerdictKept, [Next]_vars
  PROVE  VerdictKept'
<1>. USE DEF VerdictKept, Verdict, PointErrors, InRootBounds, NotMatching,
             NotInBounds, ghostVars, callVars
<1>1. ASSUME NEW n \in NumPoints, CallWrite(n)
      PROVE  VerdictKept'
  BY <1>1 DEF CallWrite
<1>2. CASE EndOfPoints
  BY <1>2 DEF EndOfPoints
<1>3. CASE Unwind
  BY <1>3 DEF Unwind, Dropping
<1>4. ASSUME NEW p \in Points, Reject(p) \/ AddPoint(p)
      PROVE  VerdictKept'
  BY <1>4, RejectJudges, AddPointJudges
<1>5. CASE CloseRefused
  BY <1>5 DEF CloseRefused, CloseReturns
<1>6. ASSUME NEW k \in VoxelKeys, DrainChunk(k)
      PROVE  VerdictKept'
  BY <1>6 DEF DrainChunk
<1>7. ASSUME NEW k \in VoxelKeys, DrainFails(k)
      PROVE  VerdictKept'
  BY <1>7 DEF DrainFails, CloseReturns
<1>8. CASE CloseFinish
  BY <1>8 DEF CloseFinish, CloseReturns
<1>9. CASE CloseFinishFails
  BY <1>9 DEF CloseFinishFails, CloseReturns
<1>10. CASE DropWriter
  BY <1>10 DEF DropWriter, Dropping
<1>11. CASE UNCHANGED vars
  BY <1>11 DEF vars
<1>. QED
  BY <1>1, <1>2, <1>3, <1>4, <1>5, <1>6, <1>7, <1>8, <1>9, <1>10, <1>11
  DEF Next, Running

(***************************************************************************)
(* The result of write tells what the iterator held: Ok only if no point   *)
(* was turned away, and a point of the wrong format takes precedence over  *)
(* one out of bounds, in whatever order they came (writer.rs 464-475).     *)
(***************************************************************************)
THEOREM ResultsTakePrecedence == Spec => []ResultPrecedence
<1>1. Init => VerdictKept
  BY DEF Init, VerdictKept, PointErrors, NotMatching, NotInBounds
<1>2. TypeOK /\ VerdictKept /\ [Next]_vars => VerdictKept'
  BY VerdictKeptInductive
<1>3. VerdictKept => ResultPrecedence
  BY DEF VerdictKept, ResultPrecedence, Verdict, PointErrors
<1>. QED
  BY <1>1, <1>2, <1>3, TypeCorrect, PTL DEF Spec

-----------------------------------------------------------------------------
(* Nodes.                                                                  *)

\* The writer may still be given points.
Accepting == pc \in {"idle", "adding"} /\ ~is_closed

(***************************************************************************)
(* A node with an entry is full as long as points may come, so no walk     *)
(* ends in it.  A close that fails without having written anything leaves  *)
(* the writer open, but it fails only if no point was counted, and then    *)
(* there is no entry.                                                      *)
(***************************************************************************)
WrittenOnce ==
  /\ pc \in {"adding", "closing"} => ~is_closed
  /\ number_of_points = 0 => hierarchy = <<>>
  /\ OneEntryPerNode
  /\ ~close_failed /\ Accepting => \A k \in WrittenKeys : IsFull(k)

(***************************************************************************)
(* Buffers and entries hold no more points than the nodes count; a node    *)
(* may count more, if a point could not be encoded.                        *)
(***************************************************************************)
SizesAgree ==
  /\ NodeSizeLimit
  /\ faults = 0 =>
       /\ current_chunk = {} /\ stale_count = 0
       /\ \A k \in VoxelKeys : Cardinality(open_chunks[k]) <= point_count[k]

(***************************************************************************)
(* Under the greedy strategy a full node has its entry at once, and a node *)
(* gets points only when its parent is full.                               *)
(***************************************************************************)
AlwaysGreedy == \A n \in NumPoints : Greedy(n)

ParentsWritten ==
  /\ Greedy(num_points)
  /\ number_of_points = 0 => \A k \in VoxelKeys : point_count[k] = 0
  /\ ParentsFirst
  /\ ~close_failed =>
       /\ \A k \in VoxelKeys :
            open_chunks[k] # {} /\ k.level > 0 => Parent(k) \in WrittenKeys
       /\ Accepting => \A k \in VoxelKeys : IsFull(k) => k \in WrittenKeys

-----------------------------------------------------------------------------
(* What a step does to buffers, counts and entries.                        *)

(***************************************************************************)
(* A new entry comes behind the others and changes none of them.           *)
(***************************************************************************)
LEMMA AppendedEntry ==
  ASSUME hierarchy \in Seq(Entries), NEW e \in Entries,
         hierarchy' = Append(hierarchy, e)
  PROVE  /\ Len(hierarchy) \in Nat
         /\ DOMAIN hierarchy = 1 .. Len(hierarchy)
         /\ DOMAIN hierarchy' = 1 .. (Len(hierarchy) + 1)
         /\ \A i \in DOMAIN hierarchy : hierarchy'[i] = hierarchy[i]
         /\ hierarchy'[Len(hierarchy) + 1] = e
         /\ hierarchy' # <<>>
         /\ WrittenKeys' = WrittenKeys \cup {e.key}
<1>1. /\ Len(hierarchy) \in Nat
      /\ DOMAIN hierarchy = 1 .. Len(hierarchy)
      /\ DOMAIN hierarchy' = 1 .. (Len(hierarchy) + 1)
      /\ \A i \in DOMAIN hierarchy : hierarchy'[i] = hierarchy[i]
      /\ hierarchy'[Len(hierarchy) + 1] = e
      /\ hierarchy' # <<>>
  OBVIOUS
<1>2. WrittenKeys' = WrittenKeys \cup {e.key}
  BY <1>1 DEF WrittenKeys
<1>. QED
  BY <1>1, <1>2

LEMMA WrittenKeysAreVoxels ==
  ASSUME TypeOK
  PROVE  WrittenKeys \subseteq VoxelKeys
<1>1. \A i \in DOMAIN hierarchy : hierarchy[i] \in Entries
  BY DEF TypeOK, FileTypeOK
<1>. QED
  BY <1>1 DEF WrittenKeys, Entries

(***************************************************************************)
(* The outcomes of adding a point to a node: an error before or while the  *)
(* chunk is written, the point in the buffer, or the chunk written.        *)
(***************************************************************************)
AddingFails(k) ==
  /\ pc' = "closing"
  /\ hierarchy' = hierarchy
  /\ \/ /\ open_chunks' = open_chunks
        /\ UNCHANGED <<current_chunk, stale_count, faults>>
     \/ /\ open_chunks' = [open_chunks EXCEPT ![k] = {}]
        /\ faults' = faults + 1

AddingBuffers(k, p) ==
  /\ pc' = pc
  /\ hierarchy' = hierarchy
  /\ open_chunks' = Buffered(k, p)
  /\ UNCHANGED <<current_chunk, stale_count, faults>>

EntryWritten(k, points) ==
  \E e \in Entries :
    /\ e.key = k
    /\ e.point_count = stale_count + Cardinality(current_chunk \cup points)
    /\ hierarchy' = Append(hierarchy, e)
    /\ current_chunk' = {}
    /\ stale_count' = 0

AddingWrites(k, p) ==
  /\ pc' = pc
  /\ open_chunks' = [open_chunks EXCEPT ![k] = {}]
  /\ EntryWritten(k, Buffered(k, p)[k])
  /\ UNCHANGED faults

LEMMA WriteChunkWritesEntry ==
  ASSUME FileTypeOK, NEW k \in VoxelKeys, NEW points \in SUBSET Points,
         WriteChunk(k, points)
  PROVE  EntryWritten(k, points)
<1>. PICK bytes \in ChunkBytes :
       /\ CompressChunk(points, bytes)
       /\ hierarchy' = Append(hierarchy, EntryOf(k, WrittenChunk(points, bytes)))
  BY DEF WriteChunk
<1>. DEFINE e == EntryOf(k, WrittenChunk(points, bytes))
<1>1. e \in Entries
  BY WrittenChunkType DEF EntryOf, Entries
<1>2. /\ e.key = k
      /\ e.point_count = stale_count + Cardinality(current_chunk \cup points)
  BY DEF EntryOf, WrittenChunk
<1>. QED
  BY <1>1, <1>2 DEF EntryWritten, CompressChunk

LEMMA AddToOutcomes ==
  ASSUME TypeOK, NEW p \in Points, NEW k \in VoxelKeys,
         NEW children, NEW write_chunk \in BOOLEAN,
         AddTo(p, k, children, write_chunk)
  PROVE  /\ point_count' = [point_count EXCEPT ![k] = @ + 1]
         /\ number_of_points' = number_of_points + 1
         /\ \/ AddingFails(k)
            \/ ~write_chunk /\ AddingBuffers(k, p)
            \/ write_chunk /\ AddingWrites(k, p)
<1>1. point_count' = [point_count EXCEPT ![k] = @ + 1]
  BY DEF AddTo
<1>2. number_of_points' = number_of_points + 1
  BY CountPointType DEF AddTo, TypeOK
<1>3. CASE Abort("LasError") /\ UNCHANGED <<fileVars, faults>>
  BY <1>1, <1>2, <1>3 DEF Abort, AddingFails, fileVars, compressorVars, chunkVars
<1>4. CASE /\ ~write_chunk
           /\ open_chunks' = Buffered(k, p)
           /\ Continue
           /\ UNCHANGED <<hierarchy, compressorVars, faults>>
  BY <1>1, <1>2, <1>4 DEF Continue, AddingBuffers, compressorVars, chunkVars
<1>5. CASE /\ write_chunk
           /\ open_chunks' = [open_chunks EXCEPT ![k] = {}]
           /\ WriteChunk(k, Buffered(k, p)[k])
           /\ Continue
           /\ UNCHANGED faults
  <2>1. EntryWritten(k, Buffered(k, p)[k])
    BY <1>5, BufferedType, WriteChunkWritesEntry DEF TypeOK
  <2>. QED
    BY <1>1, <1>2, <1>5, <2>1 DEF Continue, AddingWrites
<1>6. CASE /\ open_chunks' = [open_chunks EXCEPT ![k] = {}]
           /\ CompressChunkFails(Buffered(k, p)[k])
           /\ IoFault
           /\ Abort("IoError")
           /\ UNCHANGED hierarchy
  BY <1>1, <1>2, <1>6 DEF Abort, AddingFails, IoFault
<1>. QED
  BY <1>1, <1>2, <1>3, <1>4, <1>5, <1>6 DEF AddTo

(***************************************************************************)
(* A point that is added goes to a node that is not full, whose chunk is   *)
(* written only if the point fills it; or it finds no node.  Under the     *)
(* greedy strategy all nodes above it are full, and the chunk is written   *)
(* exactly if the point fills the node.                                    *)
(***************************************************************************)
NoNodeFound ==
  /\ pc' = "closing"
  /\ number_of_points' = number_of_points + 1
  /\ UNCHANGED <<point_count, open_chunks, hierarchy,
                 current_chunk, stale_count, faults>>

Added(p, k, write_chunk) ==
  /\ point_count' = [point_count EXCEPT ![k] = @ + 1]
  /\ number_of_points' = number_of_points + 1
  /\ \/ AddingFails(k)
     \/ ~write_chunk /\ AddingBuffers(k, p)
     \/ write_chunk /\ AddingWrites(k, p)

LEMMA GreedyAdds ==
  ASSUME TypeOK, NEW p \in Points, NEW children,
         AddPointGreedy(p, children)
  PROVE  \/ NoNodeFound
         \/ \E k \in BelowFull(p) :
              /\ k \in VoxelKeys
              /\ ~IsFull(k)
              /\ Added(p, k, FillsNode(k))
<1>1. CASE /\ CountPoint(p)
           /\ Abort(NotAdded)
           /\ UNCHANGED <<point_count, fileVars, faults>>
  BY <1>1, CountPointType
  DEF NoNodeFound, Abort, TypeOK, fileVars, compressorVars, chunkVars
<1>2. ASSUME NEW k \in FirstVisited(GreedyNodes(p)), NEW created,
             AddTo(p, k, created, FillsNode(k))
      PROVE  \E j \in BelowFull(p) : /\ j \in VoxelKeys
                                     /\ ~IsFull(j)
                                     /\ Added(p, j, FillsNode(j))
  <2>1. k \in BelowFull(p) /\ ~IsFull(k)
    BY DEF FirstVisited, GreedyNodes
  <2>2. k \in VoxelKeys
    BY <2>1, HomeIsVoxels DEF BelowFull
  <2>3. FillsNode(k) \in BOOLEAN
    BY DEF FillsNode
  <2>. QED
    BY <1>2, <2>1, <2>2, <2>3, AddToOutcomes DEF Added
<1>. QED
  BY <1>1, <1>2 DEF AddPointGreedy

LEMMA AddPointAdds ==
  ASSUME TypeOK, NEW p \in Points, AddPoint(p)
  PROVE  \/ NoNodeFound
         \/ \E k \in VoxelKeys, write_chunk \in BOOLEAN :
              /\ ~IsFull(k)
              /\ write_chunk => FillsNode(k)
              /\ Added(p, k, write_chunk)
<1>1. ASSUME NEW children, AddPointGreedy(p, children)
      PROVE  \/ NoNodeFound
             \/ \E k \in VoxelKeys, write_chunk \in BOOLEAN :
                  /\ ~IsFull(k)
                  /\ write_chunk => FillsNode(k)
                  /\ Added(p, k, write_chunk)
  <2>1. \A k : FillsNode(k) \in BOOLEAN
    BY DEF FillsNode
  <2>. QED
    BY <1>1, <2>1, GreedyAdds
<1>2. ASSUME NEW levels, NEW k \in Drawn(Candidates(p, levels)), NEW created,
             AddTo(p, k, created, point_count[k] + 1 > max_node_size)
      PROVE  \E j \in VoxelKeys, write_chunk \in BOOLEAN :
               /\ ~IsFull(j)
               /\ write_chunk => FillsNode(j)
               /\ Added(p, j, write_chunk)
  <2>1. k \in VoxelKeys /\ ~IsFull(k)
    BY HomeIsVoxels DEF Drawn, Candidates, Visited
  <2>2. (point_count[k] + 1 > max_node_size) \in BOOLEAN
    OBVIOUS
  <2>3. point_count[k] + 1 > max_node_size => FillsNode(k)
    BY <2>1, WriterAssumption DEF FillsNode, TypeOK, OctreeTypeOK
  <2>4. Added(p, k, point_count[k] + 1 > max_node_size)
    BY <1>2, <2>1, <2>2, AddToOutcomes DEF Added
  <2>. QED
    BY <2>1, <2>2, <2>3, <2>4
<1>. QED
  BY <1>1, <1>2 DEF AddPoint, AddPointStochastic

-----------------------------------------------------------------------------
(* A node is written once.                                                 *)

LEMMA EntryOfNewNode ==
  ASSUME TypeOK, OneEntryPerNode, ~close_failed,
         NEW k \in VoxelKeys, k \notin WrittenKeys,
         NEW points, EntryWritten(k, points),
         open_chunks' = [open_chunks EXCEPT ![k] = {}]
  PROVE  /\ OneEntryPerNode'
         /\ WrittenKeys' = WrittenKeys \cup {k}
<1>. PICK e \in Entries : e.key = k /\ hierarchy' = Append(hierarchy, e)
  BY DEF EntryWritten
<1>1. /\ Len(hierarchy) \in Nat
      /\ DOMAIN hierarchy = 1 .. Len(hierarchy)
      /\ DOMAIN hierarchy' = 1 .. (Len(hierarchy) + 1)
      /\ \A i \in DOMAIN hierarchy : hierarchy'[i] = hierarchy[i]
      /\ hierarchy'[Len(hierarchy) + 1] = e
      /\ WrittenKeys' = WrittenKeys \cup {k}
  BY AppendedEntry DEF TypeOK, FileTypeOK
<1>2. \A i \in DOMAIN hierarchy : hierarchy[i].key # k
  BY DEF WrittenKeys
<1>3. ASSUME NEW i \in DOMAIN hierarchy', NEW j \in DOMAIN hierarchy',
             hierarchy'[i].key = hierarchy'[j].key
      PROVE  i = j
  <2>1. CASE i \in DOMAIN hierarchy /\ j \in DOMAIN hierarchy
    BY <1>1, <1>3, <2>1 DEF OneEntryPerNode
  <2>2. CASE i \notin DOMAIN hierarchy \/ j \notin DOMAIN hierarchy
    BY <1>1, <1>2, <1>3, <2>2
  <2>. QED
    BY <2>1, <2>2
<1>4. \A j \in WrittenKeys' : open_chunks'[j] = {}
  <2>1. \A j \in WrittenKeys : j \in VoxelKeys /\ open_chunks[j] = {}
    BY WrittenKeysAreVoxels DEF OneEntryPerNode
  <2>. QED
    BY <1>1, <2>1 DEF TypeOK, FileTypeOK
<1>. QED
  BY <1>1, <1>3, <1>4 DEF OneEntryPerNode

LEMMA FullStaysFull ==
  ASSUME TypeOK, NEW k \in VoxelKeys,
         point_count' = [point_count EXCEPT ![k] = @ + 1],
         NEW j \in VoxelKeys
  PROVE  /\ IsFull(j) => IsFull(j)'
         /\ FillsNode(k) <=> IsFull(k)'
         /\ j # k => (IsFull(j)' <=> IsFull(j))
BY WriterAssumption DEF TypeOK, OctreeTypeOK, IsFull, FillsNode

(***************************************************************************)
(* Adding a point keeps the entries unique.                                *)
(***************************************************************************)
LEMMA AddPointWrittenOnce ==
  ASSUME TypeOK, WrittenOnce, NEW p \in Points, AddPoint(p)
  PROVE  WrittenOnce'
<1>1. pc = "adding" /\ ~is_closed /\ ~is_closed' /\ close_failed' = close_failed
  BY DEF AddPoint, Take, WrittenOnce
<1>2. number_of_points \in Nat
  BY DEF TypeOK, StatTypeOK
<1>3. CASE NoNodeFound
  BY <1>1, <1>2, <1>3
  DEF NoNodeFound, WrittenOnce, OneEntryPerNode, WrittenKeys, Accepting
<1>4. ASSUME NEW k \in VoxelKeys, NEW write_chunk \in BOOLEAN,
             ~IsFull(k), write_chunk => FillsNode(k),
             Added(p, k, write_chunk)
      PROVE  WrittenOnce'
  <2>. SUFFICES ASSUME ~close_failed
                PROVE  /\ OneEntryPerNode'
                       /\ Accepting' => \A j \in WrittenKeys' : IsFull(j)'
    BY <1>1, <1>2, <1>4 DEF WrittenOnce, OneEntryPerNode, Added
  <2>1. k \notin WrittenKeys
    BY <1>1, <1>4 DEF WrittenOnce, Accepting
  <2>2. \A j \in WrittenKeys : j \in VoxelKeys /\ j # k /\ IsFull(j)' 
    <3>1. \A j \in WrittenKeys : j \in VoxelKeys /\ IsFull(j)
      BY <1>1, WrittenKeysAreVoxels DEF WrittenOnce, Accepting
    <3>. QED
      BY <1>4, <2>1, <3>1, FullStaysFull DEF Added
  <2>3. CASE AddingFails(k)
    <3>1. /\ pc' = "closing"
          /\ hierarchy' = hierarchy
          /\ \A j \in VoxelKeys : j # k => open_chunks'[j] = open_chunks[j]
      BY <2>3 DEF AddingFails, TypeOK, FileTypeOK
    <3>. QED
      BY <2>2, <3>1 DEF WrittenOnce, OneEntryPerNode, WrittenKeys, Accepting
  <2>4. CASE AddingBuffers(k, p)
    <3>1. /\ hierarchy' = hierarchy
          /\ \A j \in VoxelKeys : j # k => open_chunks'[j] = open_chunks[j]
      BY <2>4 DEF AddingBuffers, Buffered, TypeOK, FileTypeOK
    <3>. QED
      BY <2>2, <3>1 DEF WrittenOnce, OneEntryPerNode, WrittenKeys
  <2>5. CASE write_chunk /\ AddingWrites(k, p)
    <3>1. OneEntryPerNode' /\ WrittenKeys' = WrittenKeys \cup {k}
      BY <2>1, <2>5, EntryOfNewNode DEF AddingWrites, WrittenOnce
    <3>2. IsFull(k)'
      BY <1>4, <2>5, FullStaysFull DEF Added
    <3>. QED
      BY <2>2, <3>1, <3>2
  <2>. QED
    BY <1>4, <2>3, <2>4, <2>5 DEF Added
<1>. QED
  BY <1>3, <1>4, AddPointAdds

LEMMA WrittenOnceInductive ==
  ASSUME TypeOK, WrittenOnce, [Next]_vars
  PROVE  WrittenOnce'
<1>. USE DEF WrittenOnce, OneEntryPerNode, WrittenKeys, Accepting, IsFull
<1>1. ASSUME NEW n \in NumPoints, CallWrite(n) PROVE WrittenOnce'
  BY <1>1 DEF CallWrite, octreeVars, fileVars, statVars
<1>2. CASE EndOfPoints
  BY <1>2 DEF EndOfPoints, octreeVars, fileVars, statVars, ghostVars
<1>3. CASE Unwind
  BY <1>3 DEF Unwind, Dropping, octreeVars, fileVars, statVars, ghostVars
<1>4. ASSUME NEW p \in Points, Reject(p) PROVE WrittenOnce'
  BY <1>4 DEF Reject, Take, octreeVars, fileVars, statVars
<1>5. ASSUME NEW p \in Points, AddPoint(p) PROVE WrittenOnce'
  BY <1>5, AddPointWrittenOnce
<1>6. CASE CloseRefused
  <2>1. hierarchy = <<>>
    BY <1>6 DEF CloseRefused, TypeOK, StatTypeOK
  <2>. QED
    BY <1>6, <2>1
    DEF CloseRefused, octreeVars, fileVars, statVars, ghostVars
<1>7. ASSUME NEW k \in VoxelKeys, DrainChunk(k) PROVE WrittenOnce'
  <2>1. /\ pc = "closing" /\ pc' = pc /\ ~is_closed /\ ~is_closed'
        /\ close_failed' = close_failed
        /\ number_of_points' = number_of_points /\ number_of_points >= 1
    BY <1>7 DEF DrainChunk, statVars, ghostVars
  <2>2. CASE close_failed
    <3>1. number_of_points' # 0
      BY <2>1 DEF TypeOK, StatTypeOK
    <3>. QED
      BY <2>1, <2>2, <3>1
  <2>3. CASE ~close_failed
    <3>1. k \notin WrittenKeys
      BY <1>7, <2>3 DEF DrainChunk
    <3>2. EntryWritten(k, open_chunks[k])
      BY <1>7, WriteChunkWritesEntry DEF DrainChunk, TypeOK, FileTypeOK
    <3>3. OneEntryPerNode'
      BY <1>7, <2>3, <3>1, <3>2, EntryOfNewNode DEF DrainChunk
    <3>. QED
      BY <2>1, <3>3 DEF TypeOK, StatTypeOK
  <2>. QED
    BY <2>2, <2>3
<1>8. ASSUME NEW k \in VoxelKeys, DrainFails(k) PROVE WrittenOnce'
  BY <1>8 DEF DrainFails, CloseReturns, statVars, TypeOK, StatTypeOK
<1>9. CASE CloseFinish
  BY <1>9 DEF CloseFinish, CloseReturns, ghostVars
<1>10. CASE CloseFinishFails
  BY <1>10 DEF CloseFinishFails, CloseReturns
<1>11. CASE DropWriter
  BY <1>11 DEF DropWriter, Dropping, octreeVars, fileVars, statVars, ghostVars
<1>12. CASE UNCHANGED vars
  BY <1>12 DEF vars, octreeVars, fileVars, statVars, ghostVars
<1>. QED
  BY <1>1, <1>2, <1>3, <1>4, <1>5, <1>6, <1>7, <1>8, <1>9, <1>10, <1>11,
     <1>12 DEF Next, Running

LEMMA WrittenOnceInit ==
  ASSUME Init
  PROVE  WrittenOnce
<1>1. ~is_closed /\ hierarchy = <<>> /\ DOMAIN hierarchy = {}
  BY DEF Init
<1>2. WrittenKeys = {}
  BY <1>1 DEF WrittenKeys
<1>. QED
  BY <1>1, <1>2 DEF WrittenOnce, OneEntryPerNode

LEMMA WrittenOnceInvariant == Spec => []WrittenOnce
<1>1. Init => WrittenOnce
  BY WrittenOnceInit
<1>2. TypeOK /\ WrittenOnce /\ [Next]_vars => WrittenOnce'
  BY WrittenOnceInductive
<1>. QED
  BY <1>1, <1>2, TypeCorrect, PTL DEF Spec

(***************************************************************************)
(* No node has two entries, and no node with an entry has points waiting   *)
(* for another one, under both strategies and whatever errors end the      *)
(* calls; unless close itself has failed.                                  *)
(***************************************************************************)
THEOREM NodesWrittenOnce == Spec => []OneEntryPerNode
<1>1. WrittenOnce => OneEntryPerNode
  BY DEF WrittenOnce
<1>. QED
  BY <1>1, WrittenOnceInvariant, PTL

-----------------------------------------------------------------------------
(* Parents first.                                                          *)

LEMMA ParentIsAncestor ==
  ASSUME NEW k \in VoxelKeys, k.level > 0
  PROVE  Parent(k) \in Ancestors(k)
<1>1. k.level \in Nat
  BY OctreeAssumption DEF VoxelKeys, Root
<1>. QED
  BY <1>1 DEF Parent, Ancestors

LEMMA EntryAfterParent ==
  ASSUME TypeOK, ParentsFirst, ~close_failed, NEW k \in VoxelKeys,
         k.level > 0 => Parent(k) \in WrittenKeys,
         NEW points, EntryWritten(k, points)
  PROVE  /\ ParentsFirst'
         /\ WrittenKeys' = WrittenKeys \cup {k}
<1>. PICK e \in Entries : e.key = k /\ hierarchy' = Append(hierarchy, e)
  BY DEF EntryWritten
<1>1. /\ Len(hierarchy) \in Nat
      /\ DOMAIN hierarchy = 1 .. Len(hierarchy)
      /\ DOMAIN hierarchy' = 1 .. (Len(hierarchy) + 1)
      /\ \A i \in DOMAIN hierarchy : hierarchy'[i] = hierarchy[i]
      /\ hierarchy'[Len(hierarchy) + 1] = e
      /\ WrittenKeys' = WrittenKeys \cup {k}
  BY AppendedEntry DEF TypeOK, FileTypeOK
<1>2. ASSUME NEW i \in DOMAIN hierarchy', hierarchy'[i].key.level > 0
      PROVE  \E j \in 1 .. (i - 1) : hierarchy'[j].key = Parent(hierarchy'[i].key)
  <2>1. CASE i \in DOMAIN hierarchy
    <3>. PICK j \in 1 .. (i - 1) : hierarchy[j].key = Parent(hierarchy[i].key)
      BY <1>1, <1>2, <2>1 DEF ParentsFirst
    <3>1. j \in DOMAIN hierarchy
      BY <1>1, <2>1
    <3>. QED
      BY <1>1, <2>1, <3>1
  <2>2. CASE i = Len(hierarchy) + 1
    <3>. PICK j \in DOMAIN hierarchy : hierarchy[j].key = Parent(k)
      BY <1>1, <1>2, <2>2 DEF WrittenKeys
    <3>. QED
      BY <1>1, <2>2
  <2>. QED
    BY <1>1, <2>1, <2>2
<1>. QED
  BY <1>1, <1>2 DEF ParentsFirst

LEMMA AddPointParentsWritten ==
  ASSUME TypeOK, WrittenOnce, ParentsWritten, NEW p \in Points, AddPoint(p)
  PROVE  ParentsWritten'
<1>1. pc = "adding" /\ ~is_closed /\ num_points' = num_points
      /\ close_failed' = close_failed
  BY DEF AddPoint, Take, WrittenOnce, callVars
<1>2. AddPointGreedy(p, {})
  BY DEF AddPoint, ParentsWritten
<1>3. number_of_points' = number_of_points + 1 => number_of_points' # 0
  BY DEF TypeOK, StatTypeOK
<1>4. Greedy(num_points)'
  BY <1>1 DEF ParentsWritten, Greedy
<1>5. CASE NoNodeFound
  BY <1>1, <1>3, <1>4, <1>5
  DEF NoNodeFound, ParentsWritten, ParentsFirst, WrittenKeys, Accepting
<1>6. ASSUME NEW k \in BelowFull(p), k \in VoxelKeys, ~IsFull(k),
             Added(p, k, FillsNode(k))
      PROVE  ParentsWritten'
  <2>. SUFFICES ASSUME ~close_failed
       PROVE  /\ ParentsFirst'
              /\ \A j \in VoxelKeys :
                   open_chunks'[j] # {} /\ j.level > 0 =>
                     Parent(j) \in WrittenKeys'
              /\ Accepting' => \A j \in VoxelKeys :
                                IsFull(j)' => j \in WrittenKeys'
    BY <1>1, <1>3, <1>4, <1>6 DEF ParentsWritten, ParentsFirst, Added
  <2>1. /\ ParentsFirst
        /\ \A j \in VoxelKeys :
             open_chunks[j] # {} /\ j.level > 0 => Parent(j) \in WrittenKeys
        /\ \A j \in VoxelKeys : IsFull(j) => j \in WrittenKeys
    BY <1>1 DEF ParentsWritten, Accepting
  <2>2. k.level > 0 => Parent(k) \in WrittenKeys
    BY <2>1, <1>6, ParentIsAncestor DEF BelowFull, TypeOK, OctreeTypeOK
  <2>3. /\ FillsNode(k) <=> IsFull(k)'
        /\ \A j \in VoxelKeys : j # k => (IsFull(j)' <=> IsFull(j))
    BY <1>6, FullStaysFull DEF Added
  <2>4. CASE AddingFails(k)
    <3>1. /\ pc' = "closing"
          /\ hierarchy' = hierarchy
          /\ \A j \in VoxelKeys : open_chunks'[j] # {} => open_chunks[j] # {}
      BY <2>4 DEF AddingFails, TypeOK, FileTypeOK
    <3>. QED
      BY <2>1, <3>1, <1>1 DEF ParentsFirst, WrittenKeys, Accepting
  <2>5. CASE ~FillsNode(k) /\ AddingBuffers(k, p)
    <3>1. /\ hierarchy' = hierarchy
          /\ \A j \in VoxelKeys : j # k => open_chunks'[j] = open_chunks[j]
      BY <2>5 DEF AddingBuffers, Buffered, TypeOK, FileTypeOK
    <3>. QED
      BY <2>1, <2>2, <2>3, <2>5, <3>1, <1>1 DEF ParentsFirst, WrittenKeys
  <2>6. CASE FillsNode(k) /\ AddingWrites(k, p)
    <3>1. /\ ParentsFirst'
          /\ WrittenKeys' = WrittenKeys \cup {k}
      BY <1>6, <2>1, <2>2, <2>6, EntryAfterParent DEF AddingWrites
    <3>2. \A j \in VoxelKeys : open_chunks'[j] # {} => open_chunks[j] # {}
      BY <1>6, <2>6 DEF AddingWrites, TypeOK, FileTypeOK
    <3>. QED
      BY <2>1, <2>3, <3>1, <3>2
  <2>. QED
    BY <1>6, <2>4, <2>5, <2>6 DEF Added
<1>. QED
  BY <1>2, <1>5, <1>6, GreedyAdds

LEMMA ParentsWrittenInductive ==
  ASSUME AlwaysGreedy, TypeOK, WrittenOnce, ClosedIsAtRest, ParentsWritten,
         [Next]_vars
  PROVE  ParentsWritten'
<1>. USE DEF ParentsWritten, ParentsFirst, WrittenKeys, Accepting, IsFull, Greedy
<1>1. ASSUME NEW n \in NumPoints, CallWrite(n) PROVE ParentsWritten'
  BY <1>1, AlwaysGreedy
  DEF CallWrite, AlwaysGreedy, octreeVars, fileVars, statVars
<1>2. CASE EndOfPoints
  BY <1>2
  DEF EndOfPoints, octreeVars, fileVars, statVars, callVars, ghostVars
<1>3. CASE Unwind
  BY <1>3 DEF Unwind, Dropping, octreeVars, fileVars, statVars, ghostVars
<1>4. ASSUME NEW p \in Points, Reject(p) PROVE ParentsWritten'
  BY <1>4 DEF Reject, Take, octreeVars, fileVars, statVars, callVars
<1>5. ASSUME NEW p \in Points, AddPoint(p) PROVE ParentsWritten'
  BY <1>5, AddPointParentsWritten
<1>6. CASE CloseRefused
  <2>1. \A k \in VoxelKeys : ~IsFull(k)
    BY <1>6, WriterAssumption
    DEF CloseRefused, ClosedIsAtRest, TypeOK, StatTypeOK
  <2>. QED
    BY <1>6, <2>1 DEF CloseRefused, octreeVars, fileVars, statVars, ghostVars
<1>7. ASSUME NEW k \in VoxelKeys, DrainChunk(k) PROVE ParentsWritten'
  <2>1. /\ pc' = "closing"
        /\ close_failed' = close_failed
        /\ num_points' = num_points
        /\ number_of_points' = number_of_points
        /\ point_count' = point_count
    BY <1>7 DEF DrainChunk, octreeVars, statVars, callVars, ghostVars
  <2>2. CASE close_failed
    BY <2>1, <2>2
  <2>3. CASE ~close_failed
    <3>1. EntryWritten(k, open_chunks[k])
      BY <1>7, WriteChunkWritesEntry DEF DrainChunk, TypeOK, FileTypeOK
    <3>2. ParentsFirst' /\ WrittenKeys' = WrittenKeys \cup {k}
      BY <1>7, <2>3, <3>1, EntryAfterParent DEF DrainChunk
    <3>3. \A j \in VoxelKeys : open_chunks'[j] # {} => open_chunks[j] # {}
      BY <1>7 DEF DrainChunk, TypeOK, FileTypeOK
    <3>. QED
      BY <2>1, <2>3, <3>2, <3>3
  <2>. QED
    BY <2>2, <2>3
<1>8. ASSUME NEW k \in VoxelKeys, DrainFails(k) PROVE ParentsWritten'
  BY <1>8 DEF DrainFails, octreeVars, statVars
<1>9. CASE CloseFinish
  BY <1>9 DEF CloseFinish, octreeVars, ghostVars
<1>10. CASE CloseFinishFails
  BY <1>10 DEF CloseFinishFails, octreeVars
<1>11. CASE DropWriter
  BY <1>11 DEF DropWriter, Dropping, octreeVars, fileVars, statVars, ghostVars
<1>12. CASE UNCHANGED vars
  BY <1>12
  DEF vars, octreeVars, fileVars, statVars, callVars, ghostVars
<1>. QED
  BY <1>1, <1>2, <1>3, <1>4, <1>5, <1>6, <1>7, <1>8, <1>9, <1>10, <1>11,
     <1>12 DEF Next, Running

LEMMA ParentsWrittenInit ==
  ASSUME Init
  PROVE  ParentsWritten
<1>1. \A k \in VoxelKeys : ~IsFull(k) /\ open_chunks[k] = {}
  BY WriterAssumption DEF Init, IsFull
<1>2. Greedy(num_points)
  BY WriterAssumption DEF Init, Greedy
<1>. QED
  BY <1>1, <1>2 DEF Init, ParentsWritten, ParentsFirst

LEMMA ParentsWrittenInvariant ==
  ASSUME AlwaysGreedy
  PROVE  Spec => []ParentsWritten
<1>1. Init => ParentsWritten
  BY ParentsWrittenInit
<1>2. Init => ClosedIsAtRest
  BY DEF Init, ClosedIsAtRest
<1>3. ClosedIsAtRest /\ [Next]_vars => ClosedIsAtRest'
  BY ClosedIsAtRestInductive
<1>4. TypeOK /\ WrittenOnce /\ ClosedIsAtRest /\ ParentsWritten /\ [Next]_vars
        => ParentsWritten'
  BY ParentsWrittenInductive
<1>. QED
  BY <1>1, <1>2, <1>3, <1>4, TypeCorrect, WrittenOnceInvariant, PTL DEF Spec

(***************************************************************************)
(* Under the greedy strategy an entry comes after the entry of its parent, *)
(* so that a reader that looks for children only below the keys it finds   *)
(* can reach every chunk; unless close itself has failed.                  *)
(***************************************************************************)
THEOREM GreedyWritesParentsFirst ==
  ASSUME AlwaysGreedy
  PROVE  Spec => []ParentsFirst
<1>1. ParentsWritten => ParentsFirst
  BY DEF ParentsWritten
<1>. QED
  BY <1>1, ParentsWrittenInvariant, PTL

-----------------------------------------------------------------------------
(* The size of a node.                                                     *)

LEMMA EntryWithinLimit ==
  ASSUME TypeOK, faults = 0 => \A i \in DOMAIN hierarchy :
                                 hierarchy[i].point_count <= max_node_size,
         NEW k, NEW points, EntryWritten(k, points),
         Cardinality(current_chunk \cup points) <= max_node_size,
         Cardinality(current_chunk \cup points) \in Nat,
         stale_count = 0, faults = 0
  PROVE  \A i \in DOMAIN hierarchy' : hierarchy'[i].point_count <= max_node_size
<1>. PICK e \in Entries :
       /\ e.point_count = stale_count + Cardinality(current_chunk \cup points)
       /\ hierarchy' = Append(hierarchy, e)
  BY DEF EntryWritten
<1>1. /\ Len(hierarchy) \in Nat
      /\ DOMAIN hierarchy = 1 .. Len(hierarchy)
      /\ DOMAIN hierarchy' = 1 .. (Len(hierarchy) + 1)
      /\ \A i \in DOMAIN hierarchy : hierarchy'[i] = hierarchy[i]
      /\ hierarchy'[Len(hierarchy) + 1] = e
  BY AppendedEntry DEF TypeOK, FileTypeOK
<1>. QED
  BY <1>1

LEMMA OneMorePoint ==
  ASSUME NEW S, IsFiniteSet(S), NEW x, NEW T, T = S \cup {x}
  PROVE  Cardinality(T) <= Cardinality(S) + 1
<1>1. Cardinality(S) \in Nat
  BY FS_CardinalityType
<1>2. Cardinality(T) = IF x \in S THEN Cardinality(S) ELSE Cardinality(S) + 1
  BY FS_AddElement, Zenon
<1>. QED
  BY <1>1, <1>2

LEMMA AddPointSizesAgree ==
  ASSUME TypeOK, SizesAgree, NEW p \in Points, AddPoint(p)
  PROVE  SizesAgree'
<1>1. max_node_size \in Nat /\ 1 <= max_node_size
  BY WriterAssumption
<1>2. CASE NoNodeFound
  BY <1>2 DEF NoNodeFound, SizesAgree, NodeSizeLimit
<1>3. ASSUME NEW k \in VoxelKeys, NEW write_chunk, ~IsFull(k),
             Added(p, k, write_chunk)
      PROVE  SizesAgree'
  <2>1. /\ \A j \in VoxelKeys : point_count[j] <= point_count'[j]
        /\ \A j \in VoxelKeys : point_count[j] \in Nat /\ point_count'[j] \in Nat
        /\ point_count'[k] = point_count[k] + 1
        /\ \A j \in VoxelKeys : point_count'[j] <= max_node_size
    BY <1>1, <1>3
    DEF Added, IsFull, TypeOK, OctreeTypeOK, SizesAgree, NodeSizeLimit
  <2>2. faults \in Nat
    BY DEF TypeOK, CallTypeOK
  <2>3. faults' = 0 => faults = 0
    BY <1>3, <2>2
    DEF Added, AddingFails, AddingBuffers, AddingWrites
  <2>. SUFFICES ASSUME faults = 0, faults' = 0
       PROVE  /\ \A i \in DOMAIN hierarchy' :
                   hierarchy'[i].point_count <= max_node_size
              /\ current_chunk' = {} /\ stale_count' = 0
              /\ \A j \in VoxelKeys :
                   Cardinality(open_chunks'[j]) <= point_count'[j]
    BY <2>1, <2>3 DEF SizesAgree, NodeSizeLimit
  <2>4. /\ \A i \in DOMAIN hierarchy : hierarchy[i].point_count <= max_node_size
        /\ current_chunk = {} /\ stale_count = 0
        /\ \A j \in VoxelKeys : Cardinality(open_chunks[j]) <= point_count[j]
    BY DEF SizesAgree, NodeSizeLimit
  <2>5. \A j \in VoxelKeys : Cardinality(open_chunks[j]) \in Nat
    BY ChunksAreFinite DEF TypeOK, FileTypeOK
  <2>6. Cardinality(Buffered(k, p)[k]) \in Nat
    BY BufferedType, ChunksAreFinite DEF TypeOK
  <2>7. Cardinality(Buffered(k, p)[k]) <= point_count'[k]
    <3>1. Buffered(k, p)[k] = open_chunks[k] \cup {p}
      BY DEF Buffered, TypeOK, FileTypeOK
    <3>2. IsFiniteSet(open_chunks[k])
      BY ChunksAreFinite DEF TypeOK, FileTypeOK
    <3>3. Cardinality(Buffered(k, p)[k]) <= Cardinality(open_chunks[k]) + 1
      BY <3>1, <3>2, OneMorePoint, Zenon
    <3>. QED
      BY <2>1, <2>4, <2>5, <2>6, <3>3
  <2>8. CASE AddingFails(k)
    BY <2>1, <2>2, <2>4, <2>5, <2>8 DEF AddingFails
  <2>9. CASE AddingBuffers(k, p)
    <3>1. \A j \in VoxelKeys : j # k => open_chunks'[j] = open_chunks[j]
      BY <2>9 DEF AddingBuffers, Buffered, TypeOK, FileTypeOK
    <3>. QED
      BY <2>1, <2>4, <2>5, <2>7, <2>9, <3>1 DEF AddingBuffers
  <2>10. CASE AddingWrites(k, p)
    <3>1. \A i \in DOMAIN hierarchy' :
            hierarchy'[i].point_count <= max_node_size
      <4>1. current_chunk \cup Buffered(k, p)[k] = Buffered(k, p)[k]
        BY <2>4
      <4>2. Cardinality(Buffered(k, p)[k]) <= max_node_size
        BY <1>1, <2>1, <2>6, <2>7
      <4>. QED
        BY <2>4, <2>6, <2>10, <4>1, <4>2, EntryWithinLimit DEF AddingWrites
    <3>2. current_chunk' = {} /\ stale_count' = 0
      BY <2>10 DEF AddingWrites, EntryWritten
    <3>3. \A j \in VoxelKeys :
            open_chunks'[j] = IF j = k THEN {} ELSE open_chunks[j]
      BY <2>10 DEF AddingWrites, TypeOK, FileTypeOK
    <3>. QED
      BY <2>1, <2>4, <2>5, <3>1, <3>2, <3>3, FS_EmptySet
  <2>. QED
    BY <1>3, <2>8, <2>9, <2>10 DEF Added
<1>. QED
  BY <1>2, <1>3, AddPointAdds

(***************************************************************************)
(* No node outgrows max_node_size, neither its count nor, as long as no    *)
(* write fails, its chunk on disk, under both strategies.                  *)
(***************************************************************************)
THEOREM NodesKeepTheirSize == Spec => []NodeSizeLimit
<1>1. Init => SizesAgree
  <2>. SUFFICES ASSUME Init PROVE SizesAgree
    OBVIOUS
  <2>1. \A k \in VoxelKeys : point_count[k] = 0 /\ open_chunks[k] = {}
    BY DEF Init
  <2>. QED
    BY <2>1, WriterAssumption, FS_EmptySet
    DEF Init, CompressorInit, SizesAgree, NodeSizeLimit
<1>2. TypeOK /\ SizesAgree /\ [Next]_vars => SizesAgree'
  <2>. SUFFICES ASSUME TypeOK, SizesAgree, [Next]_vars PROVE SizesAgree'
    OBVIOUS
  <2>. USE DEF SizesAgree, NodeSizeLimit
  <2>1. ASSUME NEW n \in NumPoints, CallWrite(n) PROVE SizesAgree'
    BY <2>1 DEF CallWrite, octreeVars, fileVars, compressorVars, chunkVars
  <2>2. CASE EndOfPoints
    BY <2>2
    DEF EndOfPoints, octreeVars, fileVars, compressorVars, chunkVars, ghostVars
  <2>3. CASE Unwind
    BY <2>3
    DEF Unwind, octreeVars, fileVars, compressorVars, chunkVars, ghostVars
  <2>4. ASSUME NEW p \in Points, Reject(p) PROVE SizesAgree'
    BY <2>4 DEF Reject, octreeVars, fileVars, compressorVars, chunkVars
  <2>5. ASSUME NEW p \in Points, AddPoint(p) PROVE SizesAgree'
    BY <2>5, AddPointSizesAgree
  <2>6. CASE CloseRefused
    BY <2>6
    DEF CloseRefused, octreeVars, fileVars, compressorVars, chunkVars, ghostVars
  <2>7. ASSUME NEW k \in VoxelKeys, DrainChunk(k) PROVE SizesAgree'
    <3>1. /\ point_count' = point_count
          /\ faults' = faults
          /\ open_chunks' = [open_chunks EXCEPT ![k] = {}]
          /\ EntryWritten(k, open_chunks[k])
      BY <2>7, WriteChunkWritesEntry
      DEF DrainChunk, octreeVars, ghostVars, TypeOK, FileTypeOK
    <3>2. faults = 0 =>
            /\ current_chunk' = {} /\ stale_count' = 0
            /\ \A i \in DOMAIN hierarchy' :
                 hierarchy'[i].point_count <= max_node_size
      <4>. SUFFICES ASSUME faults = 0
                    PROVE  /\ current_chunk' = {} /\ stale_count' = 0
                           /\ \A i \in DOMAIN hierarchy' :
                                hierarchy'[i].point_count <= max_node_size
        OBVIOUS
      <4>1. /\ Cardinality(open_chunks[k]) \in Nat
            /\ point_count[k] \in Nat
            /\ max_node_size \in Nat
        BY ChunksAreFinite, WriterAssumption
        DEF TypeOK, FileTypeOK, OctreeTypeOK
      <4>2. Cardinality(open_chunks[k]) <= max_node_size
        BY <4>1
      <4>3. current_chunk \cup open_chunks[k] = open_chunks[k]
        OBVIOUS
      <4>. QED
        BY <3>1, <4>1, <4>2, <4>3, EntryWithinLimit DEF EntryWritten
    <3>3. \A j \in VoxelKeys :
            open_chunks'[j] = IF j = k THEN {} ELSE open_chunks[j]
      BY <3>1 DEF TypeOK, FileTypeOK
    <3>4. \A j \in VoxelKeys : point_count[j] \in Nat
      BY DEF TypeOK, OctreeTypeOK
    <3>5. faults = 0 => \A j \in VoxelKeys :
                          Cardinality(open_chunks'[j]) <= point_count[j]
      BY <3>3, <3>4, FS_EmptySet
    <3>. QED
      BY <3>1, <3>2, <3>5
  <2>8. ASSUME NEW k \in VoxelKeys, DrainFails(k) PROVE SizesAgree'
    BY <2>8 DEF DrainFails, IoFault, octreeVars, TypeOK, CallTypeOK
  <2>9. CASE CloseFinish
    BY <2>9 DEF CloseFinish, octreeVars, chunkVars, ghostVars
  <2>10. CASE CloseFinishFails
    BY <2>10 DEF CloseFinishFails, IoFault, octreeVars, TypeOK, CallTypeOK
  <2>11. CASE DropWriter
    BY <2>11
    DEF DropWriter, octreeVars, fileVars, compressorVars, chunkVars, ghostVars
  <2>12. CASE UNCHANGED vars
    BY <2>12
    DEF vars, octreeVars, fileVars, compressorVars, chunkVars, ghostVars
  <2>. QED
    BY <2>1, <2>2, <2>3, <2>4, <2>5, <2>6, <2>7, <2>8, <2>9, <2>10, <2>11,
       <2>12 DEF Next, Running
<1>3. SizesAgree => NodeSizeLimit
  BY DEF SizesAgree
<1>. QED
  BY <1>1, <1>2, <1>3, TypeCorrect, PTL DEF Spec

-----------------------------------------------------------------------------
(* Every point finds a node.                                               *)

(***************************************************************************)
(* No point of the root lies between a rounded uppermost face and the face *)
(* of the root.                                                            *)
(***************************************************************************)
NoPointInAGap ==
  \A p \in Points : InRootBounds(p) =>
    \A a \in Axis : Position[p][a] <= RootBounds.max[a] - FaceGap[a]

(***************************************************************************)
(* A node that counts points is in the octree.                             *)
(***************************************************************************)
CountedNodesExist ==
  /\ Root \in nodes
  /\ \A k \in VoxelKeys : point_count[k] > 0 => k \in nodes

(***************************************************************************)
(* The logarithm of write_stochastic is a number of levels.                *)
(***************************************************************************)
LEMMA LevelsAreExpected ==
  ASSUME NEW n \in Nat
  PROVE  ExpectedLevels(n) \in Nat
<1>. DEFINE M == max_node_size
            pow(l) == 2^(2 * l + 2)
            Enough(l) == 3 * n + M <= M * pow(l)
            T == { l \in 0 .. n : Enough(l) }
<1>1. M \in Nat /\ M >= 1
  BY WriterAssumption
<1>2. \A l \in Nat : pow(l) \in Nat
  BY PowersOfTwo
<1>3. n \in T
  <2>1. /\ 2 * n \in Nat /\ (2 * n) + 1 \in Nat
        /\ ((2 * n) + 1) + 1 = 2 * n + 2
    OBVIOUS
  <2>2. /\ 2^(2 * n) \in Nat /\ 2^((2 * n) + 1) = 2 * 2^(2 * n)
        /\ 2^(2 * n + 2) = 2 * 2^((2 * n) + 1)
        /\ 2 * n < 2^(2 * n)
    BY <2>1, PowersOfTwo, PowersGrow
  <2>3. pow(n) >= 8 * n + 4
    BY <2>2
  <2>. HIDE DEF pow, M
  <2>4. M * pow(n) >= M * (8 * n + 4)
    BY <1>1, <1>2, <2>3
  <2>5. M * (8 * n + 4) = 8 * (M * n) + 4 * M /\ M * n >= n
    BY <1>1
  <2>. QED
    BY <1>1, <1>2, <2>4, <2>5
<1>4. PICK l \in T : \A m \in T : l <= m
  <2>1. T \in SUBSET Nat
    OBVIOUS
  <2>. HIDE DEF T
  <2>. QED
    BY <1>3, <2>1, LeastElement
<1>5. ASSUME NEW m \in 0 .. (l - 1) PROVE 3 * n + M > M * pow(m)
  <2>1. m \in 0 .. n /\ m \notin T /\ m \in Nat
    BY <1>4
  <2>2. M * pow(m) \in Nat
    BY <1>1, <1>2, <2>1
  <2>. HIDE DEF pow, M
  <2>. QED
    BY <1>1, <2>1, <2>2
<1>6. \E x \in 0 .. n : Enough(x) /\ \A m \in 0 .. (x - 1) : 3 * n + M > M * pow(m)
  BY <1>4, <1>5
<1>7. ExpectedLevels(n) \in 0 .. n
  <2>1. ExpectedLevels(n) = CHOOSE x \in 0 .. n :
          Enough(x) /\ \A m \in 0 .. (x - 1) : 3 * n + M > M * pow(m)
    BY DEF ExpectedLevels
  <2>. HIDE DEF Enough, pow, M
  <2>. QED
    BY <1>6, <2>1
<1>. QED
  BY <1>7

(***************************************************************************)
(* A node of the octree a walk passes lies in the voxels above it.         *)
(***************************************************************************)
LEMMA HomeOfParent ==
  ASSUME NEW p \in Points, NEW k \in Home[p], k # Root
  PROVE  /\ Parent(k) \in Home[p] /\ k \in Children(Parent(k))
         /\ Parent(k).level = k.level - 1 /\ k.level \in Nat
         /\ Ancestors(k) = Ancestors(Parent(k)) \cup {Parent(k)}
<1>1. k \in VoxelKeys
  BY HomeIsVoxels
<1>2. /\ k.level \in 1 .. MaxLevel
      /\ Parent(k) \in VoxelKeys /\ Parent(k).level = k.level - 1
      /\ Ancestors(k) = Ancestors(Parent(k)) \cup {Parent(k)}
      /\ k \in Children(Parent(k))
  BY <1>1, ParentIsVoxelKey
<1>3. Parent(k) \in Home[p]
  BY <1>2 DEF Home, VoxelsOf
<1>. QED
  BY <1>2, <1>3

LEMMA AddToKeepsCounted ==
  ASSUME TypeOK, CountedNodesExist, NEW p \in Points, NEW k \in VoxelKeys,
         NEW children, NEW write_chunk,
         AddTo(p, k, children, write_chunk), k \in nodes \cup children
  PROVE  CountedNodesExist'
<1>1. /\ nodes' = nodes \cup children
      /\ point_count' = [point_count EXCEPT ![k] = @ + 1]
  BY DEF AddTo
<1>2. \A j \in VoxelKeys : j # k => point_count'[j] = point_count[j]
  BY <1>1 DEF TypeOK, OctreeTypeOK
<1>. QED
  BY <1>1, <1>2 DEF CountedNodesExist

(***************************************************************************)
(* The greedy walk has created the node it ends in: the node's parent is   *)
(* full, and was passed before.                                            *)
(***************************************************************************)
LEMMA GreedyKeepsCounted ==
  ASSUME TypeOK, CountedNodesExist, NEW p \in Points, NEW children,
         AddPointGreedy(p, children)
  PROVE  CountedNodesExist'
<1>1. CASE /\ UNCHANGED point_count
           /\ \E more : nodes' = nodes \cup more
  BY <1>1 DEF CountedNodesExist
<1>2. ASSUME NEW k \in FirstVisited(GreedyNodes(p))
      PROVE  LET passed == { j \in FullNodes(p) : VisitedBefore(j, k) }
             IN  /\ k \in VoxelKeys
                 /\ \/ k \in nodes
                    \/ k \in UNION { Children(j) : j \in passed }
  <2>1. k \in BelowFull(p) /\ k \in Home[p] /\ k \in VoxelKeys
    BY HomeIsVoxels DEF FirstVisited, GreedyNodes, BelowFull
  <2>2. CASE k = Root
    BY <2>1, <2>2 DEF CountedNodesExist
  <2>3. CASE k # Root
    <3>1. /\ Parent(k) \in Home[p] /\ k \in Children(Parent(k))
          /\ Ancestors(k) = Ancestors(Parent(k)) \cup {Parent(k)}
      BY <2>1, <2>3, HomeOfParent
    <3>2. Parent(k) \in FullNodes(p)
      BY <2>1, <3>1 DEF FullNodes, BelowFull
    <3>3. VisitedBefore(Parent(k), k)
      BY <3>1 DEF VisitedBefore
    <3>. QED
      BY <2>1, <3>1, <3>2, <3>3
  <2>. QED
    BY <2>2, <2>3
<1>3. ASSUME NEW k \in FirstVisited(GreedyNodes(p)), NEW created,
             created = children \cup UNION { Children(j) : j \in
                         { j \in FullNodes(p) : VisitedBefore(j, k) } },
             AddTo(p, k, created, FillsNode(k))
      PROVE  CountedNodesExist'
  <2>1. k \in VoxelKeys /\ k \in nodes \cup created
    BY <1>2, <1>3
  <2>. QED
    BY <1>3, <2>1, AddToKeepsCounted
<1>. QED
  BY <1>1, <1>3 DEF AddPointGreedy

(***************************************************************************)
(* So has the stochastic walk: the node was there, or its parent is above  *)
(* the expected level.                                                     *)
(***************************************************************************)
LEMMA AddPointKeepsCounted ==
  ASSUME TypeOK, CountedNodesExist, NEW p \in Points, AddPoint(p)
  PROVE  CountedNodesExist'
<1>. DEFINE levels == ExpectedLevels(num_points)
            created == StochasticChildren(p, levels)
<1>1. CASE \E children : AddPointGreedy(p, children)
  BY <1>1, GreedyKeepsCounted
<1>2. ASSUME ~Greedy(num_points), NEW k \in Drawn(Candidates(p, levels)),
             AddTo(p, k, created, point_count[k] + 1 > max_node_size)
      PROVE  CountedNodesExist'
  <2>1. levels \in Nat
    <3>1. num_points \in Nat
      BY <1>2, WriterAssumption DEF Greedy, TypeOK, CallTypeOK
    <3>. QED
      BY <3>1, LevelsAreExpected
  <2>. HIDE DEF levels
  <2>2. k \in Home[p] /\ k \in VoxelKeys /\ (k \in nodes \/ k.level <= levels)
    BY HomeIsVoxels DEF Drawn, Candidates, Visited
  <2>3. CASE k \in nodes
    BY <1>2, <2>2, <2>3, AddToKeepsCounted
  <2>4. CASE k \notin nodes
    <3>1. k # Root
      BY <2>4 DEF CountedNodesExist
    <3>2. /\ Parent(k) \in Home[p] /\ k \in Children(Parent(k))
          /\ Parent(k).level = k.level - 1 /\ k.level \in Nat
      BY <2>2, <3>1, HomeOfParent
    <3>3. Parent(k).level <= levels /\ Parent(k).level < levels
      BY <2>1, <2>2, <2>4, <3>2
    <3>4. k \in created
      BY <3>2, <3>3 DEF StochasticChildren, Visited
    <3>. QED
      BY <1>2, <2>2, <3>4, AddToKeepsCounted
  <2>. QED
    BY <2>3, <2>4
<1>. QED
  BY <1>1, <1>2 DEF AddPoint, AddPointStochastic

LEMMA CountedNodesExistInductive ==
  ASSUME TypeOK, CountedNodesExist, [Next]_vars
  PROVE  CountedNodesExist'
<1>1. ASSUME NEW p \in Points, AddPoint(p) PROVE CountedNodesExist'
  BY <1>1, AddPointKeepsCounted
<1>2. CASE UNCHANGED octreeVars
  BY <1>2 DEF octreeVars, CountedNodesExist
<1>3. CASE UNCHANGED vars
  BY <1>2, <1>3 DEF vars
<1>4. \A n \in NumPoints : CallWrite(n) => UNCHANGED octreeVars
  BY DEF CallWrite
<1>5. \A p \in Points : Reject(p) => UNCHANGED octreeVars
  BY DEF Reject
<1>6. \A k \in VoxelKeys : DrainChunk(k) \/ DrainFails(k) => UNCHANGED octreeVars
  BY DEF DrainChunk, DrainFails
<1>7. \/ EndOfPoints \/ Unwind \/ CloseRefused \/ CloseFinish
      \/ CloseFinishFails \/ DropWriter
      => UNCHANGED octreeVars
  BY DEF EndOfPoints, Unwind, CloseRefused, CloseFinish, CloseFinishFails,
         DropWriter
<1>. QED
  BY <1>1, <1>2, <1>3, <1>4, <1>5, <1>6, <1>7 DEF Next, Running

LEMMA CountedNodesExistInvariant == Spec => []CountedNodesExist
<1>1. Init => CountedNodesExist
  BY DEF Init, CountedNodesExist
<1>2. TypeOK /\ CountedNodesExist /\ [Next]_vars => CountedNodesExist'
  BY CountedNodesExistInductive
<1>. QED
  BY <1>1, <1>2, TypeCorrect, PTL DEF Spec

(***************************************************************************)
(* On every level above the first node that is not full, a full node       *)
(* contains the point; there are no full nodes on the lowest one.          *)
(***************************************************************************)
LEMMA GreedyFindsANode ==
  ASSUME TypeOK, CountedNodesExist, NoPointInAGap, NEW p \in Points,
         InRootBounds(p), WithinDepth(p)
  PROVE  GreedyNodes(p) # {}
<1>. SUFFICES ASSUME GreedyNodes(p) = {} PROVE FALSE
  OBVIOUS
<1>. DEFINE S == { l \in 0 .. MaxLevel : \E k \in BelowFull(p) : k.level = l }
<1>1. MaxLevel \in Nat
  BY OctreeAssumption
<1>2. \A k \in BelowFull(p) : k \in VoxelKeys /\ IsFull(k) /\ k \in nodes
  <2>1. \A k \in BelowFull(p) : k \in VoxelKeys /\ IsFull(k)
    BY HomeIsVoxels DEF GreedyNodes, BelowFull
  <2>2. \A k \in VoxelKeys : IsFull(k) => point_count[k] > 0
    BY WriterAssumption DEF IsFull, TypeOK, OctreeTypeOK
  <2>. QED
    BY <2>1, <2>2 DEF CountedNodesExist
<1>3. 0 \in S
  <2>1. Root \in BelowFull(p)
    BY RootHasNoAncestors DEF BelowFull, Home, VoxelsOf, InRootBounds
  <2>. QED
    BY <1>1, <2>1, RootHasNoAncestors
<1>4. ASSUME NEW l \in 0 .. (MaxLevel - 1), l \in S
      PROVE  l + 1 \in S
  <2>1. PICK k \in BelowFull(p) : k.level = l
    BY <1>4
  <2>2. /\ k \in VoxelKeys /\ IsFull(k) /\ k \in nodes /\ k.level < MaxLevel
        /\ k \in Home[p] /\ \A j \in Ancestors(k) : j \in nodes /\ IsFull(j)
    BY <1>1, <1>2, <2>1 DEF BelowFull
  <2>3. /\ \A j \in Ancestors(k) \cup {k} :
             BoundsContainPoint(NodeBounds(j), Position[p])
        /\ Position[p] \in [Axis -> Int]
    BY <2>2, WriterAssumption DEF Home, VoxelsOf
  <2>4. \A a \in Axis : Position[p][a] <= RootBounds.max[a] - FaceGap[a]
    BY DEF NoPointInAGap
  <2>5. PICK d \in Directions :
          BoundsContainPoint(VoxelBounds(Child(k, d)), Position[p])
    BY <2>2, <2>3, <2>4, ChildrenCover
  <2>. DEFINE c == Child(k, d)
  <2>6. /\ c \in VoxelKeys /\ c.level = l + 1 /\ c # Root
        /\ Ancestors(c) = Ancestors(k) \cup {k}
    BY <2>1, <2>2, ChildIsVoxelKey
  <2>7. BoundsContainPoint(NodeBounds(c), Position[p])
    BY <2>5, <2>6 DEF NodeBounds
  <2>. HIDE DEF c
  <2>8. c \in Home[p]
    BY <2>3, <2>6, <2>7 DEF Home, VoxelsOf
  <2>9. c \in BelowFull(p)
    BY <2>2, <2>6, <2>8 DEF BelowFull
  <2>. QED
    BY <1>1, <2>6, <2>9
<1>5. MaxLevel \in S
  <2>. HIDE DEF S
  <2>1. 0 .. MaxLevel \subseteq S
    BY <1>1, <1>3, <1>4, UpTo
  <2>. QED
    BY <1>1, <2>1
<1>. QED
  BY <1>2, <1>5 DEF WithinDepth

LEMMA StepsFindNodes ==
  ASSUME NoPointInAGap, TypeOK, CountedNodesExist, result # NotAdded,
         [Next]_vars
  PROVE  result' # NotAdded
<1>1. ASSUME NEW p \in Points, AddPoint(p) PROVE result' # NotAdded
  <2>1. ASSUME NEW k, NEW children, NEW write_chunk,
               AddTo(p, k, children, write_chunk)
        PROVE  result' # NotAdded
    BY <2>1 DEF AddTo, Abort, Continue, NotAdded
  <2>2. ASSUME NEW children, AddPointGreedy(p, children)
        PROVE  result' # NotAdded
    <3>1. GreedyNodes(p) # {}
      BY <1>1, <2>2, GreedyFindsANode DEF AddPoint, AddPointGreedy
    <3>. QED
      BY <2>1, <2>2, <3>1 DEF AddPointGreedy
  <2>. QED
    BY <1>1, <2>1, <2>2 DEF AddPoint, AddPointStochastic
<1>2. ASSUME NEW p \in Points, Reject(p) PROVE result' # NotAdded
  BY <1>2 DEF Reject, OutOfBounds, NotAdded, NotMatching, NotInBounds
<1>3. ASSUME NEW n \in NumPoints, CallWrite(n) PROVE result' # NotAdded
  BY <1>3 DEF CallWrite, NotAdded
<1>4. CASE UNCHANGED vars
  BY <1>4 DEF vars
<1>5. \A k \in VoxelKeys : DrainChunk(k) => result' = result
  BY DEF DrainChunk
<1>6. EndOfPoints \/ Unwind \/ DropWriter
      => result' = result
  BY DEF EndOfPoints, Unwind, DropWriter
<1>7. ASSUME \/ CloseRefused \/ CloseFinish \/ CloseFinishFails
             \/ \E k \in VoxelKeys : DrainFails(k)
      PROVE  result' # NotAdded
  BY <1>7 DEF CloseRefused, CloseFinish, CloseFinishFails, DrainFails
<1>. QED
  BY <1>1, <1>2, <1>3, <1>4, <1>5, <1>6, <1>7 DEF Next, Running

(***************************************************************************)
(* The error PointNotAddedToAnyNode, of which the code says "Should not be *)
(* possible" (writer.rs 680, error.rs), comes only from a point in a       *)
(* rounding gap, under both strategies and in a tree of any shape.         *)
(***************************************************************************)
THEOREM PointsFindNodes ==
  ASSUME NoPointInAGap
  PROVE  Spec => [](result # NotAdded)
<1>1. Init => result # NotAdded
  BY DEF Init, NotAdded
<1>2. /\ TypeOK /\ CountedNodesExist /\ result # NotAdded /\ [Next]_vars
      => (result # NotAdded)'
  BY StepsFindNodes
<1>. QED
  BY <1>1, <1>2, TypeCorrect, CountedNodesExistInvariant, PTL DEF Spec

=============================================================================
