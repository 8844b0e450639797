----------------------------- MODULE CopcWriter -----------------------------
(***************************************************************************)
(* The COPC writer (src/src/writer.rs): a caller that has built a writer   *)
(* calls write any number of times and drops it.  write sorts the points   *)
(* of an iterator into the nodes of an octree, compresses a node's points  *)
(* when the node is full, and closes the writer; a writer that is dropped  *)
(* open is closed then.                                                    *)
(*                                                                         *)
(* A step handles one point of the iterator, or compresses one chunk in    *)
(* close, or is the rest of close.  A caller's iterator may panic, and any *)
(* write to the stream may fail, MaxFaults times at most; so may a seek or *)
(* the las library where it makes or writes a record.  All of these errors *)
(* are an IoError here, whichever error type wraps them.                   *)
(***************************************************************************)
EXTENDS CopcOctree, CopcCompressor

CONSTANTS
  Position,        \* where a point is
  GpsTime,         \* the GPS time of a point
  Matching,        \* the points that match the header's point format
  Encodable,       \* the points whose coordinates fit the header's transforms
  min_node_size,
  max_node_size,
  NumPoints,       \* the values of num_points a caller may pass to write
  ForwardedEvlrs,  \* how many evlrs of the source header are forwarded
  F64Min, F64Max,  \* f64::MIN and f64::MAX, beyond every GPS time
  MaxFaults        \* bound on the operations on the stream that fail

ASSUME WriterAssumption ==
  /\ Position \in [Points -> [Axis -> Int]]
  /\ GpsTime \in [Points -> Int]
  /\ F64Min \in Int /\ F64Max \in Int
  /\ \A p \in Points : F64Min < GpsTime[p] /\ GpsTime[p] < F64Max
  /\ Matching \subseteq Points /\ Encodable \subseteq Points
  /\ min_node_size \in Nat /\ max_node_size \in Nat
  /\ 1 <= min_node_size /\ min_node_size < max_node_size
  /\ NumPoints \subseteq Int
  /\ ForwardedEvlrs \in Nat
  /\ MaxFaults \in Nat

VARIABLES
  is_closed,
  nodes,             \* the nodes of the octree in memory
  point_count,       \* entry.point_count of every node
  open_chunks,       \* the points of a node that are not written yet
  hierarchy,         \* the entries of the chunks written, in their order
  number_of_points,  \* header.number_of_points()
  copc_info,
  pc,                \* "idle", "adding", "closing" or "dropped"
  via,               \* what runs: a call of "write" or "drop"
  num_points,        \* the argument of the last call of write
  result,            \* the result of adding points so far (invalid_points)
  answer,            \* what the last call of write returned
  batch,             \* the points the last call of write took so far
  taken,             \* the points any call of write took
  faults,            \* the operations that failed so far
  close_failed       \* has an error in close left the writer open?

octreeVars == <<nodes, point_count>>
fileVars   == <<open_chunks, hierarchy, compressorVars>>
statVars   == <<number_of_points, copc_info>>
callVars   == <<via, num_points, answer>>
ghostVars  == <<batch, taken, faults, close_failed>>
vars == <<is_closed, octreeVars, fileVars, statVars,
          pc, result, callVars, ghostVars>>

NotMatching  == "PointAttributesDoNotMatch"
NotInBounds  == "PointNotInBounds"
NotAdded     == "PointNotAddedToAnyNode"
Results == {"Ok", NotMatching, NotInBounds, NotAdded, "LasError", "IoError"}
Answers == Results \cup {"none", "ClosedWriter", "EmptyCopcFile"}

Init ==
  /\ CompressorInit
  /\ is_closed = FALSE
  /\ nodes = {Root}
  /\ point_count = [k \in VoxelKeys |-> 0]
  /\ open_chunks = [k \in VoxelKeys |-> {}]
  /\ hierarchy = <<>>
  /\ number_of_points = 0
  /\ copc_info = [gpstime_minimum |-> F64Max, gpstime_maximum |-> F64Min,
                  root_hier_offset |-> 0, root_hier_size |-> 0,
                  root_points |-> 0]
  /\ pc = "idle"
  /\ via = "write"
  /\ num_points = 0
  /\ result = "Ok"
  /\ answer = "none"
  /\ batch = {} /\ taken = {}
  /\ faults = 0
  /\ close_failed = FALSE

-----------------------------------------------------------------------------
(* Where a point goes.                                                     *)

Home == [p \in Points |-> VoxelsOf(Position[p])]

\* Mutant: the boundary of is_full.
IsFull_OffByOne(k) == point_count[k] > max_node_size

IsFull(k) == point_count[k] >= max_node_size

\* The full nodes the walk of add_point_greedy passes through or exhausts,
\* and the nodes that could take the point: below full nodes all the way.
BelowFull(p) ==
  { k \in Home[p] : \A j \in Ancestors(k) : j \in nodes /\ IsFull(j) }

GreedyNodes(p) == { k \in BelowFull(p) : ~IsFull(k) }

FirstVisited(S) == { k \in S : \A j \in S \ {k} : VisitedBefore(k, j) }

FullNodes(p) == { k \in BelowFull(p) : IsFull(k) }

\* The number of levels below the root among which the stochastic strategy
\* spreads n points: the logarithm of write_stochastic, rounded up.
ExpectedLevels(n) ==
  CHOOSE l \in 0 .. n :
    /\ 3 * n + max_node_size <= max_node_size * 2^(2 * l + 2)
    /\ \A m \in 0 .. (l - 1) :
         3 * n + max_node_size > max_node_size * 2^(2 * m + 2)

\* The nodes the walk of add_point_stochastic visits, creating children down
\* to the expected level, those it may choose, and in which order it has them.
Visited(p, levels) == { k \in Home[p] : k \in nodes \/ k.level <= levels }

StochasticChildren(p, levels) ==
  UNION { Children(k) : k \in { j \in Visited(p, levels) : j.level < levels } }

\* Mutant: full nodes are candidates too.
Candidates_Full(p, levels) == Visited(p, levels)

Candidates(p, levels) == { k \in Visited(p, levels) : ~IsFull(k) }

InVisitOrder(S) ==
  [i \in 1 .. Cardinality(S) |->
     CHOOSE k \in S : Cardinality({ j \in S : VisitedBefore(j, k) }) = i - 1]

(***************************************************************************)
(* get_random_weighted_index.  The weight of a candidate grows with its    *)
(* level, by a factor of four for each, so a random number between 0 and 1 *)
(* compares with the weights as a draw does with levels: 2 * l is the      *)
(* weight of level l, an odd draw lies between two weights or outside.     *)
(* The first candidate whose weight and whose successor's weight enclose   *)
(* the draw is taken, the last candidate if there is none.                 *)
(***************************************************************************)
Draws == -1 .. (2 * MaxLevel + 1)

ChosenIndex(levels, draw) ==
  LET hits == { i \in 1 .. (Len(levels) - 1) :
                  2 * levels[i] <= draw /\ draw <= 2 * levels[i + 1] }
  IN  IF hits = {} THEN Len(levels)
      ELSE CHOOSE i \in hits : \A j \in hits : i <= j

Drawn(S) ==
  LET c == InVisitOrder(S)
      levels == [i \in DOMAIN c |-> c[i].level]
  IN  { k \in S : \E draw \in Draws : k = c[ChosenIndex(levels, draw)] }

-----------------------------------------------------------------------------
(* write: the call, and the points it turns away.                          *)

Greedy(n) == n < max_node_size + min_node_size

\* Mutant: points are added to a closed writer, and close refuses it.
CallWrite_Unchecked(n) ==
  /\ pc = "idle"
  /\ num_points' = n
  /\ batch' = {}
  /\ pc' = "adding"
  /\ via' = "write"
  /\ result' = "Ok"
  /\ UNCHANGED <<is_closed, octreeVars, fileVars, statVars,
                 answer, taken, faults, close_failed>>

\* write on a closed writer fails at once.
CallWrite(n) ==
  /\ pc = "idle"
  /\ num_points' = n
  /\ batch' = {}
  /\ IF is_closed
     THEN /\ answer' = "ClosedWriter"
          /\ UNCHANGED <<pc, result, via>>
     ELSE /\ pc' = "adding"
          /\ via' = "write"
          /\ result' = "Ok"
          /\ UNCHANGED answer
  /\ UNCHANGED <<is_closed, octreeVars, fileVars, statVars,
                 taken, faults, close_failed>>

Take(p) ==
  /\ pc = "adding"
  /\ p \notin taken
  /\ taken' = taken \cup {p}
  /\ batch' = batch \cup {p}

InRootBounds(p) == BoundsContainPoint(NodeBounds(Root), Position[p])

\* The error a point out of bounds leaves: none if there is one already.
\* Mutant: the last error wins.
OutOfBounds_LastWins(r) == NotInBounds

OutOfBounds(r) == IF r = "Ok" THEN NotInBounds ELSE r

Reject(p) ==
  /\ Take(p)
  /\ \/ /\ p \notin Matching
        /\ result' = NotMatching
     \/ /\ p \in Matching
        /\ ~InRootBounds(p)
        /\ result' = OutOfBounds(result)
  /\ UNCHANGED <<is_closed, octreeVars, fileVars, statVars,
                 pc, callVars, faults, close_failed>>

-----------------------------------------------------------------------------
(* Adding a point.                                                         *)

\* Mutant: a point is counted only if it is the earliest so far.
Counted_Earliest(p) ==
  number_of_points + IF GpsTime[p] < copc_info.gpstime_minimum THEN 1 ELSE 0

Counted(p) == number_of_points + 1

\* header.add_point and the GPS times, which only one of two tests updates.
CountPoint(p) ==
  /\ number_of_points' = Counted(p)
  /\ copc_info' =
       IF GpsTime[p] < copc_info.gpstime_minimum
       THEN [copc_info EXCEPT !.gpstime_minimum = GpsTime[p]]
       ELSE IF GpsTime[p] > copc_info.gpstime_maximum
       THEN [copc_info EXCEPT !.gpstime_maximum = GpsTime[p]]
       ELSE copc_info

\* An error while a point is added ends the loop; write goes on to close.
Abort(error) == result' = error /\ pc' = "closing"

Continue == UNCHANGED <<result, pc>>

IoFault ==
  /\ faults < MaxFaults
  /\ faults' = faults + 1

EntryOf(key, chunk) ==
  [key |-> key, offset |-> chunk.offset,
   byte_size |-> chunk.byte_size, point_count |-> chunk.point_count]

\* Compress a chunk and enter it into the hierarchy.
WriteChunk(k, points) ==
  \E bytes \in ChunkBytes :
    /\ CompressChunk(points, bytes)
    /\ hierarchy' = Append(hierarchy, EntryOf(k, WrittenChunk(points, bytes)))

\* Mutant: a new buffer for every point.
Buffered_Fresh(k, p) == [open_chunks EXCEPT ![k] = {p}]

\* The point is appended to the buffer of its node.
Buffered(k, p) == [open_chunks EXCEPT ![k] = @ \cup {p}]

\* Add point p to node k, once the walk has created some children.
AddTo(p, k, children, write_chunk) ==
  /\ nodes' = nodes \cup children
  /\ point_count' = [point_count EXCEPT ![k] = @ + 1]
  /\ CountPoint(p)
  /\ \/ /\ p \notin Encodable
        /\ Abort("LasError")
        /\ UNCHANGED <<fileVars, faults>>
     \/ /\ p \in Encodable
        /\ ~write_chunk
        /\ open_chunks' = Buffered(k, p)
        /\ Continue
        /\ UNCHANGED <<hierarchy, compressorVars, faults>>
     \/ /\ p \in Encodable
        /\ write_chunk
        /\ open_chunks' = [open_chunks EXCEPT ![k] = {}]
        /\ \/ /\ WriteChunk(k, Buffered(k, p)[k])
              /\ Continue
              /\ UNCHANGED faults
           \/ /\ CompressChunkFails(Buffered(k, p)[k])
              /\ IoFault
              /\ Abort("IoError")
              /\ UNCHANGED hierarchy

\* The bound on the depth: no point is added that would go below MaxLevel.
WithinDepth(p) == \A k \in BelowFull(p) : k.level = MaxLevel => ~IsFull(k)

\* Mutant: a full node is not written.
FillsNode_Never(k) == point_count[k] + 1 > max_node_size

\* Does one more point fill node k?
FillsNode(k) == point_count[k] + 1 >= max_node_size

\* The walk creates the children of every full node it comes to, until it
\* finds a node that is not full.
AddPointGreedy(p, children) ==
  /\ WithinDepth(p)
  /\ \/ /\ GreedyNodes(p) = {}
        /\ nodes' = nodes \cup children
                       \cup UNION { Children(j) : j \in FullNodes(p) }
        /\ CountPoint(p)
        /\ Abort(NotAdded)
        /\ UNCHANGED <<point_count, fileVars, faults>>
     \/ \E k \in FirstVisited(GreedyNodes(p)) :
          LET passed == { j \in FullNodes(p) : VisitedBefore(j, k) }
          IN  AddTo(p, k, children \cup UNION { Children(j) : j \in passed },
                    FillsNode(k))

AddPointStochastic(p, levels) ==
  LET created == StochasticChildren(p, levels)
  IN  \/ /\ Candidates(p, levels) = {}
         /\ AddPointGreedy(p, created)
      \/ \E k \in Drawn(Candidates(p, levels)) :
           AddTo(p, k, created, point_count[k] + 1 > max_node_size)

\* Cardinality(batch) is the index of the point in the iterator.
AddPoint(p) ==
  /\ Take(p)
  /\ p \in Matching
  /\ InRootBounds(p)
  /\ IF Greedy(num_points) \/ num_points <= Cardinality(batch)
     THEN AddPointGreedy(p, {})
     ELSE AddPointStochastic(p, ExpectedLevels(num_points))
  /\ UNCHANGED <<is_closed, callVars, close_failed>>

\* The iterator is exhausted.
EndOfPoints ==
  /\ pc = "adding"
  /\ pc' = "closing"
  /\ UNCHANGED <<is_closed, octreeVars, fileVars, statVars,
                 result, callVars, ghostVars>>

\* What drop does: it closes an open writer.
\* Mutant: it closes none.
Dropping_None == "dropped"

Dropping == IF is_closed THEN "dropped" ELSE "closing"

\* The iterator panics: unwinding drops the writer.
Unwind ==
  /\ pc = "adding"
  /\ pc' = Dropping
  /\ via' = "drop"
  /\ UNCHANGED <<is_closed, octreeVars, fileVars, statVars,
                 result, num_points, answer, ghostVars>>

-----------------------------------------------------------------------------
(* close, called at the end of write and by drop on an open writer.        *)

\* Mutant: write does not look at the result of close.
CloseReturns_Ignored(error) ==
  IF via = "write"
  THEN pc' = "idle" /\ answer' = result
  ELSE pc' = "dropped" /\ UNCHANGED answer

\* write returns the error of close if there is one; drop returns nothing.
CloseReturns(error) ==
  IF via = "write"
  THEN /\ pc' = "idle"
       /\ answer' = IF error = "Ok" THEN result ELSE error
  ELSE /\ pc' = "dropped"
       /\ UNCHANGED answer

\* The tests close begins with.
CloseRefused ==
  /\ pc = "closing"
  /\ is_closed \/ number_of_points < 1
  /\ CloseReturns(IF is_closed THEN "ClosedWriter" ELSE "EmptyCopcFile")
  /\ UNCHANGED <<is_closed, octreeVars, fileVars, statVars,
                 result, via, num_points, ghostVars>>

\* The chunks still open are drained in an arbitrary order.
DrainChunk(k) ==
  /\ pc = "closing"
  /\ ~is_closed /\ number_of_points >= 1
  /\ open_chunks[k] # {}
  /\ open_chunks' = [open_chunks EXCEPT ![k] = {}]
  /\ WriteChunk(k, open_chunks[k])
  /\ UNCHANGED <<is_closed, octreeVars, statVars,
                 pc, result, callVars, ghostVars>>

\* Mutant: the chunks are drained only once all are written.
DrainDropped_Kept == open_chunks

DrainDropped == [k \in VoxelKeys |-> {}]

\* The error leaves close, and the drain drops the chunks not yet taken.
DrainFails(k) ==
  /\ pc = "closing"
  /\ ~is_closed /\ number_of_points >= 1
  /\ open_chunks[k] # {}
  /\ CompressChunkFails(open_chunks[k])
  /\ IoFault
  /\ open_chunks' = DrainDropped
  /\ close_failed' = TRUE
  /\ CloseReturns("IoError")
  /\ UNCHANGED <<is_closed, octreeVars, hierarchy, statVars,
                 result, via, num_points, batch, taken>>

\* Mutant: close waits for a chunk of every node that counts a point.
Drained_Counted == \A k \in VoxelKeys :
  point_count[k] > 0 => \E i \in DOMAIN hierarchy : hierarchy[i].key = k

Drained == \A k \in VoxelKeys : open_chunks[k] = {}

\* The evlrs: the hierarchy, 60 bytes of header and 32 for each entry, and
\* the forwarded ones, taken to hold one byte each.
AfterHierarchy(w) ==
  Put(w, [at |-> w.pos, len |-> 60 + 32 * Len(hierarchy), page |-> hierarchy])

AfterForwarded(w) ==
  LET evlrs == { [at |-> w.pos + 61 * (i - 1), len |-> 61, evlr |-> i] :
                   i \in 1 .. ForwardedEvlrs }
  IN  [pos  |-> w.pos + 61 * ForwardedEvlrs,
       disk |-> { c \in w.disk : \A b \in evlrs : Disjoint(b, c) } \cup evlrs]

AfterEvlrs(w) == AfterForwarded(AfterHierarchy(w))

\* Mutant: the evlr of the hierarchy is not counted.
NumberOfEvlrs_Forwarded == ForwardedEvlrs

NumberOfEvlrs == ForwardedEvlrs + 1

\* The header, written over the one reserved by new.
AfterHeader(w, first_evlr) ==
  Put(w, [at |-> Start, len |-> HeaderBytes,
          start_of_first_evlr  |-> first_evlr,
          number_of_evlrs      |-> NumberOfEvlrs,
          offset_to_point_data |-> start_pos - Start,
          number_of_points     |-> number_of_points])

\* The data of the hierarchy evlr lies behind its header.
\* Mutants: the header is not skipped; it is skipped backwards.
HierarchyData_AtHeader(first_evlr) == first_evlr

HierarchyData_Backwards(first_evlr) == first_evlr - 60

HierarchyData(first_evlr) == first_evlr + 60

ClosedInfo(first_evlr) ==
  [copc_info EXCEPT !.root_hier_offset = HierarchyData(first_evlr),
                    !.root_hier_size   = 32 * Len(hierarchy),
                    !.root_points      = point_count[Root]]

AfterInfo(w, info) ==
  Put(w, [at |-> Start + HeaderBytes, len |-> InfoBytes, info |-> info])

CloseFinish ==
  /\ pc = "closing"
  /\ ~is_closed /\ number_of_points >= 1
  /\ Drained
  /\ \E trailer \in TrailerBytes :
       LET done  == AfterDone(stream, trailer)
           evlrs == AfterEvlrs(done)
           info  == ClosedInfo(done.pos)
       IN  /\ stream' = Seek(AfterInfo(AfterHeader(evlrs, done.pos), info),
                             Start)
           /\ copc_info' = info
  /\ is_closed' = TRUE
  /\ CloseReturns("Ok")
  /\ UNCHANGED <<octreeVars, open_chunks, hierarchy, chunkVars,
                 number_of_points, result, via, num_points, ghostVars>>

\* An error in one of the writes and seeks of CloseFinish; a record that
\* cannot be made is as one of which no byte is written.
CloseFinishFails ==
  /\ pc = "closing"
  /\ ~is_closed /\ number_of_points >= 1
  /\ Drained
  /\ IoFault
  /\ \E trailer \in TrailerBytes :
       LET done   == AfterDone(stream, trailer)
           evlrs  == AfterEvlrs(done)
           header == AfterHeader(evlrs, done.pos)
           info   == ClosedInfo(done.pos)
       IN  \/ /\ stream' \in AfterFailedDone(stream, trailer)
                               \cup TornWrite(done)
                               \cup TornWrite(AfterHierarchy(done))
                               \cup {evlrs}
                               \cup TornWrite(Seek(evlrs, Start))
              /\ UNCHANGED copc_info
           \/ /\ stream' \in TornWrite(header) \cup {AfterInfo(header, info)}
              /\ copc_info' = info
  /\ close_failed' = TRUE
  /\ CloseReturns("IoError")
  /\ UNCHANGED <<is_closed, octreeVars, open_chunks, hierarchy, chunkVars,
                 number_of_points, result, via, num_points, batch, taken>>

\* The caller drops the writer.
DropWriter ==
  /\ pc = "idle"
  /\ via' = "drop"
  /\ pc' = Dropping
  /\ UNCHANGED <<is_closed, octreeVars, fileVars, statVars,
                 result, num_points, answer, ghostVars>>

-----------------------------------------------------------------------------
\* The steps of a call of write or drop that is under way.
Running ==
  \/ EndOfPoints
  \/ Unwind
  \/ \E p \in Points : Reject(p) \/ AddPoint(p)
  \/ CloseRefused
  \/ \E k \in VoxelKeys : DrainChunk(k) \/ DrainFails(k)
  \/ CloseFinish
  \/ CloseFinishFails

Next ==
  \/ \E n \in NumPoints : CallWrite(n)
  \/ Running
  \/ DropWriter

Spec == Init /\ [][Next]_vars

\* A call that is under way is run to its end by the thread that made it.
FairSpec == Spec /\ WF_vars(Running)

-----------------------------------------------------------------------------
(* Properties.                                                             *)

Valid(p) == p \in Matching /\ InRootBounds(p)

Chunks == { b \in stream.disk : "points" \in DOMAIN b }

WrittenKeys == { hierarchy[i].key : i \in DOMAIN hierarchy }

Entries ==
  [key : VoxelKeys, offset : Nat, byte_size : Int, point_count : Nat]

OctreeTypeOK ==
  /\ nodes \subseteq VoxelKeys
  /\ point_count \in [VoxelKeys -> Nat]

FileTypeOK ==
  /\ open_chunks \in [VoxelKeys -> SUBSET Points]
  /\ hierarchy \in Seq(Entries)
  /\ stream.pos \in Nat
  /\ chunk_start_pos \in Nat
  /\ current_chunk \subseteq Points
  /\ stale_count \in Nat
  /\ chunk_table \in Seq([point_count : Nat, byte_count : Int])

StatTypeOK ==
  /\ number_of_points \in Nat
  /\ copc_info \in [gpstime_minimum : Int, gpstime_maximum : Int,
                    root_hier_offset : Nat, root_hier_size : Nat,
                    root_points : Nat]

CallTypeOK ==
  /\ is_closed \in BOOLEAN
  /\ pc \in {"idle", "adding", "closing", "dropped"}
  /\ via \in {"write", "drop"}
  /\ num_points \in Int
  /\ result \in Results
  /\ answer \in Answers
  /\ batch \subseteq Points /\ taken \subseteq Points
  /\ faults \in Nat
  /\ close_failed \in BOOLEAN

(***************************************************************************)
(* The types of the writer's state, field by field.                        *)
(***************************************************************************)
TypeOK == OctreeTypeOK /\ FileTypeOK /\ StatTypeOK /\ CallTypeOK

(***************************************************************************)
(* Every entry of the hierarchy leads to its chunk: at the entry's offset, *)
(* in its whole length, lies a chunk of as many points as the entry says,  *)
(* all of them inside the entry's voxel.  This is what the reader trusts   *)
(* when it seeks to entry.offset and decompresses entry.point_count        *)
(* points.  The compressor's positions and the writer's counts must agree  *)
(* through every chunk and the rewriting of the header.                    *)
(***************************************************************************)
EntriesLocateChunks ==
  faults = 0 =>
    \A i \in DOMAIN hierarchy :
      \E b \in Chunks :
        /\ b.at = hierarchy[i].offset
        /\ b.len = hierarchy[i].byte_size
        /\ Cardinality(b.points) = hierarchy[i].point_count
        /\ \A p \in b.points : hierarchy[i].key \in Home[p]

(***************************************************************************)
(* As long as no write fails, every point the writer took, that matches    *)
(* the format, lies in the root and can be encoded, is in exactly one      *)
(* place: a chunk still open or a chunk on disk.  The documentation of     *)
(* write says these points "are written regardless" of invalid ones.       *)
(***************************************************************************)
EveryPointOnce ==
  faults = 0 =>
    \A p \in Points :
      Cardinality({ k \in VoxelKeys : p \in open_chunks[k] })
        + Cardinality({ b \in Chunks : p \in b.points })
      = IF p \in taken /\ Valid(p) /\ p \in Encodable THEN 1 ELSE 0

\* The points the file has to keep.
Accepted == { p \in taken : Valid(p) /\ p \in Encodable }

(***************************************************************************)
(* Also when writes fail and calls follow: a point is in one place at      *)
(* most, a buffer, the chunk the compressor has begun, or a chunk on disk, *)
(* and only if it was accepted.  A chunk that fails has left its buffer,   *)
(* and a close that fails takes all buffers with it, so the next call may  *)
(* lose points but writes none again.                                      *)
(***************************************************************************)
NeverTwice ==
  /\ \A k \in VoxelKeys : \A p \in open_chunks[k] :
       /\ p \in Accepted /\ p \notin current_chunk
       /\ \A j \in VoxelKeys : p \in open_chunks[j] => j = k
       /\ \A b \in Chunks : p \notin b.points
  /\ \A b \in Chunks : \A p \in b.points :
       /\ p \in Accepted /\ p \notin current_chunk
       /\ \A c \in Chunks : p \in c.points => c = b
  /\ current_chunk \subseteq Accepted

(***************************************************************************)
(* A node is written once: no two entries have the same key, and a node    *)
(* that has an entry has no open chunk.  The reader keeps one entry per    *)
(* key, so a second chunk of a node would hide the first.  An error in     *)
(* close that leaves the writer open, with a second write, breaks this.    *)
(***************************************************************************)
OneEntryPerNode ==
  ~close_failed =>
    /\ \A i, j \in DOMAIN hierarchy :
         hierarchy[i].key = hierarchy[j].key => i = j
    /\ \A k \in WrittenKeys : open_chunks[k] = {}

(***************************************************************************)
(* No node holds more than max_node_size points, in memory or on disk,     *)
(* whichever strategy put them there and in whatever order they came.      *)
(***************************************************************************)
NodeSizeLimit ==
  /\ \A k \in VoxelKeys : point_count[k] <= max_node_size
  /\ faults = 0 => \A i \in DOMAIN hierarchy :
                     hierarchy[i].point_count <= max_node_size

(***************************************************************************)
(* Under the greedy strategy the hierarchy has a node's parent before the  *)
(* node.  The reader looks for children only below keys it finds, so an    *)
(* entry without its parent cannot be read.                                *)
(***************************************************************************)
ParentsFirst ==
  ~close_failed =>
    \A i \in DOMAIN hierarchy :
      hierarchy[i].key.level > 0 =>
        \E j \in 1 .. (i - 1) : hierarchy[j].key = Parent(hierarchy[i].key)

(***************************************************************************)
(* The file of a closed writer can be opened: the header on disk leads to  *)
(* the hierarchy evlr, which holds exactly the writer's entries, the info  *)
(* vlr has the place and the size of its data, and the offset reserved in  *)
(* front of the chunks leads to the chunk table.  close writes all this    *)
(* on both sides of the chunks, from positions it has to keep track of.    *)
(***************************************************************************)
ClosedFileOpens ==
  is_closed /\ faults = 0 =>
    \E h, e, i, t \in stream.disk :
      /\ h.at = Start /\ "start_of_first_evlr" \in DOMAIN h
      /\ h.number_of_evlrs = 1 + ForwardedEvlrs
      /\ e.at = h.start_of_first_evlr /\ "page" \in DOMAIN e
      /\ e.page = hierarchy
      /\ i.at = Start + HeaderBytes /\ "info" \in DOMAIN i
      /\ i.info.root_hier_offset = e.at + 60
      /\ i.info.root_hier_size = e.len - 60
      /\ "table" \in DOMAIN t /\ t.table = chunk_table
      /\ TableOffset(t.at) \in stream.disk

\* What can be found on the disk alone: the points of the chunks of those
\* entries all of whose ancestors have entries too.
Published ==
  UNION { UNION { b.points : b \in { c \in Chunks : c.at = e.offset } } :
    e \in UNION { { h.page[i] : i \in { j \in DOMAIN h.page :
                        Ancestors(h.page[j].key)
                          \subseteq { h.page[m].key : m \in DOMAIN h.page } } } :
            h \in { b \in stream.disk :
              "page" \in DOMAIN b /\ \E header \in stream.disk :
                /\ header.at = Start
                /\ "start_of_first_evlr" \in DOMAIN header
                /\ header.start_of_first_evlr = b.at } } }

Store == INSTANCE CopcStore
  WITH accepted  <- Accepted,
       published <- IF is_closed THEN Published ELSE {},
       final     <- is_closed,
       broken    <- faults > 0

(***************************************************************************)
(* The writer implements the abstract file: what close publishes, found    *)
(* from the header through the hierarchy to the chunks, is what the calls  *)
(* of write accepted, and it appears at once and for good.  Only the       *)
(* greedy strategy keeps this: see EveryWrittenPointRoundTrips.            *)
(***************************************************************************)
ImplementsStore == Store!StoreSpec

(***************************************************************************)
(* A write that returns Ok has written what it counted: the header's       *)
(* number of points is the number of points in the chunks on disk.         *)
(***************************************************************************)
HeaderCountsPoints ==
  is_closed /\ answer = "Ok" /\ ~close_failed =>
    \A h \in stream.disk : "number_of_points" \in DOMAIN h =>
      h.number_of_points = Cardinality(UNION { b.points : b \in Chunks })

(***************************************************************************)
(* The result of write tells what the iterator held: Ok only if no point   *)
(* was turned away, and a point of the wrong format takes precedence over  *)
(* one out of bounds, in whatever order they came.                         *)
(***************************************************************************)
ResultPrecedence ==
  pc = "idle" /\ answer \in {"Ok", NotMatching, NotInBounds} =>
    answer = IF \E p \in batch : p \notin Matching THEN NotMatching
             ELSE IF \E p \in batch : ~InRootBounds(p) THEN NotInBounds
             ELSE "Ok"

(***************************************************************************)
(* No I/O error of a call of write is swallowed: it is what close returns, *)
(* or it ends the loop over the points, and neither the error of another   *)
(* point nor an error of close takes its place.                            *)
(***************************************************************************)
ErrorsSurface ==
  [][ via = "write" =>
        /\ faults' > faults =>
             IF pc' = "idle" THEN answer' = "IoError" ELSE result' = "IoError"
        /\ pc = "closing" /\ pc' = "idle" /\ result = "IoError" =>
             answer' = "IoError" ]_vars

(***************************************************************************)
(* A writer that is gone has closed its file, if it has counted a point    *)
(* and no write failed: also one dropped by a panic in the iterator.       *)
(***************************************************************************)
DropCloses ==
  pc = "dropped" /\ number_of_points > 0 /\ faults = 0 => is_closed

(***************************************************************************)
(* A closed file is final: no later call of write and no drop touches the  *)
(* stream or the entries again.                                            *)
(***************************************************************************)
ClosedIsFinal ==
  [][is_closed => is_closed' /\ UNCHANGED <<stream, hierarchy>>]_vars

(***************************************************************************)
(* A call of write or drop comes back, whatever fails in it.               *)
(***************************************************************************)
CallsReturn == pc \in {"adding", "closing"} ~> pc \in {"idle", "dropped"}

(***************************************************************************)
(* Points that can be written reach the file: once any is taken, the       *)
(* writer ends up closed with all of them in chunks, whether the iterator  *)
(* goes on, meets a point it cannot encode or that is in no child of the   *)
(* root, or panics; unless a write to the stream fails.                    *)
(***************************************************************************)
Writable ==
  { p \in taken : Valid(p) /\ p \in Encodable /\ Home[p] # {Root} }

TakenPointsReachFile ==
  Writable # {} ~>
    \/ is_closed /\ Writable \subseteq UNION { b.points : b \in Chunks }
    \/ faults > 0
=============================================================================
