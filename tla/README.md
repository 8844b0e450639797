# A TLA+ model of copc-rs

copc-rs reads and writes COPC files: LAZ files whose points are ordered in an
octree, one compressed chunk per octree node, with a table of the nodes (the
hierarchy) in an extended variable length record behind the points.

This directory models the construction of a writer, the writer, the reader and
the two on one stream, checks the models with TLC, and proves with TLAPS the safety
properties of the writer, its construction, the reader and the round trip. Paths like
`writer.rs:618` stand for `src/src/writer.rs`, line 618.

## Inventory of the system

| component | code | state | operations | in the model |
|---|---|---|---|---|
| octree | `copc.rs` 79-156 (VoxelKey), 255-283 (OctreeNode); `writer.rs` 847-855 | none of its own: keys, bounds, containment | `child`, `children`, `bounds`, `is_full`, `bounds_contains_point` | `CopcOctree` |
| writer: adding points | `writer.rs` 376-534, 618-832 | `root_node` (the octree with a count per node), `open_chunks` (one byte buffer per node that is not written), `hierarchy` (entries of written nodes), `header` (its point count), `copc_info` (GPS time range) | `write` with `write_greedy` or `write_stochastic`, `add_point_greedy`, `add_point_stochastic`, `get_random_weighted_index` | `CopcWriter`; its loops, one turn a step, in `CopcWalk` |
| writer: closing | `writer.rs` 536-616, 834-845 | `is_closed` | `close`, `drop` | `CopcWriter` |
| compressor | `compressor.rs` | the position of the stream, `start_pos`, `chunk_start_pos`, `chunk_table` | `new`, `compress_chunk`, `done` | `CopcCompressor` |
| writer: construction | `writer.rs` 52-374 | builds all of the above | `from_path`, `new`: node sizes, records, CRS, bounds, point format, header | `CopcWriterNew` |
| reader: opening | `reader.rs` 28-146 | `start`, `header`, `copc_info`, `hierarchy_entries` (a map from key to entry) | `new`: vlrs, evlrs, hierarchy pages | `CopcReader` |
| reader: queries | `reader.rs` 161-322 | the walk's stack and the nodes it found | `points`, `load_octree_for_query` | `CopcReader` |
| reader: iterator | `reader.rs` 362-415 | `nodes` (a stack), `node_points_left`, `total_points_left` | `PointIter::next`, `size_hint` | `CopcReader` |
| decompressor | `decompressor.rs` | `start`, the position of the stream, the state of the record decompressor | `new`, `source_seek`, `decompress_one` | `CopcReader` (the variable `decompressor`) |
| COPC records | `copc.rs` 16-77, 158-253 | none | reading and writing fields in order | what the fields mean, and how many entries a page has |
| errors | `error.rs` | none | | every error that is returned somewhere |
| library root | `lib.rs` | none | re-exports, default node sizes | the defaults, in `CopcWriterNew` |
| examples | `examples/` | none | a reader and a loop over one query each | no: behaviours of `CopcReader` |
| las, laz, crs-definitions, fastrand | external crates | | | what the code relies on |

**How they interact.** A writer owns one compressor, and the compressor owns the
stream. The writer calls `compress_chunk` when a node is full and while it
closes, and moves the stream itself (`get_mut`) to write the hierarchy, the
header and the info record in `close`. The two keep their own ideas of where
the stream is. The writer is handed an iterator by its caller, which it pulls
one point at a time: the caller's code runs inside `write`, and may panic. A
reader shares nothing with a writer but the file (`CopcRoundTrip`): what it relies on is that an
entry's offset, length and count are those of a chunk, that the header leads
to the hierarchy, that a key has one entry, and that a node's parent has one.

**What is hard here.** There are no threads; the hazards are long sequences of
calls and failures between their steps. A point's bytes pass through a buffer
that several calls of `add_point_*` create, extend, take out and compress; the
order of the iterator decides which node they end in. Two strategies with two
different tests for a full node work on the same octree. The reader computes positions
from four bases (the source, the start of the data, the root page, a chunk),
moves the source in four places and keeps two counters side by side; an iterator
may be dropped in the middle of a chunk and leaves the source there. `close` drains a hash
map in an arbitrary order, and writes to both ends of a stream. Any write may
fail, and what happens then (a writer left open, drained buffers gone, a stream
at a strange place) meets the next `write` or the `close` of `drop`.
`PROJECT.json` lists each of these under `hazards`, with its line.

**What makes each component correct.**

- octree: a child lies in its parent, a walk reaches every voxel of a point, in
  a fixed order; the eight children cover their parent (they do not, by a
  rounding error: see *What the code does not do*).
- adding points: every valid point goes to exactly one node; no node grows
  beyond its limit; a node is written once; an entry says what its chunk is.
- closing: the file of a closed writer can be opened; the header counts what is
  there; errors reach the caller; a closed file is not touched again; a writer
  that is dropped, also by a panic, closes its file.
- compressor: `chunk_start_pos` is where the next chunk starts.
- construction: whatever is accepted gives a writer whose assumptions hold and a
  header a reader understands; nothing is written before every argument is checked.
- opening: the map holds the entries of all pages; a file that starts behind
  position 0 opens like any other.
- queries: exactly the nodes that meet bounds and levels, in the order of their
  offsets; the iterator returns each of their points once, and ends.

## Modules

`CopcOctree` has no state. A voxel key is a level and an index per axis. The
code treats its three axes alike, so their number is a constant; coordinates
are grid points, which makes every voxel face a grid line. One rounding error
of the code does not disappear on any grid, that of the uppermost voxel faces:
it is the constant `FaceGap`. The walks of the writer are loops over a stack.
What they do depends only on which of the point's voxels they pass and in which
order, so they are stated as a set, `VoxelsOf`, and an order, `VisitedBefore`.

`CopcCompressor` is the compressor and the stream under it. The stream is a
position and a set of blocks; a block knows where it lies, how long it is and
what it holds. Writing a block removes the blocks it overlaps, so a chunk that
is overwritten is lost, and found missing. What the laz crate makes of points is
external: a chunk has some length, and finishing may leave a trailer.

`CopcWriter` composes the two. Its variables are the fields of the struct, by
their names; the octree is the set of its `nodes` and their `point_count`.
`open_chunks` holds, instead of bytes, the points they encode. `pc` says what
runs: nothing (`idle`), a loop over points (`adding`), `close` (`closing`), or
nothing any more (`dropped`). `via` says whether `close` will return to `write`
or to `drop`.

| action | code | one step is |
|---|---|---|
| `CallWrite` | `writer.rs` 405-417 | the entry of `write`, with the test of `is_closed` |
| `Reject` | 463-475, 495-511 | a point of the wrong format or out of bounds |
| `AddPoint` | 477-481, 512-533 with `AddPointGreedy` 618-706, `AddPointStochastic` 708-803 | one point, through the walk to its node, with the chunk it may complete |
| `EndOfPoints` | 480-482, 534 | the end of the iterator |
| `Unwind` | caller | a panic in the iterator, which drops the writer |
| `CloseRefused` | 538-543 | the tests `close` begins with: the writer is closed, or no point is counted |
| `DrainChunk`, `DrainFails` | 545-558 | one chunk of the drain, in any order |
| `CloseFinish`, `CloseFinishFails` | 560-616 | the rest of `close`, `done` included |
| `DropWriter` | 834-845 | the caller drops the writer |

A failing action has one outcome for every place the error may strike. `IoError`
stands for what the stream raises, also where the las crate wraps it in an error of
its own, and in `close` for a record that cannot be made (`writer.rs` 575-607), which
fails like one of which no byte is written. A chunk that was cut short holds no point a
reader could find; if only the position behind a chunk cannot be told (`compressor.rs:59`)
its points are on disk, but its entry in the chunk table is not reset, and `stale_count` is
what it goes on counting. After a failed `done` the stream may be in front of
`chunk_start_pos`; the length of the next chunk is then an unsigned difference below zero
(`compressor.rs:60`), on which no property relies. The random choice of the stochastic strategy is a choice among all nodes some
random number leads to (`Drawn`), so that the properties hold for every seed.

The variables at the end of the list are not in the code: `batch` and `taken`
remember which points were handed over, `faults` how many writes failed,
`close_failed` whether one of them ended `close`.

`CopcWriterClaims` states what the documentation promises of the writer and the
code does not keep.

`CopcStore` is the abstract file: a set of accepted points, published all at
once and then final; after an I/O error nothing is promised. `CopcWriter`
instantiates it with what can be found on the disk alone, from the header over
the page and its entries to the chunks (`Published`), and `ImplementsStore` is
the refinement.

`CopcWalk` refines `CopcWriter` in the other direction: the loops of
`add_point_greedy` (`writer.rs` 637-677) and `add_point_stochastic` (720-753)
are steps of their own. `StartWalk` puts the root on `nodes_to_check`; `Skip`,
`Descend` and `Collect` are one turn of a loop; `Found`, `NotFound` and `Choose`
end the walk and are the step `AddPoint` of the writer; `FallBack` starts the
greedy walk when no candidate is left. The nodes a walk creates are kept in
`grown` and join the writer's `nodes` when it ends: nobody can look at the
octree in between.

`CopcWriterNew` is the construction as a sequence of checks, `step` being the
one that comes next: `FromPath`, `FromPathFails` or `OnStream` (`writer.rs`
56-86, 116), `CheckSizes` (119-133), `CollectRecords` (139-175), `FindCrs`
(186-217), `CheckBounds` (219-226), `CheckFormat` (228-281), `BuildHeader` (283-321),
`WriteHeader` (323-374). The las and laz libraries may refuse the header in `CheckFormat`,
and in `BuildHeader` its parts; no byte is written by then. `WriteHeader` may fail in the middle,
on the stream (`Io`), on a record that cannot be encoded (`LasError`, which also wraps errors of
the stream) or on the items of the compressor (`LasZipError`), and leave a header that is `torn`
or whole. An argument is chosen where the code first looks at it. Records are
known by the ids the code matches on; `RecordsOfFile` is what a reader will
find, with the hierarchy that `close` puts in front of the forwarded evlrs.

`CopcReader` is the reader, its iterator and the decompressor. A source has the
form `CopcCompressor` gives a stream: a position and blocks. Bytes read where no
block of the expected kind lies could be anything; the reader is then in phase
`garbage`, about which nothing more is said, and which the properties forbid.

| action | code | one step is |
|---|---|---|
| `Open` | `reader.rs` 38-119 | header, vlrs, evlrs, the info record, the root page |
| `PopEntry` | 121-131 | one entry taken from the page: stored, or replaced by its child page |
| `EndPages` | 132-145 | the laszip vlr is looked up, the source is left at the points |
| `OpenFails` | 40-137 | a seek or read fails in `new` |
| `Query` | 161-203 | the entry of `points`, with the range of levels |
| `Visit` | 205-240 | one turn of the walk: a key is popped, its children pushed |
| `EndWalk`, `EndWalkFails` | 242-294 | the sort, the counters, the seek, the decompressor |
| `CallNext` | 377-380 | the caller asks for a point |
| `NextNode`, `NoMoreNodes` | 383-390 | `source_seek` to the next chunk, or `None` |
| `DecodePoint` | 392-408 | one point, returned or skipped |
| `DecodeGarbage` | 392-397 | there is no chunk, or no point left in it |
| `NextPanics` | 386-394 | an error is unwrapped; the iterator is gone |
| `DropIter` | caller | the iterator is dropped, anywhere between two calls |

`returned` (how often a point was returned), `done` and `read_faults` are not in
the code. `answer` is what the last call returned.

`CopcRoundTrip` composes `CopcWriter` and `CopcReader` on the variable `stream`:
once the writer is dropped and its file closed, a reader opens the stream. `close`
leaves the stream at the start of the data (`writer.rs:611`), where the reader
begins.

The `MC` modules give the constants of the instances. Eight modules hold the
theorems; in a row each extends the one before it, `CopcWalkProofs` extends
`CopcWriterProofs`, and `CopcRoundTripProofs` extends `CopcRoundTrip` and
`CopcWriterFile` and instantiates `CopcReaderIteration` on the writer's stream:

| modules | theorems about |
|---|---|
| `CopcWriterProofs`, `CopcWriterFile` | the writer: types, results of calls and nodes; chunks, points, the layout of a closed file and `CopcStore` |
| `CopcWalkProofs` | the loops of both walks, and that they implement the writer |
| `CopcWriterNewProofs` | the construction |
| `CopcOctreeProofs`, `CopcReaderProofs`, `CopcReaderIteration` | lemmas on keys and voxels; the reader: types, pages, positions; queries, iterators and files that tell the truth |
| `CopcRoundTripProofs` | the reader on the writer's files |

## Runs

All instances with an octree have two axes and a root of side 8. Nodes hold at
most two points, so that three points on one spot reach a third level. The points
are hand-picked: three or four in one voxel of level 2, one on the corner that
four voxels share, one outside the header's bounds but in the root, one outside
the root, one on its upper face. A writer takes its points in every order and
stops anywhere.

| run | instance | what it shows |
|---|---|---|
| `greedy` | seven points, one of the wrong format and one out of bounds | octree, buffers, entries and stream agree at every step; the file of a closed writer opens; the result of `write` does not depend on the order of the points; the writer implements `CopcStore` |
| `stochastic` | four points, `num_points` 0, 3 and 11: the greedy strategy, one level and two levels below the root; more points than announced, so that a call changes over to the greedy walk | points go to one node, no node overflows, entries lead to chunks, whatever is drawn |
| `faults` | four points, one of which cannot be encoded and one of which lies in a rounding gap; one write to the stream fails, anywhere | no point is in two places, errors surface, a drop closes what it can, a closed file stays, calls come back, points reach the file |
| `walk` | four points, `num_points` 0, 3 and 11, a rounding gap | the loops do what `CopcWriter` says in one step, meet no node twice, and end |
| `construction` | every header of at most two vlrs and two evlrs of seven kinds, all eleven formats, sizes on both sides of the defaults | accepted arguments give a writer its assumptions and a header with one record of each kind; no byte is written before every argument is checked, whatever fails then |
| `reader` | nine files: whole at position 0 and at 3, without a record, with a page too short, with a child page where the format has it, with one where the reader looks for it (`FoundPage`), with an entry that counts too many points; thirteen queries; one failing read | pages, walk, sort, seeks and counters: a query finds exactly its nodes, an iterator returns exactly their points in bounds, after any earlier query broken off anywhere |
| `round_trip` | five points, the greedy strategy, three full resolution queries | what is written comes back, and the header counts it |
| `claim_*` | small instances of the same modules | see *What the code does not do* |

**Bounds.** `MaxLevel` bounds the depth (in the code `2_u32.pow(level)`, `copc.rs:141`, overflows at
level 32): with `WithinDepth` in its guard, a writer stops before a point would go deeper. Two full
levels above the lowest one are enough for a parent that is full before, and
one that fills after its child was created. `faults` needs no more than one
level below the root: what fails is the stream, not the walk. `MaxFaults` and
`MaxReadFaults` are one: a failure is followed by every sequence of calls, and a
second one adds no new place to fail. Calls of `write` and queries are not
bounded; a point can be handed over once, so the state space is finite. Two axes
give every node four children and a shared corner; the third adds only more of
the same, since no operator tells axes apart. `ChunkBytes`, `VlrBytes` and the
other lengths are small and different, so that a wrong position is never right by
chance. `Scale` is 2 on coordinates up to 9, so that points, bounds and voxel
faces are rounded, and halves occur; `RawMax` is such that one query has bounds
that cannot be encoded. `MaxRecords` is two: two records of a kind, or one on
each side, is what could confuse a reader. `Start` is 0, except in `claim_start`;
the reader's own files start at 0 and at 3.

No run has a deadlock check: a writer stops when it is dropped, a reader when it
could not be opened, a construction when it returned.

**Fairness.** `CopcWriter!FairSpec` asks for weak fairness of `Running`, the steps
inside a call of `write` or `drop`: the thread that made the call runs it to its
end, and iterators are finite. It does not ask a caller to call anything, to drop
its writer, or a point to succeed; which of the enabled steps is taken stays open.
`CopcReader!FairSpec` asks the same for the steps inside `new`, `points` and `next`
that do not fail, and that a caller that loops over an iterator calls `next`
again; it may still break out of the loop. `WalkSpec` asks it for the turns of a
walk.

## Proofs

The theorems hold for every set of points, positions, node sizes, lengths,
depths and files, and any number of failing writes and reads. They assume what the
constants' assumptions say: `1 <= min_node_size < max_node_size`, which `new`
enforces (`writer.rs:119`), a finite set of points, positive lengths; of the files
a reader is given, that blocks have the form of blocks, chunks do not overlap,
and no two entries with points lead to one place (`FilesAssumption`); of queries, that
bounds and levels are numbers (`QueriesAssumption`). The theorems about the round trip assume
nothing of files: that what the writer closes is such a file is part of them.

### The writer

- `TypeCorrect` (`CopcWriterProofs`): `Spec => []TypeOK`. The invariant is
  inductive as it stands; one lemma per part of an action carries it.
- `ClosedFilesStay`: `Spec => ClosedIsFinal`, from the invariant that nothing runs
  in a closed writer (`ClosedIsAtRest`).
- `DroppedWritersClose`: `Spec => []DropCloses`, which is inductive as it stands
  because `close` can refuse only an empty file or fail.
- `IoErrorsReachTheCaller`: `Spec => ErrorsSurface`. A `result` that is an I/O
  error implies a counted fault (`IoErrorsAreCounted`), and no step between the
  error and the return replaces it.
- `ResultsTakePrecedence`: `Spec => []ResultPrecedence`. The strengthening
  `VerdictKept` says, while a call runs, what `result` says of the points taken
  so far.
- `NodesWrittenOnce`: `Spec => []OneEntryPerNode`. Alone
  this is not inductive: a point might come to a node already written. The
  strengthening `WrittenOnce` adds that a node with an entry is full as long as
  points may come, and that a walk never ends in a full node. It needs to say
  why a writer whose `close` returned an error may go on: `EmptyCopcFile` comes
  only if there is no entry yet; every other error sets `close_failed`.
- `GreedyWritesParentsFirst`: if every call is greedy, `Spec => []ParentsFirst`.
  The strengthening `ParentsWritten` says that a full node has its entry and that
  a node with a buffer has a written parent: the greedy walk passes only full
  nodes.
- `NodesKeepTheirSize`: `Spec => []NodeSizeLimit`. The strengthening `SizesAgree`
  bounds the points of a buffer by the count of its node; this needs the
  compressor's chunk to be empty between two chunks.
- `EntriesLeadToChunks` (`CopcWriterFile`): `Spec => []EntriesLocateChunks`. The
  strengthening `OnDisk` has four parts. `OpenFile`: while the file is open
  `chunk_start_pos` is the position of the stream, nothing lies behind it, the
  chunks lie behind the offset of the chunk table, and each has its entry; so
  a chunk is written behind all others, and what `close` writes, on both sides of
  the chunks, overwrites none. `BuffersAtHome`: a buffer holds points of its voxel.
  `NeverTwice`, which is the theorem `NoPointTwice`: a point is in one buffer or one
  chunk, and was accepted. It is an invariant without conditions on `faults`: a chunk that fails has left
  its buffer, a drain that fails takes all buffers with it (`DrainDropped`), so whatever a later call writes,
  it is not one of these points again. The other parts of `OnDisk` hold as long as no write has
  failed. The proof sorts the steps by what they do to buffers and
  chunks (`LeavesFile`, `Buffers`, `Fills`, `Drains`, `Closes`, `Breaks`): one lemma says
  that every action of `Next` is one of these, one lemma for each kind that it preserves
  the invariant.
- `PointsAreKeptOnce`: `Spec /\ [](result # NotAdded) => []EveryPointOnce`, which
  adds `Kept`, that no accepted point is lost. The hypothesis is needed: a point
  may find no node by a rounding error, see `claim_finds_node`.
- `PointsFindNodes` (`CopcWriterProofs`): if no point lies in a rounding gap
  (`NoPointInAGap`), `Spec => [](result # NotAdded)`, under both strategies: the two
  theorems above and below that assume it hold of every behaviour then. The children of a node
  cover it up to the rounding of the uppermost faces (`ChildrenCover`), so a walk that passes full
  nodes only goes down to the lowest level, where `WithinDepth` lets no node be full. That
  the walk can pass a full node needs `CountedNodesExist`: a node that counts points
  was created, by whichever strategy.
- `ClosedFilesOpen`: `Spec => []ClosedFileOpens`. The blocks `close`
  writes do not overlap; only the last step of `close` makes the writer closed,
  and after it nothing is written.
- `HeadersCountPoints`: `Spec => []HeaderCountsPoints`, by the invariant
  `CountsSoFar`: while the caller may still get an `Ok`, no write has failed, no
  accepted point is lost, and `number_of_points` counts them. A call that leaves the
  writer open has counted none, which is why earlier calls do no harm.
- `WriterImplementsStore`: if every call is greedy, `Spec /\ [](result # NotAdded)
  => ImplementsStore`: each step of the writer is a step of `CopcStore` or leaves
  its variables alone. What can be found on the disk (`Published`) is compared
  with what was accepted, so the proof needs that every entry can be reached from the
  root: `AncestorsWritten`, that all nodes above an entry or a buffer have entries. Under the
  stochastic strategy it is false (`claim_round_trip`).

### The walks

`CopcWalk` runs the loops of `add_point_greedy` and `add_point_stochastic` turn by
turn; the proofs are in `CopcWalkProofs`.

- `WalksVisitNodesOnce`: `WalkSpec => []StackIsAFrontier`. The invariant `Frontier`
  bounds the depth of every entry by its own level instead of the length by
  `MaxLevel`: the children of the popped top take its place, one level lower. That
  a child is not above another node of the stack is `AboveTheParent`.
- `WalksRefineWriter`: `WalkSpec => ImplementsWriter`, every step of a loop is a stutter
  of `CopcWriter` or its `AddPoint`. So every theorem about the writer holds of
  the loops. The invariant `WalkInv` has, besides the writer's own parts,
  - `Fits`: the stack against the nodes R the writer says the walk comes to. Every
    entry lies below R, an entry nearer to the top branches off before those
    further down, and all nodes of R that have been passed come before what is
    left (`VisitedBefore`). A popped node with nothing of R below it leaves `Passed`
    alone (`PoppedFits`); one that makes way for its children adds just itself
    (`ExpandedFits`).
  - `GreedyState` and `StochasticState`: the nodes created so far are the children
    of the nodes passed, and the candidates are those passed that are not full,
    in order.
  - `Tree`: a node has its parent and all its siblings. Without it the loops, which
    ask a node for its children, and the writer, which asks for nodes, could
    disagree about what is there.

  At the end of the greedy walk, then, the top of the stack is the first node that
  is not full (`FoundAdds`), or all are full (`NotFoundAdds`); at the end of the
  stochastic one the candidates are the sequence the writer draws from
  (`CollectedInOrder`, `ChooseAdds`).

### The construction

- `NewMakesWriters` and `OnlyCheckedBytesAreWritten` (`CopcWriterNewProofs`):
  `Spec => []WriterAssumptions`, `Spec => []BytesAreChecked`, for all sizes,
  records, formats and counts, from the invariant `Checked`: what each step has
  found still holds. The first discharges the assumption on the node sizes that
  the theorems about `CopcWriter` rest on.
- `ReadersFindOurRecords`: `Spec => []ReaderFindsOurs`, for headers with any number of
  records. `RecordsSorted` says that the records passed on are neither the writer's own nor a
  geotiff CRS, and that a WKT CRS is among them once the search for one is over.
  What the loop passes on is a fold; that it keeps just the records that pass (`KeptPass`)
  is shown along the prefixes of the source's records (`KeptOfPrefixes`).
- `FilesHaveAWktCrs`: `Spec => []CrsIsWkt`, from the same invariant.
- `PointLengthsAlwaysAgree`: `Spec => []PointLengthsAgree`, for any number of extra
  bytes. `LengthsChecked` says what is known of the lengths when the header is written; the
  items of the laszip vlr sum up to the same (`ItemsOfPoint`).

### The octree

`CopcOctreeProofs` has the lemmas. `n \div 2^(m + 1)` is half of `n \div 2^m`
rounded down, so the ancestors of a child are its parent and the ancestors of
that; a key that is below another and not the same is below one of its children
(`BelowAChild` and its kin). The children of a node cover it, but for the
rounding gap (`ChildrenCover`). A voxel is a box, twice as wide as its
children, and lies in the voxels above it (`VoxelIsInsideAncestors`). The last holds
if a rounding error of an uppermost face is no larger than the smallest voxel
(`GapsAreSmall`), which an f64 keeps for any depth a file can have.

The order in which the walks visit nodes (`VisitedBefore`) never holds both ways
(`VisitedOnce`), and where two nodes branch off, all that is below them does
(`BranchesBelow`, `VisitedBeforeBelow`).

`2^n` is a recursive function to the prover. What the proofs need of it, and of sums over
sets of nodes, follows by induction all the same: not with the library's
theorems, but with a least counterexample in a finite interval (`LeastElement`, `UpTo`).

### The reader

The reader may be given any file, and no property of `CopcReader` but the first
holds for all of them: TLC checks the others on whole files and on files with
one fault each. Each theorem names what of a file or a query it needs.

- `ReaderIsTyped` (`CopcReaderProofs`): `Spec => []ReaderTypeOK`, for every file.
  That neither counter wraps needs `ReaderInv`: the nodes have points, are in
  strictly descending order of their offsets, and `total_points_left` is the
  count of the current node plus the sum over the others.
- `OnePageIsRead`: `Spec => [](OnePage => EntriesComplete)`, for hierarchies of one
  page with one entry per key. `PageInv` says that what is stored and what is
  still to be stored make up the page. With child pages the property is false
  (`claim_child_pages`).
- `GarbageComesFromTheFile`: `Spec => [](IsLasFile(start) => NoGarbage)`, wherever
  the file starts in the source. `ChunkInv` says that the points of the current
  chunk never run out before `node_points_left` does, across iterators broken
  off in the middle of a chunk.
- `QueriesAreExact` (`CopcReaderIteration`): `Spec => [](Answerable => QueryIsExact)`.
  `QueryInv` says of the walk: what it found is selected, and a selected node it
  has not found is below a key on the stack. That a subtree may be skipped
  whose voxel does not meet the bounds is `VoxelIsInsideAncestors`. `Answerable`
  leaves out what the documentation gives no meaning: a box whose corners are
  swapped, and a resolution in a file whose root has no points (`reader.rs:179`).
- `IterationsAreExact`: `PointsStoredOnce /\ Answerable => IterationIsExact`.
  `IterInv` says which points have been returned: those in the bounds of the nodes
  found that are neither in `nodes` nor left in the current chunk.
  `PointsStoredOnce` says that every entry counts its chunk right and no point is in
  two.
- `CountersAlwaysAgree`: under the same conditions, `CountersAgree`: the sum, and that
  it bounds what is still to be returned.
- `PointsInBoundsAlwaysComeBack`: if the points also lie in their voxels,
  `PointsInBoundsComeBack`. Rounding keeps the order of coordinates, so a point
  inside unrounded bounds is inside rounded ones.
- `IteratorsReadForward`: `Spec /\ []EntriesHaveChunks => ReadsForward`. `AheadInv`:
  the nodes left lie ahead of the source, by the order of the nodes and because
  chunks do not overlap.

Every hypothesis holds in reachable states of the run `reader`, for the whole
files at both positions, together with finished iterations that returned points.
For the writer's own files they are proved, see below.

### The round trip

The theorems of `CopcRoundTripProofs` are about `RoundTripSpec`, where a writer writes,
closes and is gone, and a reader opens what lies on the same stream.

- `ClosedFilesAreRead`: `RoundTripSpec => [](faults = 0 => WrittenFilesOpen)`, if
  `Start = 0` and `GapsAreSmall`, under both strategies. The reader opens the file, and every
  seek and read of its walks and iterators finds the record or chunk it looks for.
- `WrittenPointsRoundTrip`: `RoundTripSpec => [](faults = 0 => EveryWrittenPointRoundTrips)`, if
  besides every call is greedy and no point lies in a rounding gap.
- `HeadersCountReadPoints`: under the same conditions,
  `[](faults = 0 => HeaderCountsWhatIsRead)`.

Three of the hypotheses are there because the property fails without them: a start other than 0 in
`claim_start`, the stochastic strategy in `claim_round_trip`, a point in a rounding gap in
`claim_finds_node` (it is valid, and in no node). `faults = 0` says that no write to the
stream has failed, and only that: points that are rejected or cannot be encoded,
calls that end in an error, panics of the iterator and queries in any number and broken off
anywhere are included. `GapsAreSmall` is that of the queries. Behaviours of the
run `round_trip` meet all of them, and end with files that were read in full.

The argument goes through the file.

1. `Layout` (`CopcWriterFile`) is an invariant of the writer that says what is on the disk,
   block by block: while the file is open nothing but the chunks, and the header, the two
   records and the table offset that `new` left (`OpenLayout`); when it is closed the chunks and what `close`
   wrote, each at its offset (`ClosedLayout`, `ClosedDisk`). `ClosedFileOpens` says only that the right
   blocks are there; a reader that takes the first block it finds needs also that
   there is no other (`ChunksApart`, `EvlrsFollow`).
2. Such a disk is a file in the sense of the reader's assumption (`ClosedIsFile`), and it tells the
   truth (`ClosedIsSound`): header, records and hierarchy are found one from the other
   (`HeaderIsFound`, `RecordsAreFound`, `FieldsAreFound`), the page is the only one, it has
   one entry per key, and an entry leads to one chunk with as many points as it says
   (`ChunkOfEntry`).
3. `SoundInv` (`CopcReaderIteration`) is an invariant of the reader on a file that
   tells the truth (`SoundInductive`): it never fails nor finds garbage, and what it has stored
   is what the page lists (`SoundFileIsStored`). So `PointsStoredOnce` holds.
4. `ReadInv` says which of the two is at work: the reader has not started and the stream
   is at its start once the file is closed (`Rewound`), or the writer is gone and the file tells the
   truth. With the writer's side, `FileInv`, it is inductive
   (`OpenInductive`): a step of the one does not disturb what the other relies on.
   `FaultsRemain` carries `faults = 0` back to the state before a step.
5. For the points `PointsInv` adds what the writer's theorems rest on: the chunks of a closed file hold all
   accepted points (`ClosedHoldsAccepted`), the header counts them (`AllCounted`), and the
   ancestors of an entry have entries (`AncestorsWritten`). So every written point is in an entry
   the walk can reach, and in a voxel that contains it by the reader's arithmetic too
   (`AllIsFound`, `HomesHoldPoints`), and `PointsComeBack` of the reader says that it is returned.

`CopcRoundTrip` instantiates `CopcReader`, the proofs instantiate `CopcReaderIteration`:
to the prover two copies of one reader. `SameReader` says that they take the same steps, `SameOctree`
that the octree of each is the writer's.

### Only model-checked

The strengthenings are invariants TLC found true on the instances of `greedy`,
`stochastic`, `faults`, `walk`, `construction`, `reader` and (with four of its points) `round_trip`. A property with a
theorem is checked by a run of its own kind only: the theorem covers the others.

Every invariant of the passing runs, and every action property and refinement, has a
theorem. Beyond TLAPS are the liveness properties (`CallsReturn`, `TakenPointsReachFile`,
`ReaderReturns`, `WalksEnd`), which rest on fairness and ENABLED: they stay with TLC. So do the claims
below, which are false and need no more than a counterexample.

## What the code does not do

Five claims of the repository are refuted by a run each; `findings` quotes them.

- `claim_round_trip`, `EveryWrittenPointRoundTrips`: the stochastic strategy can
  leave a node without points, and so without an entry, above nodes with points.
  The reader does not descend below a missing entry (`reader.rs` 211-214); an
  entry of zero points is what the format foresees for such a node. Under the
  greedy strategy the property holds (`round_trip`).
- `claim_start`, `WrittenFilesOpen`: the writer records positions counted from
  the start of the stream (`writer.rs:562`, `compressor.rs:27`), the reader counts
  them from the start of the data (`reader.rs:76`, `decompressor.rs:36`). The two
  agree at position 0 only. The reader alone is right with files that start
  elsewhere (`NoGarbage` in `reader`).
- `claim_child_pages`, `ChildPagesAreFound`: the position of a child page is taken
  relative to the root page and then used in the file (`reader.rs:124`).
- `claim_gps_times`, `GpsTimeExtremes`: the maximum is compared only for points
  that do not lower the minimum.
- `claim_finds_node`, `EveryPointFindsANode`: the error that "should not be
  possible" is, for a point on the upper face of the root, when rounding puts the
  uppermost face of the children below it.

Smaller ones, seen while modelling and left without a run:

- a point that cannot be encoded ends the call and stays counted in the header,
  though "All points which both match the point format and are inside the bounds
  are added" (`writer.rs:399`);
- nodes smaller than the "hard limit" `min_node_size` are written (99);
- a call of `write` that counts no point leaves the writer open, though "a call
  to write closes the writer" (378);
- the stochastic strategy never writes a full node before `close` (716, 767);
- a point outside the header's bounds but inside the cube around them is accepted
  (470);
- `from_path` truncates an existing file before the header is checked (83);
- the errors `NoCRSDefined` and `EmptyIterator` are never returned;
- `size_hint` gives `total_points_left` as its lower bound, too (`reader.rs:413`),
  though points outside the bounds are skipped;
- a root without points has an infinite spacing in a query by resolution
  (`reader.rs:179`), and the level becomes an i32 that overflows;
- the padding behind the vlrs is taken to be longer than it is for a file that
  does not start at position 0 (`reader.rs:65`).

## Not modelled

The bytes of points and records, the laz coder, floating point but for `FaceGap`
and the rounding of coordinates, the distribution of the random choice (only which
choices are possible), the conversion of a CRS record (only whether it succeeds),
logging, memory. `usize` and `i32` do not overflow in the model: the sum of the
node sizes (`writer.rs:414`) does in the code, for limits beyond `i32::MAX / 2`.
The examples are callers of the reader that `CopcReader` covers.

A source the model calls garbage may in the code give an error, a panic, or an
entry that is none; which one is left open. Two readers on one source and two
writers on one stream do not exist: both own it.

## Plan

1. Done: `CopcOctree`, `CopcCompressor`, `CopcWriter`, `CopcStore`, `CopcWalk`,
   `CopcWriterNew`, `CopcReader`, `CopcRoundTrip` and their runs.
2. Done: the theorems about the writer, up to the refinement of `CopcStore`.
3. Done: the theorems about the reader, about files of one page.
4. Done: the theorems about the walks, up to the refinement of the writer.
5. Done: the theorems about the construction, for headers of any length.
6. Done: the theorems about the round trip, in which those about the writer give the
   hypotheses of those about the reader.

What is left lies beyond these tools (liveness, for every instance) or beyond the abstraction:
the byte layout of records, floating point, the laz coder.
