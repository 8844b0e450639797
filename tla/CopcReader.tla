----------------------------- MODULE CopcReader -----------------------------
(***************************************************************************)
(* The COPC reader (src/src/reader.rs) with its decompressor               *)
(* (src/src/decompressor.rs).  A reader is opened on a seekable source,    *)
(* which loads the pages of the hierarchy; a query walks the octree for    *)
(* the nodes that meet its bounds and levels, and gives an iterator that   *)
(* seeks to each node's chunk and decompresses its points one by one.      *)
(*                                                                         *)
(* The source is a position and a set of blocks, as the writer leaves      *)
(* them.  What is read where no block of the expected kind starts is       *)
(* arbitrary, and so is what the reader does from then on: it is in phase  *)
(* "garbage".  A seek or a read may fail, MaxReadFaults times at most.     *)
(***************************************************************************)
EXTENDS CopcOctree, Sequences, FiniteSets, FiniteSetsExt, SequencesExt

CONSTANTS
  Points,         \* the points that may be in a file
  Position,       \* where a point was before it was encoded
  Scale,          \* the resolution of the header's transforms
  RawMax,         \* the largest coordinate the transforms can encode
  Files,          \* the sources: a position and blocks
  Queries,        \* the queries a caller may pose
  MaxReadFaults   \* bound on the seeks and reads that fail

ASSUME ReaderAssumption ==
  /\ Position \in [Points -> [Axis -> Int]]
  /\ Scale \in Nat \ {0} /\ RawMax \in Nat
  /\ MaxReadFaults \in Nat

\* The corners of a box are what the caller makes them, in any order.
IsQuery(q) ==
  /\ q.bounds \subseteq [min : [Axis -> Int], max : [Axis -> Int]]
  /\ \/ q.levels.select = "All"
     \/ q.levels.select = "Resolution" /\ q.levels.resolution \in Int
     \/ q.levels.select = "Level" /\ q.levels.level \in Int
     \/ /\ q.levels.select = "LevelMinMax"
        /\ q.levels.min \in Int /\ q.levels.max \in Int

ASSUME QueriesAssumption == \A q \in Queries : IsQuery(q)

Entries == [key : VoxelKeys, offset : Nat, byte_size : Nat, point_count : Int]

\* All the entries of a file's pages.
PageEntries(f) ==
  UNION { ToSet(b.page) : b \in { c \in f.disk : "page" \in DOMAIN c } }

IsChunk(b) == "points" \in DOMAIN b

\* The fields of the info vlr the reader looks at.
IsInfo(info) ==
  {info.root_hier_offset, info.root_hier_size, info.root_points} \subseteq Nat

\* A page has 60 bytes of an evlr header and 32 bytes for every entry.
IsBlock(b) ==
  /\ b.at \in Nat /\ b.len \in Nat
  /\ "start_of_first_evlr" \in DOMAIN b => b.offset_to_point_data \in Nat
  /\ "info" \in DOMAIN b => IsInfo(b.info)
  /\ "page" \in DOMAIN b =>
       b.page \in Seq(Entries) /\ b.len = 60 + 32 * Len(b.page)
  /\ IsChunk(b) => b.points \subseteq Points /\ IsFiniteSet(b.points)

\* A well formed file: its chunks do not overlap, and the entries of two
\* nodes with points lead to different places.
IsFile(f) ==
  /\ DOMAIN f = {"pos", "disk"} /\ f.pos \in Nat
  /\ IsFiniteSet(f.disk) /\ \A b \in f.disk : IsBlock(b)
  /\ \A b, c \in f.disk :
       IsChunk(b) /\ IsChunk(c) /\ b # c =>
         b.at # c.at /\ (b.at < c.at => b.at + b.len <= c.at)
  /\ \A e, g \in PageEntries(f) :
       e.point_count > 0 /\ g.point_count > 0 /\ e.offset = g.offset => e = g

ASSUME FilesAssumption == \A f \in Files : IsFile(f)

VARIABLES
  read,               \* the source
  start,              \* where the COPC data starts in it
  copc_info,          \* the content of the info vlr
  page,               \* the entries still to be stored while opening
  hierarchy_entries,  \* the map from keys to entries
  phase,              \* what runs, see Phases
  answer,             \* what the last call of new, points or next returned
  query,              \* the arguments of the last call of points
  node_stack,         \* the keys the walk has still to visit
  satisfying_nodes,   \* the entries it has found
  nodes,              \* the iterator's entries, the next one last
  node_points_left,
  total_points_left,
  decompressor,       \* its start, whether it was just reset, and the points
                      \* of the chunk it has loaded and not returned
  returned,           \* how often the iterator returned each point
  done,               \* has the iterator returned None?
  read_faults         \* the seeks and reads that failed so far

openVars  == <<start, copc_info, page, hierarchy_entries>>
walkVars  == <<query, node_stack, satisfying_nodes>>
countVars == <<node_points_left, total_points_left>>
iterVars  == <<nodes, countVars, decompressor, returned, done>>
vars == <<read, openVars, phase, answer, walkVars, iterVars, read_faults>>

\* "next" is inside a call of next, "iterating" between two of them.
Phases == {"unopened", "failed", "paging", "ready", "walking", "iterating",
           "next", "garbage"}

NoQuery == [levels |-> [select |-> "All"], bounds |-> {}]

ReaderInit ==
  /\ start = 0
  /\ copc_info = [root_hier_offset |-> 0, root_hier_size |-> 0,
                  root_points |-> 0]
  /\ page = <<>>
  /\ hierarchy_entries = <<>>
  /\ phase = "unopened"
  /\ answer = "none"
  /\ query = NoQuery
  /\ node_stack = <<>>
  /\ satisfying_nodes = {}
  /\ nodes = <<>>
  /\ node_points_left = 0 /\ total_points_left = 0
  /\ decompressor = [start |-> 0, fresh |-> FALSE, left |-> {}]
  /\ returned = [p \in Points |-> 0]
  /\ done = FALSE
  /\ read_faults = 0

Init == read \in Files /\ ReaderInit

ReadFault ==
  /\ read_faults < MaxReadFaults
  /\ read_faults' = read_faults + 1

-----------------------------------------------------------------------------
(* The source.                                                             *)

Headers(pos) ==
  { b \in read.disk : b.at = pos /\ "start_of_first_evlr" \in DOMAIN b }

Header(pos) == CHOOSE h \in Headers(pos) : TRUE

\* The vlrs lie between the header and the points.
Vlrs(s) ==
  { b \in read.disk : /\ s + Header(s).len <= b.at
                      /\ b.at < Header(s).offset_to_point_data + s }

FirstEvlr(s) == Header(s).start_of_first_evlr + s

\* The evlrs follow each other from the first one.
Evlrs(s) ==
  { b \in read.disk :
      /\ FirstEvlr(s) <= b.at
      /\ Cardinality({ c \in read.disk : FirstEvlr(s) <= c.at /\ c.at < b.at })
           < Header(s).number_of_evlrs }

AreEvlrs(s) ==
  /\ Cardinality(Evlrs(s)) = Header(s).number_of_evlrs
  /\ \A b \in Evlrs(s) :
       /\ "page" \in DOMAIN b \/ "evlr" \in DOMAIN b
       /\ b.at = FirstEvlr(s) \/ \E c \in Evlrs(s) : c.at + c.len = b.at

IsLasFile(s) == Headers(s) # {} /\ AreEvlrs(s)

\* The records that hold a field; the last one counts, and evlrs lie behind
\* vlrs.
Records(s, field) == { b \in Vlrs(s) \cup Evlrs(s) : field \in DOMAIN b }

LastRecord(s, field) ==
  CHOOSE b \in Records(s, field) : \A c \in Records(s, field) : c.at <= b.at

\* The entries in so many bytes at a place in the file, if there are any.
PagesAt(pos, bytes) ==
  { SubSeq(b.page, (pos - b.at - 60) \div 32 + 1,
                   (pos - b.at - 60 + bytes) \div 32) :
      b \in { c \in read.disk : /\ "page" \in DOMAIN c
                                /\ c.at + 60 <= pos
                                /\ pos + bytes <= c.at + c.len
                                /\ (pos - c.at - 60) % 32 = 0 } }

-----------------------------------------------------------------------------
(* new.                                                                    *)

RootEntries(info) == info.root_hier_size \div 32

Fail(error) == phase' = "failed" /\ answer' = error

\* The header, the records, and the root page from the data of its evlr.
\* Where this leaves the position does not matter: a seek comes before the
\* next read.
Open ==
  /\ phase = "unopened"
  /\ start' = read.pos
  /\ \/ /\ ~IsLasFile(read.pos)
        /\ phase' = "garbage"
        /\ UNCHANGED <<copc_info, page, answer>>
     \/ /\ IsLasFile(read.pos)
        /\ Records(read.pos, "info") = {}
        /\ Fail("CopcInfoVlrNotFound")
        /\ UNCHANGED <<copc_info, page>>
     \/ /\ IsLasFile(read.pos)
        /\ Records(read.pos, "info") # {}
        /\ copc_info' = LastRecord(read.pos, "info").info
        /\ IF Records(read.pos, "page") = {}
           THEN Fail("EptHierarchyVlrNotFound") /\ UNCHANGED page
           ELSE LET entries == LastRecord(read.pos, "page").page
                IN  IF RootEntries(copc_info') > Len(entries)
                    THEN Fail("Io") /\ UNCHANGED page
                    ELSE /\ page' = SubSeq(entries, 1, RootEntries(copc_info'))
                         /\ phase' = "paging"
                         /\ UNCHANGED answer
  /\ UNCHANGED <<read, hierarchy_entries, walkVars, iterVars, read_faults>>

\* Where the code looks for a child page: relative to the root page, and yet
\* in the file.
ChildPage(entry) == entry.offset - copc_info.root_hier_offset

\* Mutant: the last entry is looked at and not taken.
Popped_Peek == page

Popped == Front(page)

\* Mutant: the child page takes the place of the page it is found in.
Extended_Replaced(entries) == entries

Extended(entries) == Popped \o entries

\* The entries are taken from the end of the page.
PopEntry ==
  /\ phase = "paging"
  /\ page # <<>>
  /\ LET entry == Last(page)
         found == PagesAt(ChildPage(entry), entry.byte_size)
     IN  \/ /\ entry.point_count # -1
            /\ page' = Popped
            /\ hierarchy_entries' =
                 [k \in DOMAIN hierarchy_entries \cup {entry.key} |->
                    IF k = entry.key THEN entry ELSE hierarchy_entries[k]]
            /\ UNCHANGED <<phase, read>>
         \/ /\ entry.point_count = -1
            /\ found = {}
            /\ phase' = "garbage"
            /\ UNCHANGED <<page, hierarchy_entries, read>>
         \/ /\ entry.point_count = -1
            /\ \E entries \in found : page' = Extended(entries)
            /\ read' = [read EXCEPT !.pos = ChildPage(entry) + entry.byte_size]
            /\ UNCHANGED <<phase, hierarchy_entries>>
  /\ UNCHANGED <<start, copc_info, answer, walkVars, iterVars, read_faults>>

\* The source is left at the start of the points.
EndPages ==
  /\ phase = "paging"
  /\ page = <<>>
  /\ read' = [read EXCEPT !.pos = Header(start).offset_to_point_data + start]
  /\ IF Records(start, "laszip") = {}
     THEN Fail("LasZipVlrNotFound")
     ELSE phase' = "ready" /\ answer' = "Ok"
  /\ UNCHANGED <<openVars, walkVars, iterVars, read_faults>>

OpenFails ==
  /\ phase \in {"unopened", "paging"}
  /\ ReadFault
  /\ Fail("Io")
  /\ UNCHANGED <<read, openVars, walkVars, iterVars>>

-----------------------------------------------------------------------------
(* load_octree_for_query.                                                  *)

\* The levels of a resolution: one more than the halvings it takes to bring
\* the spacing of the root down to it, at least one.  A root without points
\* has an infinite spacing; then the code overflows an i32, to one level if
\* overflow is not checked.
ResolutionLevels(r) ==
  IF copc_info.root_points = 0 THEN 1
  ELSE CHOOSE l \in 1 .. (2 * halfsize + 1) :
         /\ 2 * halfsize <= copc_info.root_points * r * 2^(l - 1)
         /\ \A m \in 1 .. (l - 1) :
              2 * halfsize > copc_info.root_points * r * 2^(m - 1)

\* The half open range of levels; i32::MAX is beyond every level there is.
LevelMin(levels) ==
  CASE levels.select \in {"All", "Resolution"} -> 0
    [] levels.select = "Level" -> levels.level
    [] levels.select = "LevelMinMax" -> levels.min

LevelMax(levels) ==
  CASE levels.select = "All" -> MaxLevel + 1
    [] levels.select = "Resolution" -> ResolutionLevels(levels.resolution)
    [] levels.select = "Level" -> levels.level + 1
    [] levels.select = "LevelMinMax" -> levels.max

InvalidResolution(levels) ==
  levels.select = "Resolution" /\ levels.resolution <= 0

\* The entry of points, with a root for the walk to start at.
Query(q) ==
  /\ phase = "ready"
  /\ query' = q
  /\ satisfying_nodes' = {}
  /\ returned' = [p \in Points |-> 0]
  /\ done' = FALSE
  /\ IF InvalidResolution(q.levels)
     THEN /\ answer' = "InvalidResolution"
          /\ UNCHANGED <<phase, node_stack>>
     ELSE /\ phase' = "walking"
          /\ node_stack' = <<Root>>
          /\ UNCHANGED answer
  /\ UNCHANGED <<read, openVars, nodes, countVars, decompressor, read_faults>>

\* Mutant: boxes that share only a face do not intersect.
Intersect_Open(b, c) ==
  \A a \in Axis : b.min[a] < c.max[a] /\ c.min[a] < b.max[a]

Intersect(b, c) == BoundsIntersect(b, c)

\* Is the walk to go below node k?
Enters(k) ==
  /\ k.level < LevelMax(query.levels)
  /\ k \in DOMAIN hierarchy_entries
  /\ \A b \in query.bounds : Intersect(VoxelBounds(k), b)

\* Mutant: the lower end of the levels is not looked at.
Takes_AnyLevel(k) == hierarchy_entries[k].point_count > 0

Takes(k) ==
  /\ hierarchy_entries[k].point_count > 0
  /\ LevelMin(query.levels) <= k.level

\* One turn of the loop: a node is popped, its children are pushed.
Visit ==
  /\ phase = "walking"
  /\ node_stack # <<>>
  /\ LET k == Last(node_stack)
     IN  IF Enters(k)
         THEN /\ node_stack' = Front(node_stack) \o
                   [i \in 1 .. 2^Axes |-> Child(k, i - 1)]
              /\ satisfying_nodes' = satisfying_nodes \cup
                   { e \in {hierarchy_entries[k]} : Takes(k) }
         ELSE /\ node_stack' = Front(node_stack)
              /\ UNCHANGED satisfying_nodes
  /\ UNCHANGED <<read, openVars, phase, answer, query, iterVars, read_faults>>

-----------------------------------------------------------------------------
(* points, from the end of the walk on.                                    *)

\* Coordinates are rounded to the resolution, halves away from zero.
Raw(x) == IF x >= 0 THEN (2 * x + Scale) \div (2 * Scale)
                    ELSE - ((Scale - 2 * x) \div (2 * Scale))

RawPosition(x) == [a \in Axis |-> Raw(x[a])]

RawBounds(b) == [min |-> RawPosition(b.min), max |-> RawPosition(b.max)]

\* Can the transforms encode the corners of the bounds?
Encodes(b) == \A a \in Axis : /\ Raw(b.min[a]) \in -RawMax .. RawMax
                              /\ Raw(b.max[a]) \in -RawMax .. RawMax

\* Mutant: the nodes are counted, not their points.
TotalPoints_Nodes(S) == Cardinality(S)

TotalPoints(S) == MapThenSumSet(LAMBDA e : e.point_count, S)

\* Mutant: the nodes are read in the descending order of the sort.
ByOffset_Ascending(S) ==
  [i \in 1 .. Cardinality(S) |->
     CHOOSE e \in S : Cardinality({ f \in S : f.offset < e.offset }) = i - 1]

\* Descending offsets: the iterator takes its nodes from the end.
ByOffset(S) ==
  [i \in 1 .. Cardinality(S) |->
     CHOOSE e \in S : Cardinality({ f \in S : f.offset > e.offset }) = i - 1]

\* Mutant: the source is not moved before the decompressor asks where it is.
DataStart_Current == read.pos

DataStart == start

\* The nodes are sorted, the source is moved to the start of the data, and
\* the decompressor takes this position as its start.
EndWalk ==
  /\ phase = "walking"
  /\ node_stack = <<>>
  /\ IF \A b \in query.bounds : Encodes(b)
     THEN /\ phase' = "iterating"
          /\ answer' = "Ok"
          /\ nodes' = ByOffset(satisfying_nodes)
          /\ node_points_left' = 0
          /\ total_points_left' = TotalPoints(satisfying_nodes)
          /\ read' = [read EXCEPT !.pos = DataStart]
          /\ decompressor' = [start |-> read'.pos, fresh |-> FALSE, left |-> {}]
     ELSE /\ phase' = "ready"
          /\ answer' = "LasError"
          /\ UNCHANGED <<nodes, countVars, read, decompressor>>
  /\ UNCHANGED <<openVars, walkVars, returned, done, read_faults>>

\* An error of the seek leaves points, too.
EndWalkFails ==
  /\ phase = "walking"
  /\ node_stack = <<>>
  /\ ReadFault
  /\ phase' = "ready"
  /\ answer' = "Io"
  /\ UNCHANGED <<read, openVars, walkVars, iterVars>>

-----------------------------------------------------------------------------
(* The iterator.                                                           *)

\* A call of next; it returns None if no point is left.
CallNext ==
  /\ phase = "iterating"
  /\ IF total_points_left = 0
     THEN done' = TRUE /\ answer' = "None" /\ UNCHANGED phase
     ELSE phase' = "next" /\ UNCHANGED <<done, answer>>
  /\ UNCHANGED <<read, openVars, walkVars, nodes, countVars, decompressor,
                 returned, read_faults>>

Reset == [decompressor EXCEPT !.fresh = TRUE, !.left = {}]

\* The next node: source_seek, which resets the decompressor.
NextNode ==
  /\ phase = "next"
  /\ node_points_left = 0
  /\ nodes # <<>>
  /\ nodes' = Front(nodes)
  /\ node_points_left' = Last(nodes).point_count
  /\ read' = [read EXCEPT !.pos = Last(nodes).offset + decompressor.start]
  /\ decompressor' = Reset
  /\ UNCHANGED <<openVars, phase, answer, walkVars, total_points_left,
                 returned, done, read_faults>>

NoMoreNodes ==
  /\ phase = "next"
  /\ node_points_left = 0
  /\ nodes = <<>>
  /\ phase' = "iterating"
  /\ done' = TRUE
  /\ answer' = "None"
  /\ UNCHANGED <<read, openVars, walkVars, nodes, countVars, decompressor,
                 returned, read_faults>>

ChunksAt(pos) ==
  { b \in read.disk : b.at = pos /\ IsChunk(b) }

\* The decompressor after it has loaded the chunk at the source, which it does
\* for the first point after a reset, and the source behind the chunk.
Loaded ==
  IF decompressor.fresh
  THEN { [decompressor EXCEPT !.fresh = FALSE, !.left = b.points] :
           b \in ChunksAt(read.pos) }
  ELSE {decompressor}

BehindChunk ==
  IF decompressor.fresh
  THEN UNION { {b.at + b.len} : b \in ChunksAt(read.pos) }
  ELSE {read.pos}

\* Mutant: the upper faces do not belong to the bounds.
HasPoint_Open(b, x) == \A a \in Axis : b.min[a] <= x[a] /\ x[a] < b.max[a]

HasPoint(b, x) == BoundsContainPoint(b, x)

InQueryBounds(p) ==
  \A b \in query.bounds :
    HasPoint(RawBounds(b), RawPosition(Position[p]))

\* One turn of the loop in next: a point of the chunk, returned if the bounds
\* contain it.
DecodePoint ==
  /\ phase = "next"
  /\ node_points_left > 0
  /\ \E d \in Loaded, pos \in BehindChunk : \E p \in d.left :
       /\ decompressor' = [d EXCEPT !.left = @ \ {p}]
       /\ read' = [read EXCEPT !.pos = pos]
       /\ IF InQueryBounds(p)
          THEN /\ phase' = "iterating"
               /\ answer' = "Some"
               /\ returned' = [returned EXCEPT ![p] = @ + 1]
          ELSE UNCHANGED <<phase, answer, returned>>
  /\ node_points_left' = node_points_left - 1
  /\ total_points_left' = total_points_left - 1
  /\ UNCHANGED <<openVars, walkVars, nodes, done, read_faults>>

\* There is no chunk, or none with so many points.
DecodeGarbage ==
  /\ phase = "next"
  /\ node_points_left > 0
  /\ \A d \in Loaded : d.left = {}
  /\ phase' = "garbage"
  /\ UNCHANGED <<read, openVars, answer, walkVars, iterVars, read_faults>>

\* next unwraps the result of a seek or a read: an error panics, and the
\* iterator is gone with the call.
NextPanics ==
  /\ phase = "next"
  /\ ReadFault
  /\ phase' = "ready"
  /\ answer' = "Panic"
  /\ UNCHANGED <<read, openVars, walkVars, iterVars>>

\* The caller drops the iterator, wherever it is, and has the reader back.
DropIter ==
  /\ phase = "iterating"
  /\ phase' = "ready"
  /\ UNCHANGED <<read, openVars, answer, walkVars, iterVars, read_faults>>

-----------------------------------------------------------------------------
\* The steps of a call of new, points or next that is under way, but those in
\* which a seek or a read fails.
Running ==
  \/ PopEntry \/ EndPages
  \/ Visit \/ EndWalk
  \/ NextNode \/ NoMoreNodes \/ DecodePoint \/ DecodeGarbage

Failing == OpenFails \/ EndWalkFails \/ NextPanics

Next ==
  \/ Open
  \/ \E q \in Queries : Query(q)
  \/ Running
  \/ Failing
  \/ CallNext
  \/ DropIter

Spec == Init /\ [][Next]_vars

\* A call is run to its end by the thread that made it, whether or not a read
\* fails on the way; the caller drives an iterator with a loop, which may break
\* but does not stop.
FairSpec == Spec /\ WF_vars(Running) /\ WF_vars(CallNext)

-----------------------------------------------------------------------------
(* Properties.                                                             *)

Opened == phase \in {"ready", "walking", "iterating", "next"}

Stored == { hierarchy_entries[k] : k \in DOMAIN hierarchy_entries }

\* All entries of the hierarchy evlr, child pages included.
FileEntries == ToSet(LastRecord(start, "page").page)

HasChildPages == \E e \in FileEntries : e.point_count = -1

\* Every entry of the file leads to a chunk that has its points.
EntriesFit ==
  \A e \in FileEntries : e.point_count > 0 =>
    \E b \in ChunksAt(e.offset + start) : e.point_count <= Cardinality(b.points)

\* The points in the chunk an entry leads to.
Content(e) == UNION { b.points : b \in ChunksAt(e.offset + start) }

\* What the documentation of LodSelection says of a level: the spacing of
\* level i is spacing * 2^-i, and levels are added until it is fine enough.
LevelWanted(levels, l) ==
  CASE levels.select = "All" -> TRUE
    [] levels.select = "Resolution" ->
         l = 0 \/ 2 * halfsize
                    > copc_info.root_points * levels.resolution * 2^(l - 1)
    [] levels.select = "Level" -> l = levels.level
    [] levels.select = "LevelMinMax" -> levels.min <= l /\ l < levels.max

Meet(b, c) ==
  \A a \in Axis : (b.min[a] .. b.max[a]) \cap (c.min[a] .. c.max[a]) # {}

Reachable(e) == Ancestors(e.key) \subseteq DOMAIN hierarchy_entries

\* The entries a query is about.
Selected ==
  { e \in Stored : /\ Reachable(e)
                   /\ e.point_count > 0
                   /\ LevelWanted(query.levels, e.key.level)
                   /\ \A b \in query.bounds : Meet(VoxelBounds(e.key), b) }

\* Those of their points whose encoded coordinates the bounds contain.
WantedPoints ==
  { p \in UNION { Content(e) : e \in Selected } :
      \A b \in query.bounds : \A a \in Axis :
        /\ Raw(b.min[a]) <= Raw(Position[p][a])
        /\ Raw(Position[p][a]) <= Raw(b.max[a]) }

(***************************************************************************)
(* The types of the reader's and the iterator's state.  The counters are   *)
(* unsigned in the code: below zero they would panic, or wrap around.      *)
(***************************************************************************)
ReaderTypeOK ==
  /\ read.pos \in Nat /\ start \in Nat
  /\ DOMAIN hierarchy_entries \subseteq VoxelKeys
  /\ phase \in Phases
  /\ satisfying_nodes \subseteq Stored
  /\ \A i \in DOMAIN nodes : nodes[i] \in Stored
  /\ node_points_left \in Nat /\ total_points_left \in Nat
  /\ decompressor.start \in Nat /\ decompressor.fresh \in BOOLEAN
  /\ decompressor.left \subseteq Points
  /\ returned \in [Points -> Nat]
  /\ done \in BOOLEAN

(***************************************************************************)
(* An opened reader knows exactly the entries of its file, those that      *)
(* stand for a child page replaced by the page's own.                      *)
(***************************************************************************)
EntriesComplete ==
  Opened => Stored = { e \in FileEntries : e.point_count # -1 }

(***************************************************************************)
(* Every position the reader computes, from the header's, the info's and   *)
(* an entry's offsets and the start of the data, is that of a record or a  *)
(* chunk, and no chunk runs out of points: for every file whose hierarchy  *)
(* is a single page that tells the truth about its chunks, wherever it     *)
(* starts in the source, and after every earlier query, broken off         *)
(* anywhere.                                                               *)
(***************************************************************************)
NoGarbage ==
  phase = "garbage" => IsLasFile(start) /\ (HasChildPages \/ ~EntriesFit)

(***************************************************************************)
(* The stack walk of load_octree_for_query finds the nodes a query is      *)
(* about, all and only those: the level tests, which are half open and cut *)
(* the walk, and the bounds tests on the way down agree with what the      *)
(* documentation of the selections says of a single node.                  *)
(***************************************************************************)
QueryIsExact ==
  phase \in {"iterating", "next"} => satisfying_nodes = Selected

(***************************************************************************)
(* An iterator returns no other points than the wanted ones, none twice,   *)
(* and all of them before it returns None, through seeks between chunks,   *)
(* resets of the decompressor and points it skips.                         *)
(***************************************************************************)
IterationIsExact ==
  phase \in {"iterating", "next"} =>
    \A p \in Points :
      /\ returned[p] <= IF p \in WantedPoints THEN 1 ELSE 0
      /\ done /\ p \in WantedPoints => returned[p] = 1

(***************************************************************************)
(* The two counters tell the same: what is left is what is left of the     *)
(* current node and the nodes to come.  It is never less than what the     *)
(* iterator will return, so the upper bound of size_hint holds, and the    *)
(* test for zero at the start of next ends no iteration too early.         *)
(***************************************************************************)
CountersAgree ==
  phase \in {"iterating", "next"} =>
    /\ total_points_left =
         node_points_left + TotalPoints({ nodes[i] : i \in DOMAIN nodes })
    /\ Cardinality({ p \in WantedPoints : returned[p] = 0 })
         <= total_points_left

(***************************************************************************)
(* A full resolution query returns every point of the file that was inside *)
(* the bounds before it was encoded.  Coordinates and bounds are rounded   *)
(* alike, voxels are not rounded, and neither test may lose the point.     *)
(***************************************************************************)
PointsInBoundsComeBack ==
  phase = "iterating" /\ done /\ query.levels.select = "All" =>
    \A e \in Stored : Reachable(e) /\ e.point_count > 0 =>
      \A p \in Content(e) :
        (\A b \in query.bounds : BoundsContainPoint(b, Position[p]))
          => returned[p] = 1

(***************************************************************************)
(* "Sort nodes by decending offsets for sequential reading": an iterator   *)
(* never moves the source backwards.                                       *)
(***************************************************************************)
ReadsForward ==
  [][phase = "next" => read'.pos >= read.pos]_vars

(***************************************************************************)
(* Every call returns, and an iterator a caller loops over comes to its    *)
(* end, however many nodes have no point in the bounds.                    *)
(***************************************************************************)
ReaderReturns ==
  phase \in {"paging", "walking", "next", "iterating"}
    ~> phase \in {"ready", "failed", "garbage"} \/ done

(***************************************************************************)
(* copc.rs: "The hierarchy may be arranged in a tree of pages".  The       *)
(* position of a child page is taken relative to the root page, and then   *)
(* used in the file, where no page starts.                                 *)
(***************************************************************************)
ChildPagesAreFound == phase = "garbage" => ~HasChildPages
=============================================================================
