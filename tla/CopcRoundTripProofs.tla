------------------------ MODULE CopcRoundTripProofs -------------------------
(***************************************************************************)
(* What tests/roundtrip.rs asks of the writer and the reader together, for *)
(* every value of the constants: a file the writer closes at the beginning *)
(* of the stream is read, and every point written comes back.  The two     *)
(* invariants meet in the file.  The writer's says which blocks lie where  *)
(* on the disk of a closed file (CopcWriterFile); such a disk is a file    *)
(* that tells the truth (ClosedIsFile, ClosedIsSound), and the reader's    *)
(* says what it gets from one (CopcReaderIteration).                       *)
(*                                                                         *)
(* The theorems suppose what the runs show to be needed: the file starts   *)
(* at the beginning of the stream (Start = 0), no write fails, and for the *)
(* points that every call is greedy and none lies in a rounding gap.       *)
(***************************************************************************)
EXTENDS CopcRoundTrip, CopcWriterFile

\* The reader of CopcRoundTrip, with what is proved of it.
Steps == INSTANCE CopcReaderIteration
  WITH read <- stream, copc_info <- reader_info, answer <- reader_answer,
       nodes <- reader_nodes, Files <- {}, MaxReadFaults <- 0

-----------------------------------------------------------------------------
(* The writer and the reader speak of the same octree.                     *)

LEMMA SameOctree ==
  /\ Steps!Axis = Axis
  /\ Steps!Root = Root
  /\ Steps!VoxelKeys = VoxelKeys
  /\ Steps!halfsize = halfsize
  /\ \A k : Steps!Ancestors(k) = Ancestors(k)
  /\ \A k : Steps!VoxelBounds(k) = VoxelBounds(k)
  /\ \A b, x : Steps!BoundsContainPoint(b, x) <=> BoundsContainPoint(b, x)
  /\ Steps!GapsAreSmall <=> GapsAreSmall
<1>1. Steps!Axis = Axis
  BY DEF Steps!Axis, Axis
<1>2. Steps!Root = Root
  BY <1>1 DEF Steps!Root, Root
<1>3. Steps!VoxelKeys = VoxelKeys
  BY <1>1, <1>2 DEF Steps!VoxelKeys, VoxelKeys
<1>4. Steps!Center = Center
  BY <1>1 DEF Steps!Center, Center
<1>5. Steps!halfsize = halfsize
  BY <1>1, <1>4 DEF Steps!halfsize, halfsize
<1>6. Steps!RootBounds = RootBounds
  BY <1>1, <1>4, <1>5 DEF Steps!RootBounds, RootBounds
<1>7. \A k : Steps!VoxelBounds(k) = VoxelBounds(k)
  BY <1>1, <1>5, <1>6 DEF Steps!VoxelBounds, VoxelBounds
<1>8. \A k : Steps!Ancestors(k) = Ancestors(k)
  BY <1>1 DEF Steps!Ancestors, Ancestors, Steps!Ancestor, Ancestor
<1>9. \A b, x : Steps!BoundsContainPoint(b, x) <=> BoundsContainPoint(b, x)
  BY <1>1 DEF Steps!BoundsContainPoint, BoundsContainPoint
<1>10. Steps!GapsAreSmall <=> GapsAreSmall
  BY <1>1, <1>5 DEF Steps!GapsAreSmall, GapsAreSmall, Steps!Side, Side
<1>. QED
  BY <1>1, <1>2, <1>3, <1>5, <1>7, <1>8, <1>9, <1>10

LEMMA SameSizes ==
  /\ \A S : Steps!IsFiniteSet(S) <=> IsFiniteSet(S)
  /\ \A S : Steps!Cardinality(S) = Cardinality(S)
<1>1. \A S : Steps!IsFiniteSet(S) <=> IsFiniteSet(S)
  BY DEF Steps!IsFiniteSet, IsFiniteSet
<1>2. \A S : Steps!Cardinality(S) = Cardinality(S)
  BY DEF Steps!Cardinality, Cardinality
<1>. QED
  BY <1>1, <1>2

(***************************************************************************)
(* What is assumed of the reader's constants holds.                        *)
(***************************************************************************)
LEMMA ReaderAssumptions ==
  /\ Axes \in 1 .. 3 /\ MaxLevel \in Nat
  /\ HeaderMin \in [Steps!Axis -> Int] /\ HeaderMax \in [Steps!Axis -> Int]
  /\ \A a \in Steps!Axis : HeaderMin[a] < HeaderMax[a]
  /\ \A a \in Steps!Axis : (HeaderMin[a] + HeaderMax[a]) % 2 = 0
  /\ FaceGap \in [Steps!Axis -> Nat]
  /\ (2 * Steps!halfsize) % 2^MaxLevel = 0
  /\ Position \in [Points -> [Steps!Axis -> Int]]
  /\ Scale \in Nat \ {0} /\ RawMax \in Nat /\ 0 \in Nat
  /\ \A q \in Queries : Steps!IsQuery(q)
<1>1. \A q \in Queries : Steps!IsQuery(q)
  BY RoundTripAssumption
  DEF Reader!IsQuery, Steps!IsQuery, Reader!Axis, Steps!Axis
<1>. QED
  BY <1>1, SameOctree, OctreeAssumption, GridAssumption, WriterAssumption,
     RoundTripAssumption

-----------------------------------------------------------------------------
(* A closed file is one the reader can trust.                              *)

LEMMA HierarchyIsAPage ==
  ASSUME TypeOK, OnDisk, ChunksApart, faults = 0
  PROVE  hierarchy \in Seq(Steps!Entries)
<1>1. ASSUME NEW i \in DOMAIN hierarchy
      PROVE  hierarchy[i] \in Steps!Entries
  <2>1. hierarchy[i] \in Entries
    BY DEF TypeOK, FileTypeOK
  <2>2. PICK b \in Chunks : b.len = hierarchy[i].byte_size
    BY DEF OnDisk, EntriesLocateChunks
  <2>3. hierarchy[i].byte_size \in Nat
    BY <2>2 DEF ChunksApart
  <2>. QED
    BY <2>1, <2>3, SameOctree DEF Entries, Steps!Entries
<1>2. Len(hierarchy) \in Nat /\ DOMAIN hierarchy = 1 .. Len(hierarchy)
      /\ hierarchy = [i \in 1 .. Len(hierarchy) |-> hierarchy[i]]
  BY DEF TypeOK, FileTypeOK
<1>. QED
  BY <1>1, <1>2

LEMMA ClosedIsFile ==
  ASSUME TypeOK, OnDisk, ChunksApart, faults = 0, NEW end, NEW trailer,
         LaidOut(end, trailer), DOMAIN stream = {"pos", "disk"}
  PROVE  Steps!IsFile(stream)
<1>. DEFINE first == FirstEvlr(end, trailer)
<1>1. IsFiniteSet(stream.disk) /\ stream.pos \in Nat
  BY ClosedDiskIsFinite DEF TypeOK, FileTypeOK
<1>2. ASSUME NEW b \in stream.disk
      PROVE  Steps!IsBlock(b)
  <2>1. /\ b.at \in Nat /\ b.len \in Nat
        /\ "start_of_first_evlr" \in DOMAIN b <=> b = FileHeader(first)
        /\ "info" \in DOMAIN b <=> b = InfoVlr
        /\ "page" \in DOMAIN b <=> b = HierarchyEvlr(first)
        /\ "points" \in DOMAIN b <=> b \in Chunks
    BY ClosedBlocks
  <2>2. FileHeader(first).offset_to_point_data \in Nat
    <3>1. FileHeader(first).offset_to_point_data = start_pos - Start
      BY DEF FileHeader
    <3>. QED
      BY <3>1, CompressorAssumption DEF start_pos
  <2>3. Steps!IsInfo(InfoVlr.info)
    <3>1. InfoVlr.info = copc_info
      BY DEF InfoVlr
    <3>2. {copc_info.root_hier_offset, copc_info.root_hier_size,
           copc_info.root_points} \subseteq Nat
      BY DEF TypeOK, StatTypeOK
    <3>. QED
      BY <3>1, <3>2 DEF Steps!IsInfo
  <2>4. /\ HierarchyEvlr(first).page \in Seq(Steps!Entries)
        /\ HierarchyEvlr(first).len = 60 + 32 * Len(HierarchyEvlr(first).page)
    BY HierarchyIsAPage DEF HierarchyEvlr
  <2>5. \A c \in Chunks : c.points \subseteq Points /\ IsFiniteSet(c.points)
    <3>1. \A c \in Chunks : c.points \subseteq Points
      BY DEF OnDisk, NeverTwice, Accepted, TypeOK, CallTypeOK
    <3>. QED
      BY <3>1, CompressorAssumption, FS_Subset
  <2>. QED
    BY <2>1, <2>2, <2>3, <2>4, <2>5, SameSizes DEF Steps!IsBlock, Steps!IsChunk
<1>3. ASSUME NEW b \in stream.disk, NEW c \in stream.disk,
             Steps!IsChunk(b), Steps!IsChunk(c), b # c
      PROVE  b.at # c.at /\ (b.at < c.at => b.at + b.len <= c.at)
  <2>1. b \in Chunks /\ c \in Chunks
    BY <1>3 DEF Steps!IsChunk, Chunks
  <2>2. /\ b.at \in Nat /\ b.len \in Nat /\ b.len # 0
        /\ c.at \in Nat /\ c.len \in Nat /\ c.len # 0
        /\ Disjoint(b, c)
    BY <1>3, <2>1 DEF ChunksApart
  <2>. QED
    BY <2>2 DEF Disjoint
<1>4. Steps!PageEntries(stream) = { hierarchy[i] : i \in DOMAIN hierarchy }
  <2>1. { c \in stream.disk : "page" \in DOMAIN c } = {HierarchyEvlr(first)}
    <3>1. HierarchyEvlr(first) \in stream.disk
      BY DEF LaidOut, ClosedDisk, FirstEvlr
    <3>2. \A c \in stream.disk : "page" \in DOMAIN c <=> c = HierarchyEvlr(first)
      BY ClosedBlocks
    <3>. QED
      BY <3>1, <3>2
  <2>2. HierarchyEvlr(first).page = hierarchy
    BY DEF HierarchyEvlr
  <2>3. Steps!PageEntries(stream) = Steps!ToSet(hierarchy)
    BY <2>1, <2>2 DEF Steps!PageEntries
  <2>. QED
    BY <2>3 DEF Steps!ToSet
<1>5. \A e, g \in Steps!PageEntries(stream) : e.offset = g.offset => e = g
  BY <1>4 DEF ChunksApart
<1>. QED
  BY <1>1, <1>2, <1>3, <1>5, SameSizes DEF Steps!IsFile

(***************************************************************************)
(* The reader finds the header, the records and the chunks of a closed     *)
(* file that starts at the beginning of the stream.                        *)
(***************************************************************************)
LEMMA HeaderIsFound ==
  ASSUME TypeOK, ChunksApart, faults = 0, NEW end, NEW trailer,
         LaidOut(end, trailer), NEW first, first = FirstEvlr(end, trailer)
  PROVE  /\ Steps!Headers(Start) = {FileHeader(first)}
         /\ Steps!Header(Start) = FileHeader(first)
         /\ {FileHeader(first), InfoVlr, LasZipVlr, HierarchyEvlr(first)}
              \subseteq stream.disk
         /\ ClosedEvlrs(first) \subseteq stream.disk
<1>1. /\ {FileHeader(first), InfoVlr, LasZipVlr, HierarchyEvlr(first)}
           \subseteq stream.disk
      /\ ClosedEvlrs(first) \subseteq stream.disk
  BY DEF LaidOut, ClosedDisk, FirstEvlr, ClosedEvlrs
<1>2. FileHeader(first).at = Start
  BY DEF FileHeader
<1>3. \A b \in stream.disk :
        "start_of_first_evlr" \in DOMAIN b <=> b = FileHeader(first)
  BY ClosedBlocks
<1>4. Steps!Headers(Start) = {FileHeader(first)}
  BY <1>1, <1>2, <1>3 DEF Steps!Headers
<1>5. Steps!Header(Start) = FileHeader(first)
  BY <1>4 DEF Steps!Header
<1>. QED
  BY <1>1, <1>4, <1>5

LEMMA RecordsAreFound ==
  ASSUME TypeOK, ChunksApart, faults = 0, Start = 0, NEW end, NEW trailer,
         LaidOut(end, trailer), NEW first, first = FirstEvlr(end, trailer)
  PROVE  /\ Steps!IsLasFile(Start)
         /\ Steps!Vlrs(Start) = {InfoVlr, LasZipVlr}
         /\ Steps!Evlrs(Start) = ClosedEvlrs(first)
<1>1. /\ Steps!Headers(Start) # {} /\ Steps!Header(Start) = FileHeader(first)
      /\ {InfoVlr, LasZipVlr} \subseteq stream.disk
      /\ ClosedEvlrs(first) \subseteq stream.disk
  BY HeaderIsFound
<1>2. /\ FileHeader(first).len = HeaderBytes
      /\ FileHeader(first).start_of_first_evlr = first
      /\ FileHeader(first).number_of_evlrs = NumberOfEvlrs
      /\ FileHeader(first).offset_to_point_data = start_pos - Start
  BY DEF FileHeader
<1>3. first \in Nat /\ start_pos \in Nat /\ NumberOfEvlrs \in Nat
  BY CompressorAssumption, WriterAssumption, StreamPositions
  DEF FirstEvlr, LaidOut, NumberOfEvlrs
<1>4. \A b \in stream.disk :
        /\ b.at \in Nat
        /\ first <= b.at <=> b \in ClosedEvlrs(first)
        /\ Start + HeaderBytes <= b.at /\ b.at < start_pos
             <=> b \in {InfoVlr, LasZipVlr}
  BY ClosedBlocks
<1>5. Steps!Vlrs(Start) = {InfoVlr, LasZipVlr}
  <2>1. (start_pos - Start) + Start = start_pos
    BY <1>3
  <2>2. Steps!Vlrs(Start) =
          { b \in stream.disk :
              Start + HeaderBytes <= b.at /\ b.at < start_pos }
    BY <1>1, <1>2, <2>1 DEF Steps!Vlrs
  <2>. QED
    BY <1>1, <1>4, <2>2
<1>6. Steps!FirstEvlr(Start) = first
  BY <1>1, <1>2, <1>3 DEF Steps!FirstEvlr
<1>7. /\ IsFiniteSet(ClosedEvlrs(first))
      /\ Cardinality(ClosedEvlrs(first)) = NumberOfEvlrs
      /\ \A b \in ClosedEvlrs(first) :
           /\ "page" \in DOMAIN b \/ "evlr" \in DOMAIN b
           /\ b.at = first \/ \E c \in ClosedEvlrs(first) : c.at + c.len = b.at
  BY <1>3, EvlrsFollow
<1>8. ASSUME NEW b \in ClosedEvlrs(first)
      PROVE  Cardinality({ c \in stream.disk : first <= c.at /\ c.at < b.at })
               < NumberOfEvlrs
  <2>. DEFINE before == { c \in stream.disk : first <= c.at /\ c.at < b.at }
  <2>1. before \subseteq ClosedEvlrs(first) \ {b}
    BY <1>1, <1>4, <1>8
  <2>2. /\ IsFiniteSet(ClosedEvlrs(first) \ {b})
        /\ Cardinality(ClosedEvlrs(first) \ {b}) = NumberOfEvlrs - 1
    BY <1>7, <1>8, FS_RemoveElement
  <2>. HIDE DEF before
  <2>3. /\ Cardinality(before) <= NumberOfEvlrs - 1
        /\ Cardinality(before) \in Nat
    BY <2>1, <2>2, FS_Subset, FS_CardinalityType
  <2>4. Cardinality(before) < NumberOfEvlrs
    BY <1>3, <2>3
  <2>. QED
    BY <2>4 DEF before
<1>9. Steps!Evlrs(Start) = ClosedEvlrs(first)
  <2>1. Steps!Evlrs(Start) =
          { b \in stream.disk :
              /\ first <= b.at
              /\ Cardinality({ c \in stream.disk : first <= c.at /\ c.at < b.at })
                   < NumberOfEvlrs }
    BY <1>1, <1>2, <1>6, SameSizes DEF Steps!Evlrs
  <2>. QED
    BY <1>1, <1>4, <1>8, <2>1
<1>10. Steps!AreEvlrs(Start)
  BY <1>1, <1>2, <1>6, <1>7, <1>9, SameSizes DEF Steps!AreEvlrs
<1>. QED
  BY <1>1, <1>5, <1>9, <1>10 DEF Steps!IsLasFile

LEMMA LastOfOne ==
  ASSUME NEW s, NEW field, NEW b, b.at \in Nat, Steps!Records(s, field) = {b}
  PROVE  Steps!LastRecord(s, field) = b
BY DEF Steps!LastRecord

LEMMA FieldsAreFound ==
  ASSUME TypeOK, ChunksApart, faults = 0, Start = 0, NEW end, NEW trailer,
         LaidOut(end, trailer), NEW first, first = FirstEvlr(end, trailer)
  PROVE  /\ \A field \in {"info", "page", "laszip"} :
              Steps!Records(Start, field) # {}
         /\ Steps!LastRecord(Start, "info") = InfoVlr
         /\ Steps!LastRecord(Start, "page") = HierarchyEvlr(first)
<1>1. /\ Steps!Vlrs(Start) = {InfoVlr, LasZipVlr}
      /\ Steps!Evlrs(Start) = ClosedEvlrs(first)
      /\ HierarchyEvlr(first) \in ClosedEvlrs(first)
      /\ {InfoVlr, LasZipVlr} \cup ClosedEvlrs(first) \subseteq stream.disk
  BY RecordsAreFound, HeaderIsFound DEF ClosedEvlrs
<1>2. \A b \in stream.disk :
        /\ b.at \in Nat
        /\ "info" \in DOMAIN b <=> b = InfoVlr
        /\ "laszip" \in DOMAIN b <=> b = LasZipVlr
        /\ "page" \in DOMAIN b <=> b = HierarchyEvlr(first)
  BY ClosedBlocks
<1>3. /\ Steps!Records(Start, "info") = {InfoVlr}
      /\ Steps!Records(Start, "laszip") = {LasZipVlr}
      /\ Steps!Records(Start, "page") = {HierarchyEvlr(first)}
  BY <1>1, <1>2 DEF Steps!Records
<1>4. InfoVlr.at \in Nat /\ HierarchyEvlr(first).at \in Nat
  BY <1>1, <1>2
<1>5. /\ Steps!LastRecord(Start, "info") = InfoVlr
      /\ Steps!LastRecord(Start, "page") = HierarchyEvlr(first)
  BY <1>3, <1>4, LastOfOne
<1>. QED
  BY <1>3, <1>5

\* An entry's chunk is the only one in its place.
LEMMA ChunkOfEntry ==
  ASSUME TypeOK, OnDisk, ChunksApart, faults = 0, Start = 0,
         NEW i \in DOMAIN hierarchy
  PROVE  \E b \in Chunks :
           /\ Steps!ChunksAt(hierarchy[i].offset + Start) = {b}
           /\ b.at = hierarchy[i].offset
           /\ Cardinality(b.points) = hierarchy[i].point_count
           /\ hierarchy[i].point_count > 0
           /\ \A p \in b.points : hierarchy[i].key \in Home[p]
<1>1. PICK b \in Chunks :
        /\ b.at = hierarchy[i].offset
        /\ Cardinality(b.points) = hierarchy[i].point_count
        /\ \A p \in b.points : hierarchy[i].key \in Home[p]
  BY DEF OnDisk, EntriesLocateChunks
<1>2. /\ b.at \in Nat /\ b.len \in Nat /\ b.len # 0 /\ b.points # {}
      /\ b.at + Start = b.at
  BY DEF ChunksApart
<1>3. \A c \in Chunks : c.at = b.at => c = b
  <2>. SUFFICES ASSUME NEW c \in Chunks, c.at = b.at, c # b
                PROVE  FALSE
    OBVIOUS
  <2>1. Disjoint(b, c) /\ c.len \in Nat /\ c.len # 0 /\ c.at \in Nat
    BY DEF ChunksApart
  <2>. QED
    BY <1>2, <2>1 DEF Disjoint
<1>4. Steps!ChunksAt(hierarchy[i].offset + Start) = {b}
  <2>1. Steps!ChunksAt(b.at) = { c \in Chunks : c.at = b.at }
    BY DEF Steps!ChunksAt, Steps!IsChunk, Chunks
  <2>. QED
    BY <1>1, <1>2, <1>3, <2>1
<1>5. hierarchy[i].point_count > 0
  <2>1. b.points \subseteq Points
    BY DEF OnDisk, NeverTwice, Accepted, TypeOK, CallTypeOK
  <2>2. IsFiniteSet(b.points)
    BY <2>1, CompressorAssumption, FS_Subset
  <2>3. Cardinality(b.points) \in Nat /\ Cardinality(b.points) # 0
    BY <1>2, <2>2, FS_CardinalityType, FS_EmptySet
  <2>. QED
    BY <1>1, <2>3
<1>. QED
  BY <1>1, <1>4, <1>5

LEMMA ClosedIsSound ==
  ASSUME TypeOK, OnDisk, ChunksApart, WrittenOnce, faults = 0, ~close_failed,
         Start = 0, copc_info.root_hier_size = 32 * Len(hierarchy),
         NEW end, NEW trailer, LaidOut(end, trailer)
  PROVE  /\ Steps!SoundFile(Start)
         /\ Steps!Listed(Start) = { hierarchy[i] : i \in DOMAIN hierarchy }
<1>. DEFINE first == FirstEvlr(end, trailer)
<1>1. /\ Steps!IsLasFile(Start)
      /\ \A field \in {"info", "page", "laszip"} :
           Steps!Records(Start, field) # {}
      /\ Steps!LastRecord(Start, "info").info = copc_info
      /\ Steps!LastRecord(Start, "page").page = hierarchy
  BY RecordsAreFound, FieldsAreFound DEF InfoVlr, HierarchyEvlr
<1>2. Steps!Listed(Start) = { hierarchy[i] : i \in DOMAIN hierarchy }
  BY <1>1 DEF Steps!Listed, Steps!ToSet
<1>3. Steps!RootEntries(Steps!LastRecord(Start, "info").info) =
        Len(Steps!LastRecord(Start, "page").page)
  <2>1. Len(hierarchy) \in Nat
    BY DEF TypeOK, FileTypeOK
  <2>2. (32 * Len(hierarchy)) \div 32 = Len(hierarchy)
    BY <2>1
  <2>. QED
    BY <1>1, <2>2 DEF Steps!RootEntries
<1>4. ASSUME NEW e \in Steps!Listed(Start)
      PROVE  /\ e.point_count > 0
             /\ \E b \in Steps!ChunksAt(e.offset + Start) :
                  Cardinality(b.points) = e.point_count
  <2>1. PICK i \in DOMAIN hierarchy : e = hierarchy[i]
    BY <1>2
  <2>. QED
    BY <2>1, ChunkOfEntry
<1>5. ASSUME NEW e \in Steps!Listed(Start), NEW f \in Steps!Listed(Start)
      PROVE  /\ e.key = f.key => e = f
             /\ e # f =>
                  \A b \in Steps!ChunksAt(e.offset + Start),
                     c \in Steps!ChunksAt(f.offset + Start) :
                    b.points \cap c.points = {}
  <2>1. PICK i \in DOMAIN hierarchy : e = hierarchy[i]
    BY <1>2
  <2>2. PICK j \in DOMAIN hierarchy : f = hierarchy[j]
    BY <1>2
  <2>3. e.key = f.key => e = f
    BY <2>1, <2>2 DEF WrittenOnce, OneEntryPerNode
  <2>4. ASSUME e # f,
               NEW b \in Steps!ChunksAt(e.offset + Start),
               NEW c \in Steps!ChunksAt(f.offset + Start)
        PROVE  b.points \cap c.points = {}
    <3>1. e.offset # f.offset
      BY <2>1, <2>2, <2>4 DEF ChunksApart
    <3>2. b \in Chunks /\ b.at = e.offset
      BY <2>1, <2>4, ChunkOfEntry
    <3>3. c \in Chunks /\ c.at = f.offset
      BY <2>2, <2>4, ChunkOfEntry
    <3>. QED
      BY <3>1, <3>2, <3>3 DEF OnDisk, NeverTwice
  <2>. QED
    BY <2>3, <2>4
<1>. QED
  BY <1>1, <1>2, <1>3, <1>4, <1>5, SameSizes DEF Steps!SoundFile

-----------------------------------------------------------------------------
(* The steps of the writer and of the reader.                              *)

\* The reader that is composed is the one that is proved about.
LEMMA SameReader ==
  /\ Reader!ReaderInit <=> Steps!ReaderInit
  /\ Reader!Next <=> Steps!Next
<1>1. Reader!ReaderInit <=> Steps!ReaderInit
  BY DEF Reader!ReaderInit, Steps!ReaderInit, Reader!NoQuery, Steps!NoQuery
<1>2. Reader!Open <=> Steps!Open
  BY DEF Reader!Open, Steps!Open, Reader!IsLasFile, Steps!IsLasFile,
      Reader!AreEvlrs, Steps!AreEvlrs, Reader!Evlrs, Steps!Evlrs,
      Reader!FirstEvlr, Steps!FirstEvlr, Reader!Header, Steps!Header,
      Reader!Headers, Steps!Headers, Reader!Records, Steps!Records,
      Reader!Vlrs, Steps!Vlrs, Reader!LastRecord, Steps!LastRecord,
      Reader!Fail, Steps!Fail, Reader!RootEntries, Steps!RootEntries,
      Reader!walkVars, Steps!walkVars, Reader!iterVars, Steps!iterVars,
      Reader!countVars, Steps!countVars, Reader!Cardinality, Steps!Cardinality
<1>3. Reader!PopEntry <=> Steps!PopEntry
  BY DEF Reader!PopEntry, Steps!PopEntry, Reader!PagesAt, Steps!PagesAt,
      Reader!ChildPage, Steps!ChildPage, Reader!Popped, Steps!Popped,
      Reader!Extended, Steps!Extended,
      Reader!Last, Steps!Last, Reader!Front, Steps!Front, Reader!walkVars,
      Steps!walkVars, Reader!iterVars, Steps!iterVars, Reader!countVars,
      Steps!countVars
<1>4. Reader!EndPages <=> Steps!EndPages
  BY DEF Reader!EndPages, Steps!EndPages, Reader!Records, Steps!Records,
      Reader!Vlrs, Steps!Vlrs, Reader!Evlrs, Steps!Evlrs, Reader!FirstEvlr,
      Steps!FirstEvlr, Reader!Header, Steps!Header, Reader!Headers,
      Steps!Headers, Reader!Fail, Steps!Fail, Reader!openVars, Steps!openVars,
      Reader!walkVars, Steps!walkVars, Reader!iterVars, Steps!iterVars,
      Reader!countVars, Steps!countVars, Reader!Cardinality, Steps!Cardinality
<1>5. \A q : Reader!Query(q) <=> Steps!Query(q)
  BY DEF Reader!Query, Steps!Query, Reader!InvalidResolution,
      Steps!InvalidResolution, Reader!Root, Steps!Root, Reader!Axis,
      Steps!Axis, Reader!openVars, Steps!openVars, Reader!countVars,
      Steps!countVars
<1>6. Reader!Visit <=> Steps!Visit
  <2>1. \A k : Reader!Enters(k) <=> Steps!Enters(k)
    BY DEF Reader!Enters, Steps!Enters, Reader!LevelMax, Steps!LevelMax,
      Reader!ResolutionLevels, Steps!ResolutionLevels, Reader!halfsize,
      Steps!halfsize, Reader!Center, Steps!Center, Reader!Axis, Steps!Axis,
      Reader!Intersect, Steps!Intersect, Reader!BoundsIntersect,
      Steps!BoundsIntersect, Reader!VoxelBounds, Steps!VoxelBounds,
      Reader!RootBounds, Steps!RootBounds
  <2>2. \A k : Reader!Takes(k) <=> Steps!Takes(k)
    BY DEF Reader!Takes, Steps!Takes, Reader!LevelMin, Steps!LevelMin
  <2>3. \A k, i : Reader!Child(k, i) = Steps!Child(k, i)
    BY DEF Reader!Child, Steps!Child, Reader!Axis, Steps!Axis
  <2>. QED
    BY <2>1, <2>2, <2>3
  DEF Reader!Visit, Steps!Visit, Reader!Last, Steps!Last, Reader!Front,
      Steps!Front, Reader!openVars, Steps!openVars, Reader!iterVars,
      Steps!iterVars, Reader!countVars, Steps!countVars
<1>7. Reader!EndWalk <=> Steps!EndWalk
  <2>1. \A b : Reader!Encodes(b) <=> Steps!Encodes(b)
    BY DEF Reader!Encodes, Steps!Encodes, Reader!Raw, Steps!Raw,
           Reader!Axis, Steps!Axis
  <2>2. \A S : Reader!ByOffset(S) = Steps!ByOffset(S)
    BY DEF Reader!ByOffset, Steps!ByOffset,
           Reader!Cardinality, Steps!Cardinality
  <2>3. \A S : Reader!TotalPoints(S) = Steps!TotalPoints(S)
    BY Zenon
    DEF Reader!TotalPoints, Steps!TotalPoints, Reader!MapThenSumSet,
        Steps!MapThenSumSet, Reader!MapThenFoldSet, Steps!MapThenFoldSet
  <2>. QED
    BY <2>1, <2>2, <2>3
    DEF Reader!EndWalk, Steps!EndWalk, Reader!DataStart, Steps!DataStart,
        Reader!openVars, Steps!openVars, Reader!walkVars, Steps!walkVars,
        Reader!countVars, Steps!countVars
<1>8. /\ Reader!NextNode <=> Steps!NextNode
      /\ Reader!NoMoreNodes <=> Steps!NoMoreNodes
  BY DEF Reader!NextNode, Steps!NextNode, Reader!NoMoreNodes, Steps!NoMoreNodes,
      Reader!Last, Steps!Last, Reader!Front, Steps!Front, Reader!Reset,
      Steps!Reset, Reader!openVars, Steps!openVars, Reader!walkVars,
      Steps!walkVars, Reader!countVars, Steps!countVars
<1>9. Reader!DecodePoint <=> Steps!DecodePoint
  BY DEF Reader!DecodePoint, Steps!DecodePoint, Reader!Loaded, Steps!Loaded,
      Reader!BehindChunk, Steps!BehindChunk, Reader!ChunksAt, Steps!ChunksAt,
      Reader!IsChunk, Steps!IsChunk, Reader!InQueryBounds,
      Steps!InQueryBounds, Reader!HasPoint, Steps!HasPoint,
      Reader!BoundsContainPoint, Steps!BoundsContainPoint, Reader!RawBounds,
      Steps!RawBounds, Reader!RawPosition, Steps!RawPosition, Reader!Raw,
      Steps!Raw, Reader!Axis, Steps!Axis, Reader!openVars, Steps!openVars,
      Reader!walkVars, Steps!walkVars
<1>10. Reader!DecodeGarbage <=> Steps!DecodeGarbage
  BY DEF Reader!DecodeGarbage, Steps!DecodeGarbage, Reader!Loaded, Steps!Loaded,
      Reader!ChunksAt, Steps!ChunksAt, Reader!IsChunk, Steps!IsChunk,
      Reader!openVars, Steps!openVars, Reader!walkVars, Steps!walkVars,
      Reader!iterVars, Steps!iterVars, Reader!countVars, Steps!countVars
<1>11. Reader!Failing <=> Steps!Failing
  BY DEF Reader!Failing, Steps!Failing, Reader!OpenFails, Steps!OpenFails,
      Reader!EndWalkFails, Steps!EndWalkFails, Reader!NextPanics,
      Steps!NextPanics, Reader!ReadFault, Steps!ReadFault, Reader!Fail,
      Steps!Fail, Reader!openVars, Steps!openVars, Reader!walkVars,
      Steps!walkVars, Reader!iterVars, Steps!iterVars, Reader!countVars,
      Steps!countVars
<1>12. /\ Reader!CallNext <=> Steps!CallNext
       /\ Reader!DropIter <=> Steps!DropIter
  BY DEF Reader!CallNext, Steps!CallNext, Reader!DropIter, Steps!DropIter,
      Reader!openVars, Steps!openVars, Reader!walkVars, Steps!walkVars,
      Reader!iterVars, Steps!iterVars, Reader!countVars, Steps!countVars
<1>. QED
  BY <1>1, <1>2, <1>3, <1>4, <1>5, <1>6, <1>7, <1>8, <1>9, <1>10, <1>11, <1>12
  DEF Reader!Next, Steps!Next, Reader!Running, Steps!Running

\* No step undoes a fault.
LEMMA FaultsRemain ==
  ASSUME faults \in Nat, [Next]_vars
  PROVE  faults' \in Nat /\ (faults' = 0 => faults = 0)
<1>1. IoFault => faults' \in Nat /\ faults' # 0
  BY DEF IoFault
<1>2. ASSUME NEW p, NEW k, NEW children, NEW write_chunk,
             AddTo(p, k, children, write_chunk)
      PROVE  UNCHANGED faults \/ IoFault
  BY <1>2 DEF AddTo
<1>3. ASSUME NEW p, NEW children, AddPointGreedy(p, children)
      PROVE  UNCHANGED faults \/ IoFault
  BY <1>2, <1>3 DEF AddPointGreedy
<1>4. ASSUME NEW p \in Points, AddPoint(p)
      PROVE  UNCHANGED faults \/ IoFault
  BY <1>2, <1>3, <1>4 DEF AddPoint, AddPointStochastic
<1>5. ASSUME \/ \E n \in NumPoints : CallWrite(n)
             \/ \E p \in Points : Reject(p)
             \/ EndOfPoints \/ Unwind \/ CloseRefused \/ CloseFinish \/ DropWriter
             \/ \E k \in VoxelKeys : DrainChunk(k)
             \/ UNCHANGED vars
      PROVE  UNCHANGED faults
  BY <1>5 DEF CallWrite, Reject, EndOfPoints, Unwind, CloseRefused, CloseFinish,
              DropWriter, DrainChunk, ghostVars, vars
<1>6. (\E k \in VoxelKeys : DrainFails(k)) \/ CloseFinishFails => IoFault
  BY DEF DrainFails, CloseFinishFails
<1>. QED
  BY <1>1, <1>4, <1>5, <1>6 DEF Next, Running

-----------------------------------------------------------------------------
(* What the writer leaves opens.                                           *)

\* The writer's side of a file to which no write has failed.
FileInv ==
  TypeOK /\ ClosedIsAtRest /\ OnDisk /\ WrittenOnce /\ Layout /\ ~close_failed

\* The reader's: it waits for the writer to close the file, and leave the
\* stream at its start; then it finds a file that tells the truth.
ReadInv ==
  IF phase = "unopened"
  THEN Steps!ReaderInit /\ Rewound
  ELSE /\ pc = "dropped" /\ is_closed
       /\ Steps!NodesInv /\ Steps!QueryInv /\ Steps!SoundInv(Start)

OpenInv ==
  /\ faults \in Nat
  /\ faults = 0 => FileInv /\ ReadInv

LEMMA OpenInitially == RoundTripInit => OpenInv
<1>. SUFFICES ASSUME RoundTripInit PROVE OpenInv
  OBVIOUS
<1>1. Init /\ Steps!ReaderInit
  BY SameReader DEF RoundTripInit
<1>2. FileInv
  <2>1. ClosedIsAtRest /\ ~close_failed
    BY <1>1 DEF Init, ClosedIsAtRest
  <2>. QED
    BY <1>1, <2>1, InitTypeOK, OnDiskInit, WrittenOnceInit, LayoutInit
    DEF FileInv
<1>3. ReadInv
  BY <1>1, LayoutInit DEF ReadInv, Steps!ReaderInit
<1>4. faults \in Nat
  BY <1>1 DEF Init
<1>. QED
  BY <1>2, <1>3, <1>4 DEF OpenInv

LEMMA WritingKeepsFile ==
  ASSUME FileInv, Rewound, faults' = 0, [Next]_vars
  PROVE  FileInv' /\ Rewound'
<1>1. TypeOK' /\ ClosedIsAtRest' /\ OnDisk' /\ WrittenOnce' /\ Layout' /\ Rewound'
  BY TypesInductive, ClosedIsAtRestInductive, OnDiskInductive,
     WrittenOnceInductive, LayoutInductive DEF FileInv
<1>2. ~close_failed'
  <2>1. ~Breaks
    BY DEF Breaks, FileInv, TypeOK, CallTypeOK
  <2>. QED
    BY <2>1, FailsByFault DEF FileInv
<1>. QED
  BY <1>1, <1>2 DEF FileInv

LEMMA ReadingKeepsFile ==
  ASSUME FileInv, is_closed, UNCHANGED writerVars,
         Steps!IsFile(stream'), stream'.disk = stream.disk
  PROVE  FileInv'
<1>. USE DEF FileInv
<1>1. /\ UNCHANGED <<is_closed, nodes, point_count, open_chunks, hierarchy,
                     chunk_start_pos, current_chunk, stale_count, chunk_table>>
      /\ UNCHANGED <<number_of_points, copc_info, pc, result, via, num_points,
                     answer, batch, taken, faults, close_failed>>
  BY DEF writerVars, chunkVars, octreeVars, statVars, callVars, ghostVars
<1>2. Chunks' = Chunks
  BY DEF Chunks
<1>3. stream'.pos \in Nat /\ DOMAIN stream' = {"pos", "disk"}
  BY DEF Steps!IsFile
<1>4. TypeOK'
  BY <1>1, <1>3 DEF TypeOK, OctreeTypeOK, FileTypeOK, StatTypeOK, CallTypeOK
<1>5. ClosedIsAtRest' /\ ~close_failed'
  BY <1>1 DEF ClosedIsAtRest
<1>6. OnDisk'
  BY <1>1, <1>2
  DEF OnDisk, OpenFile, BuffersAtHome, NeverTwice, EntriesLocateChunks, Accepted
<1>7. WrittenOnce'
  BY <1>1 DEF WrittenOnce, OneEntryPerNode, Accepting, WrittenKeys, IsFull
<1>8. ChunksApart' /\ OpenLayout'
  BY <1>1, <1>2 DEF Layout, ChunksApart, OpenLayout
<1>9. ClosedLayout'
  <2>1. \A end, trailer : ClosedDisk(end, trailer)' = ClosedDisk(end, trailer)
    BY <1>1
    DEF ClosedDisk, FileHeader, InfoVlr, LasZipVlr, TableOffset, Table,
        HierarchyEvlr, Trailer, Forwarded, ForwardedEvlr
  <2>. QED
    BY <1>1, <1>2, <1>3, <2>1 DEF Layout, ClosedLayout
<1>. QED
  BY <1>4, <1>5, <1>6, <1>7, <1>8, <1>9 DEF Layout

\* A closed file is one for the reader.
LEMMA FileIsReady ==
  ASSUME Start = 0, FileInv, Steps!ReaderInit, Rewound, faults = 0, is_closed
  PROVE  Steps!NodesInv /\ Steps!QueryInv /\ Steps!SoundInv(Start)
<1>1. PICK end \in Nat, trailer \in TrailerBytes :
        /\ start_pos + 8 <= end
        /\ \A b \in Chunks : b.at + b.len <= end
        /\ stream.disk = Chunks \cup ClosedDisk(end, trailer)
  BY DEF FileInv, Layout, ClosedLayout
<1>2. /\ LaidOut(end, trailer) /\ DOMAIN stream = {"pos", "disk"}
      /\ copc_info.root_hier_size = 32 * Len(hierarchy)
  BY <1>1, CompressorAssumption DEF LaidOut, FileInv, Layout, ClosedLayout
<1>3. Steps!IsFile(stream)
  BY <1>2, ClosedIsFile DEF FileInv, Layout
<1>4. Steps!SoundFile(Start)
  BY <1>2, ClosedIsSound DEF FileInv, Layout
<1>5. Steps!NodesInv /\ Steps!QueryInv
  BY <1>3, Steps!NodesInitially, SameOctree, ReaderAssumptions
<1>6. Steps!SoundInv(Start)
  BY <1>4 DEF Steps!SoundInv, Steps!ReaderInit, Rewound
<1>. QED
  BY <1>5, <1>6

LEMMA ReadingKeepsTruth ==
  ASSUME GapsAreSmall, FileInv, faults = 0, pc = "dropped", is_closed,
         Steps!NodesInv, Steps!QueryInv, Steps!SoundInv(Start),
         [Steps!Next]_(Steps!vars), phase' # "unopened", UNCHANGED writerVars
  PROVE  FileInv' /\ ReadInv'
<1>1. Steps!NodesInv' /\ Steps!QueryInv'
  BY Steps!NodesInductive, SameOctree, ReaderAssumptions
<1>2. Steps!SoundInv(Start)'
  BY Steps!SoundInductive, SameOctree, ReaderAssumptions
<1>3. Steps!IsFile(stream')
  BY <1>1 DEF Steps!NodesInv, Steps!ReaderInv, Steps!SourceInv, Steps!IsFile,
              Steps!PageEntries
<1>4. stream'.disk = stream.disk
  BY Steps!DiskStays, SameOctree, ReaderAssumptions
  DEF Steps!NodesInv, Steps!ReaderInv
<1>5. FileInv'
  BY <1>3, <1>4, ReadingKeepsFile
<1>6. pc' = "dropped" /\ is_closed'
  BY DEF writerVars
<1>. QED
  BY <1>1, <1>2, <1>5, <1>6 DEF ReadInv

LEMMA OpenInductive ==
  ASSUME Start = 0, GapsAreSmall, OpenInv,
         [RoundTripNext]_<<vars, readerVars>>
  PROVE  OpenInv'
<1>1. CASE [Next]_vars /\ UNCHANGED readerVars
  <2>1. faults' \in Nat /\ (faults' = 0 => faults = 0)
    BY <1>1, FaultsRemain DEF OpenInv
  <2>2. ASSUME faults' = 0, phase = "unopened"
        PROVE  FileInv' /\ ReadInv'
    <3>1. FileInv /\ Rewound /\ Steps!ReaderInit
      BY <2>1, <2>2 DEF OpenInv, ReadInv
    <3>2. FileInv' /\ Rewound'
      BY <1>1, <2>2, <3>1, WritingKeepsFile
    <3>3. Steps!ReaderInit' /\ phase' = "unopened"
      BY <1>1, <2>2, <3>1 DEF readerVars, Steps!ReaderInit
    <3>. QED
      BY <3>2, <3>3 DEF ReadInv
  <2>3. ASSUME faults' = 0, phase # "unopened"
        PROVE  FileInv' /\ ReadInv'
    <3>1. /\ FileInv /\ faults = 0 /\ pc = "dropped" /\ is_closed
          /\ Steps!NodesInv /\ Steps!QueryInv /\ Steps!SoundInv(Start)
      BY <2>1, <2>3 DEF OpenInv, ReadInv
    <3>2. UNCHANGED vars
      <4>1. pc # "idle" /\ pc # "adding" /\ pc # "closing"
        BY <3>1
      <4>2. ~Next
        BY <4>1
        DEF Next, Running, CallWrite, EndOfPoints, Unwind, Reject, AddPoint,
            Take, CloseRefused, DrainChunk, DrainFails, CloseFinish,
            CloseFinishFails, DropWriter
      <4>. QED
        BY <1>1, <4>2
    <3>3. UNCHANGED Steps!vars /\ phase' # "unopened" /\ UNCHANGED writerVars
      BY <1>1, <2>3, <3>2
      DEF readerVars, vars, writerVars, fileVars, compressorVars, chunkVars, Steps!vars,
          Steps!openVars, Steps!walkVars, Steps!iterVars, Steps!countVars
    <3>. QED
      BY <3>1, <3>3, ReadingKeepsTruth
  <2>. QED
    BY <2>1, <2>2, <2>3 DEF OpenInv
<1>2. CASE Reading
  <2>1. /\ pc = "dropped" /\ is_closed /\ Steps!Next
        /\ UNCHANGED writerVars /\ faults' = faults
    BY <1>2, SameReader DEF Reading, writerVars, ghostVars
  <2>2. phase' # "unopened"
    BY <2>1, Steps!OpenedForGood, SameOctree, ReaderAssumptions
  <2>3. ASSUME faults = 0
        PROVE  FileInv' /\ ReadInv'
    <3>1. FileInv /\ ReadInv
      BY <2>3 DEF OpenInv
    <3>2. Steps!NodesInv /\ Steps!QueryInv /\ Steps!SoundInv(Start)
      BY <2>1, <2>3, <3>1, FileIsReady DEF ReadInv
    <3>. QED
      BY <2>1, <2>2, <2>3, <3>1, <3>2, ReadingKeepsTruth
  <2>. QED
    BY <2>1, <2>3 DEF OpenInv
<1>. QED
  BY <1>1, <1>2 DEF RoundTripNext, Writing, vars

LEMMA OpenInvariant ==
  ASSUME Start = 0, GapsAreSmall
  PROVE  RoundTripSpec => []OpenInv
<1>1. OpenInv /\ [RoundTripNext]_<<vars, readerVars>> => OpenInv'
  BY OpenInductive
<1>. QED
  BY <1>1, OpenInitially, PTL DEF RoundTripSpec

(***************************************************************************)
(* The reader opens every file the writer closes at the beginning of the   *)
(* stream, and a walk or an iterator finds its records and chunks wherever *)
(* it looks for them.                                                      *)
(***************************************************************************)
THEOREM ClosedFilesAreRead ==
  ASSUME Start = 0, GapsAreSmall
  PROVE  RoundTripSpec => [](faults = 0 => WrittenFilesOpen)
<1>1. OpenInv => (faults = 0 => WrittenFilesOpen)
  BY DEF OpenInv, ReadInv, Steps!SoundInv, WrittenFilesOpen
<1>. QED
  BY <1>1, OpenInvariant, PTL

-----------------------------------------------------------------------------
(* What is written comes back.                                             *)

\* What the writer knows of the points it accepted, if no write has failed.
PointsInv ==
  /\ CountedNodesExist /\ result # NotAdded
  /\ Kept /\ ClosedHoldsAccepted
  /\ ParentsWritten /\ AncestorsWritten
  /\ AllCounted

RoundTripInv == OpenInv /\ (faults = 0 => PointsInv)

LEMMA PointsInitially ==
  ASSUME Init
  PROVE  PointsInv
<1>1. Accepted = {} /\ number_of_points = 0 /\ ~is_closed
  BY DEF Init, Accepted
<1>2. ClosedHoldsAccepted /\ AllCounted
  BY <1>1, FS_EmptySet DEF ClosedHoldsAccepted, AllCounted
<1>3. CountedNodesExist
  BY DEF Init, CountedNodesExist
<1>4. AncestorsWritten
  <2>1. hierarchy = <<>> /\ ~close_failed /\ \A k \in VoxelKeys : open_chunks[k] = {}
    BY DEF Init
  <2>2. WrittenKeys = {}
    BY <2>1 DEF WrittenKeys
  <2>. QED
    BY <2>1, <2>2 DEF AncestorsWritten
<1>. QED
  BY <1>2, <1>3, <1>4, OnDiskInit, ParentsWrittenInit DEF PointsInv

LEMMA WritingKeepsPoints ==
  ASSUME NoPointInAGap, AlwaysGreedy, FileInv, PointsInv, [Next]_vars
  PROVE  PointsInv'
<1>. USE DEF FileInv, PointsInv
<1>1. CountedNodesExist' /\ result' # NotAdded
  BY CountedNodesExistInductive, StepsFindNodes
<1>2. Kept' /\ ClosedHoldsAccepted'
  BY <1>1, OnDiskInductive, ClosedHoldsAcceptedInductive
<1>3. ParentsWritten' /\ AncestorsWritten'
  BY ParentsWrittenInductive, AncestorsWrittenInductive
<1>4. AllCounted'
  BY AllCountedInductive
<1>. QED
  BY <1>1, <1>2, <1>3, <1>4

LEMMA ReadingKeepsPoints ==
  ASSUME PointsInv, UNCHANGED writerVars, stream'.disk = stream.disk
  PROVE  PointsInv'
<1>1. /\ UNCHANGED <<is_closed, nodes, point_count, open_chunks, hierarchy,
                     number_of_points, pc, result, num_points, taken, faults,
                     close_failed>>
      /\ Chunks' = Chunks
  BY DEF writerVars, octreeVars, statVars, callVars, ghostVars, Chunks
<1>2. Accepted' = Accepted /\ WrittenKeys' = WrittenKeys
  BY <1>1 DEF Accepted, WrittenKeys
<1>3. CountedNodesExist' /\ result' # NotAdded
  BY <1>1 DEF PointsInv, CountedNodesExist
<1>4. Kept' /\ ClosedHoldsAccepted' /\ AllCounted'
  BY <1>1, <1>2 DEF PointsInv, Kept, ClosedHoldsAccepted, AllCounted
<1>5. ParentsWritten' /\ AncestorsWritten'
  BY <1>1, <1>2
  DEF PointsInv, ParentsWritten, ParentsFirst, AncestorsWritten, Accepting, IsFull
<1>. QED
  BY <1>3, <1>4, <1>5 DEF PointsInv

LEMMA PointsInductive ==
  ASSUME Start = 0, GapsAreSmall, NoPointInAGap, AlwaysGreedy, RoundTripInv,
         [RoundTripNext]_<<vars, readerVars>>
  PROVE  RoundTripInv'
<1>1. OpenInv'
  BY OpenInductive DEF RoundTripInv
<1>2. ASSUME faults' = 0
      PROVE  PointsInv'
  <2>1. CASE [Next]_vars
    <3>1. faults = 0
      BY <1>2, <2>1, FaultsRemain DEF RoundTripInv, OpenInv
    <3>. QED
      BY <2>1, <3>1, WritingKeepsPoints DEF RoundTripInv, OpenInv
  <2>2. CASE Reading
    <3>1. /\ Steps!Next /\ is_closed /\ UNCHANGED writerVars
          /\ faults = 0
      BY <1>2, <2>2, SameReader DEF Reading, writerVars, ghostVars
    <3>2. Steps!NodesInv
      BY <3>1, FileIsReady DEF RoundTripInv, OpenInv, ReadInv
    <3>3. stream'.disk = stream.disk
      BY <3>1, <3>2, Steps!DiskStays, SameOctree, ReaderAssumptions
      DEF Steps!NodesInv, Steps!ReaderInv
    <3>. QED
      BY <3>1, <3>3, ReadingKeepsPoints DEF RoundTripInv
  <2>. QED
    BY <2>1, <2>2 DEF RoundTripNext, Writing, vars
<1>. QED
  BY <1>1, <1>2 DEF RoundTripInv

LEMMA RoundTripInvariant ==
  ASSUME Start = 0, GapsAreSmall, NoPointInAGap, AlwaysGreedy
  PROVE  RoundTripSpec => []RoundTripInv
<1>1. RoundTripInit => RoundTripInv
  BY OpenInitially, PointsInitially DEF RoundTripInv, RoundTripInit
<1>2. RoundTripInv /\ [RoundTripNext]_<<vars, readerVars>> => RoundTripInv'
  BY PointsInductive
<1>. QED
  BY <1>1, <1>2, PTL DEF RoundTripSpec

-----------------------------------------------------------------------------
(* What a reader of a written file has stored.                             *)

LEMMA StoredIsWritten ==
  ASSUME Start = 0, FileInv, ReadInv, faults = 0, phase = "iterating"
  PROVE  /\ Steps!Stored = { hierarchy[i] : i \in DOMAIN hierarchy }
         /\ Steps!WithPoints = Steps!Stored
         /\ Steps!PointsStoredOnce
         /\ \A i \in DOMAIN hierarchy : \E b \in Chunks :
              /\ b.at = hierarchy[i].offset
              /\ Steps!Content(hierarchy[i]) = b.points
              /\ \A p \in b.points : hierarchy[i].key \in Home[p]
<1>1. /\ is_closed /\ Steps!NodesInv /\ Steps!SoundInv(Start) /\ start = Start
  BY DEF ReadInv, Steps!SoundInv
<1>2. PICK end \in Nat, trailer \in TrailerBytes :
        /\ start_pos + 8 <= end
        /\ \A b \in Chunks : b.at + b.len <= end
        /\ stream.disk = Chunks \cup ClosedDisk(end, trailer)
  BY <1>1 DEF FileInv, Layout, ClosedLayout
<1>3. /\ LaidOut(end, trailer)
      /\ copc_info.root_hier_size = 32 * Len(hierarchy)
  BY <1>1, <1>2, CompressorAssumption DEF LaidOut, FileInv, Layout, ClosedLayout
<1>4. Steps!Listed(Start) = { hierarchy[i] : i \in DOMAIN hierarchy }
  BY <1>3, ClosedIsSound DEF FileInv, Layout
<1>5. /\ Steps!Stored = Steps!Listed(Start) /\ Steps!WithPoints = Steps!Stored
      /\ Steps!PointsStoredOnce
  BY <1>1, Steps!SoundFileIsStored, SameOctree, ReaderAssumptions
  DEF Steps!Opened
<1>6. ASSUME NEW i \in DOMAIN hierarchy
      PROVE  \E b \in Chunks :
               /\ b.at = hierarchy[i].offset
               /\ Steps!Content(hierarchy[i]) = b.points
               /\ \A p \in b.points : hierarchy[i].key \in Home[p]
  <2>1. PICK b \in Chunks :
          /\ Steps!ChunksAt(hierarchy[i].offset + Start) = {b}
          /\ b.at = hierarchy[i].offset
          /\ \A p \in b.points : hierarchy[i].key \in Home[p]
    BY ChunkOfEntry DEF FileInv, Layout
  <2>2. Steps!Content(hierarchy[i]) = b.points
    BY <1>1, <2>1 DEF Steps!Content
  <2>. QED
    BY <2>1, <2>2
<1>. QED
  BY <1>4, <1>5, <1>6

\* A point in a node's chunk lies in the voxel of the node, as the reader
\* computes it.
LEMMA HomesHoldPoints ==
  ASSUME NoPointInAGap, NEW p \in Points, NEW k \in Home[p], InRootBounds(p)
  PROVE  BoundsContainPoint(VoxelBounds(k), Position[p])
<1>1. k \in VoxelKeys /\ BoundsContainPoint(NodeBounds(k), Position[p])
  BY DEF Home, VoxelsOf
<1>2. CASE k # Root
  BY <1>1, <1>2 DEF NodeBounds
<1>3. CASE k = Root
  <2>. SUFFICES ASSUME NEW a \in Axis
                PROVE  /\ VoxelBounds(Root).min[a] <= Position[p][a]
                       /\ Position[p][a] <= VoxelBounds(Root).max[a]
    BY <1>3 DEF BoundsContainPoint
  <2>1. /\ RootBounds.min[a] <= Position[p][a]
        /\ Position[p][a] <= RootBounds.max[a] - FaceGap[a]
    BY DEF NoPointInAGap, InRootBounds, NodeBounds, BoundsContainPoint
  <2>2. /\ RootBounds.min[a] \in Int /\ RootBounds.max[a] \in Int
        /\ FaceGap[a] \in Nat /\ halfsize \in Nat
        /\ RootBounds.max[a] = RootBounds.min[a] + 2 * halfsize
    <3>1. halfsize \in Nat /\ RootBounds \in Boxes /\ FaceGap[a] \in Nat
      BY HalfsizeIsPositive, OctreeAssumption
    <3>2. Center[a] \in Int
      BY OctreeAssumption DEF Center
    <3>3. /\ RootBounds.min[a] = Center[a] - halfsize
          /\ RootBounds.max[a] = Center[a] + halfsize
      BY DEF RootBounds
    <3>. QED
      BY <3>1, <3>2, <3>3
  <2>3. /\ Root.level = 0 /\ Root.pos[a] = 0 /\ 2^0 = 1
    BY DEF Root
  <2>4. (2 * halfsize) \div 2^0 = 2 * halfsize
    BY <2>2, <2>3
  <2>5. /\ VoxelBounds(Root).min[a] = RootBounds.min[a]
        /\ VoxelBounds(Root).max[a] =
             RootBounds.min[a] + 2 * halfsize - FaceGap[a]
    BY <2>2, <2>3, <2>4 DEF VoxelBounds
  <2>. QED
    BY <2>1, <2>2, <2>5
<1>. QED
  BY <1>2, <1>3

LEMMA AllIsFound ==
  ASSUME Start = 0, NoPointInAGap, FileInv, PointsInv, ReadInv, faults = 0,
         phase = "iterating"
  PROVE  /\ Steps!Found \subseteq Accepted
         /\ \A p \in Accepted : \E e \in Steps!Stored :
              Steps!Reachable(e) /\ e.point_count > 0 /\ p \in Steps!Content(e)
         /\ Steps!PointsLieInVoxels
<1>1. /\ Steps!Stored = { hierarchy[i] : i \in DOMAIN hierarchy }
      /\ Steps!WithPoints = Steps!Stored
      /\ \A i \in DOMAIN hierarchy : \E b \in Chunks :
           /\ b.at = hierarchy[i].offset
           /\ Steps!Content(hierarchy[i]) = b.points
           /\ \A p \in b.points : hierarchy[i].key \in Home[p]
  BY StoredIsWritten
<1>2. /\ is_closed /\ Steps!NodesInv
      /\ UNION { b.points : b \in Chunks } = Accepted
  BY DEF ReadInv, PointsInv, ClosedHoldsAccepted
<1>3. Steps!Found \subseteq Accepted
  <2>1. satisfying_nodes \subseteq Steps!WithPoints
    BY <1>2 DEF Steps!NodesInv, Steps!ReaderInv, Steps!WalkInv
  <2>. QED
    BY <1>1, <1>2, <2>1 DEF Steps!Found
<1>4. ASSUME NEW p \in Accepted
      PROVE  \E e \in Steps!Stored :
               /\ Steps!Reachable(e) /\ e.point_count > 0
               /\ p \in Steps!Content(e)
  <2>1. PICK c \in Chunks : p \in c.points
    BY <1>2
  <2>2. PICK i \in DOMAIN hierarchy : hierarchy[i].offset = c.at
    BY <2>1 DEF FileInv, Layout, ChunksApart
  <2>3. PICK b \in Chunks :
          b.at = hierarchy[i].offset /\ Steps!Content(hierarchy[i]) = b.points
    BY <1>1
  <2>4. p \in Steps!Content(hierarchy[i])
    <3>1. /\ b.at \in Nat /\ b.len \in Nat /\ b.len # 0
          /\ c.at \in Nat /\ c.len \in Nat /\ c.len # 0
          /\ b # c => Disjoint(b, c)
      BY DEF FileInv, Layout, ChunksApart
    <3>2. b.at = c.at
      BY <2>2, <2>3
    <3>3. b = c
      BY <3>1, <3>2 DEF Disjoint
    <3>. QED
      BY <2>1, <2>3, <3>3
  <2>5. Steps!Reachable(hierarchy[i])
    <3>1. hierarchy[i].key \in VoxelKeys /\ hierarchy[i].key \in WrittenKeys
      <4>1. hierarchy[i] \in Entries
        BY DEF FileInv, TypeOK, FileTypeOK
      <4>. QED
        BY <4>1 DEF Entries, WrittenKeys
    <3>2. Ancestors(hierarchy[i].key) \subseteq WrittenKeys
      BY <3>1 DEF PointsInv, AncestorsWritten
    <3>3. WrittenKeys \subseteq DOMAIN hierarchy_entries
      <4>. SUFFICES ASSUME NEW j \in DOMAIN hierarchy
                    PROVE  hierarchy[j].key \in DOMAIN hierarchy_entries
        BY DEF WrittenKeys
      <4>1. PICK k \in DOMAIN hierarchy_entries :
              hierarchy_entries[k] = hierarchy[j]
        BY <1>1 DEF Steps!Stored
      <4>2. hierarchy_entries[k].key = k
        BY <1>2 DEF Steps!NodesInv, Steps!ReaderInv, Steps!EntriesInv
      <4>. QED
        BY <4>1, <4>2
    <3>. QED
      BY <3>2, <3>3, SameOctree DEF Steps!Reachable
  <2>6. hierarchy[i].point_count > 0 /\ hierarchy[i] \in Steps!Stored
    BY <1>1 DEF Steps!WithPoints
  <2>. QED
    BY <2>4, <2>5, <2>6
<1>5. Steps!PointsLieInVoxels
  <2>1. ASSUME NEW e \in Steps!WithPoints, NEW p \in Steps!Content(e)
        PROVE  BoundsContainPoint(VoxelBounds(e.key), Position[p])
    <3>1. PICK i \in DOMAIN hierarchy : e = hierarchy[i]
      BY <1>1
    <3>2. PICK b \in Chunks : /\ p \in b.points
                              /\ e.key \in Home[p]
      BY <1>1, <2>1, <3>1
    <3>3. p \in Points /\ InRootBounds(p)
      BY <1>2, <3>2 DEF Accepted, Valid, FileInv, TypeOK, CallTypeOK
    <3>. QED
      BY <3>2, <3>3, HomesHoldPoints
  <2>. QED
    BY <2>1, SameOctree DEF Steps!PointsLieInVoxels
<1>. QED
  BY <1>3, <1>4, <1>5

\* A point comes back if it was written and the bounds contain it.
LEMMA FullyReadReturns ==
  ASSUME Start = 0, GapsAreSmall, NoPointInAGap, FileInv, PointsInv, ReadInv,
         faults = 0, FullyRead, NEW p \in Points
  PROVE  /\ returned[p] \in {0, 1}
         /\ p \notin Written => returned[p] = 0
         /\ p \in Written =>
              returned[p] = 1 \/ \E b \in query.bounds :
                                   ~BoundsContainPoint(b, Position[p])
<1>1. /\ phase = "iterating" /\ done /\ query.levels.select = "All"
      /\ Steps!NodesInv /\ Steps!QueryInv
      /\ Written = Accepted
  BY DEF FullyRead, ReadInv, Written, Accepted
<1>2. /\ Steps!Found \subseteq Accepted /\ Steps!PointsLieInVoxels
      /\ \A q \in Accepted : \E e \in Steps!Stored :
           Steps!Reachable(e) /\ e.point_count > 0 /\ q \in Steps!Content(e)
  BY <1>1, AllIsFound
<1>3. Steps!PointsStoredOnce
  BY <1>1, StoredIsWritten
<1>4. returned[p] = IF p \in Steps!Found \ Steps!Left /\ Steps!InQueryBounds(p)
                    THEN 1 ELSE 0
  BY <1>1, <1>3 DEF Steps!NodesInv, Steps!IterInv, Steps!Iterating
<1>5. Steps!PointsInBoundsComeBack
  BY <1>1, <1>2, <1>3, Steps!PointsComeBack, SameOctree, ReaderAssumptions
<1>6. ASSUME p \in Written, \A b \in query.bounds : BoundsContainPoint(b, Position[p])
      PROVE  returned[p] = 1
  <2>1. PICK e \in Steps!Stored :
          Steps!Reachable(e) /\ e.point_count > 0 /\ p \in Steps!Content(e)
    BY <1>1, <1>2, <1>6
  <2>. QED
    BY <1>1, <1>5, <1>6, <2>1, SameOctree DEF Steps!PointsInBoundsComeBack
<1>. QED
  BY <1>1, <1>2, <1>4, <1>6

(***************************************************************************)
(* Every written point comes back: whatever greedy calls of write, chunks  *)
(* and close do, if no write fails and no point lies in a rounding gap, a  *)
(* full resolution query returns the written points in its bounds, each    *)
(* once, and no other point.                                               *)
(***************************************************************************)
THEOREM WrittenPointsRoundTrip ==
  ASSUME Start = 0, GapsAreSmall, NoPointInAGap, AlwaysGreedy
  PROVE  RoundTripSpec => [](faults = 0 => EveryWrittenPointRoundTrips)
<1>1. ASSUME RoundTripInv
      PROVE  faults = 0 => EveryWrittenPointRoundTrips
  <2>. SUFFICES ASSUME faults = 0, FullyRead, NEW p \in Points
                PROVE  /\ p \notin Written => returned[p] = 0
                       /\ p \in Written =>
                            returned[p] = 1 \/ \E b \in query.bounds :
                                                 ~BoundsContainPoint(b, Position[p])
                       /\ returned[p] <= 1
    BY DEF EveryWrittenPointRoundTrips
  <2>1. /\ returned[p] \in {0, 1}
        /\ p \notin Written => returned[p] = 0
        /\ p \in Written =>
             returned[p] = 1 \/ \E b \in query.bounds :
                                  ~BoundsContainPoint(b, Position[p])
    BY <1>1, FullyReadReturns DEF RoundTripInv, OpenInv
  <2>2. returned[p] <= 1
    BY <2>1
  <2>. QED
    BY <2>1, <2>2
<1>. QED
  BY <1>1, RoundTripInvariant, PTL

(***************************************************************************)
(* The header of a written file counts the points a reader gets from a     *)
(* full resolution query without bounds.                                   *)
(***************************************************************************)
THEOREM HeadersCountReadPoints ==
  ASSUME Start = 0, GapsAreSmall, NoPointInAGap, AlwaysGreedy
  PROVE  RoundTripSpec => [](faults = 0 => HeaderCountsWhatIsRead)
<1>1. ASSUME RoundTripInv
      PROVE  faults = 0 => HeaderCountsWhatIsRead
  <2>. SUFFICES ASSUME faults = 0, FullyRead, query.bounds = {},
                       Points \subseteq Encodable
                PROVE  number_of_points =
                         Cardinality({ p \in Points : returned[p] > 0 })
    BY DEF HeaderCountsWhatIsRead
  <2>1. number_of_points = Cardinality(Accepted)
    BY <1>1 DEF RoundTripInv, PointsInv, AllCounted
  <2>2. ASSUME NEW p \in Points
        PROVE  returned[p] > 0 <=> p \in Accepted
    <3>1. /\ returned[p] \in {0, 1}
          /\ p \notin Written => returned[p] = 0
          /\ p \in Written =>
               returned[p] = 1 \/ \E b \in query.bounds :
                                    ~BoundsContainPoint(b, Position[p])
      BY <1>1, FullyReadReturns DEF RoundTripInv, OpenInv
    <3>2. p \in Accepted <=> returned[p] = 1
      BY <3>1 DEF Written, Accepted
    <3>. QED
      BY <3>1, <3>2
  <2>3. Accepted \subseteq Points
    BY <1>1 DEF RoundTripInv, OpenInv, FileInv, TypeOK, CallTypeOK, Accepted
  <2>4. { p \in Points : returned[p] > 0 } = Accepted
    BY <2>2, <2>3
  <2>. QED
    BY <2>1, <2>4
<1>. QED
  BY <1>1, RoundTripInvariant, PTL
=============================================================================
