---------------------------- MODULE MCCopcReader ----------------------------
(* Small files and queries for the reader.                                 *)
EXTENDS CopcReader

\* The root is a square of side 8: 0..8 by -1..7.
MCHeaderMin == <<0, 0>>
MCHeaderMax == <<8, 6>>
NoGap  == <<0, 0>>

MCPosition == [p \in Points |->
  <<<<0, 0>>, <<1, 1>>, <<2, 1>>, <<4, 3>>, <<1, 0>>, <<5, 7>>, <<9, 0>>,
    <<8, 1>>>>[p]]

Voxel(l, x, y) == [level |-> l, pos |-> <<x, y>>]

EntryAt(k, at, n) ==
  [key |-> k, offset |-> at, byte_size |-> 2, point_count |-> n]

\* Five entries; the chunks do not lie in the order of the tree.  An inner
\* entry has no points, and its child has two.
Tree == <<EntryAt(Root, 20, 1), EntryAt(Voxel(1, 0, 0), 0, 0),
          EntryAt(Voxel(2, 0, 0), 17, 2), EntryAt(Voxel(1, 1, 0), 24, 1),
          EntryAt(Voxel(1, 1, 1), 22, 1)>>

TreeChunks(s) ==
  { [at |-> s + 17, len |-> 3, points |-> {1, 5}],
    [at |-> s + 20, len |-> 2, points |-> {4}],
    [at |-> s + 22, len |-> 2, points |-> {6}],
    [at |-> s + 24, len |-> 2, points |-> {8}] }

HeaderAt(s, n) ==
  [at |-> s, len |-> 4, start_of_first_evlr |-> 30, number_of_evlrs |-> n,
   offset_to_point_data |-> 9, number_of_points |-> 5]

InfoAt(s, size) ==
  [at |-> s + 4, len |-> 3,
   info |-> [root_hier_offset |-> 151, root_hier_size |-> size,
             root_points |-> 1]]

LasZipAt(s) == [at |-> s + 7, len |-> 2, laszip |-> TRUE]

EvlrAt(s) == [at |-> s + 30, len |-> 61, evlr |-> 1]

PageAt(s, entries) ==
  [at |-> s + 91, len |-> 60 + 32 * Len(entries), page |-> entries]

Source(s, blocks) == [pos |-> s, disk |-> blocks \cup TreeChunks(s)]

\* The evlr of the hierarchy is the second of two.
Whole(s) ==
  Source(s, {HeaderAt(s, 2), InfoAt(s, 160), LasZipAt(s), EvlrAt(s),
             PageAt(s, Tree)})

NoInfo == Source(0, {HeaderAt(0, 2), LasZipAt(0), EvlrAt(0), PageAt(0, Tree)})

NoLasZip == Source(0, {HeaderAt(0, 2), InfoAt(0, 160), EvlrAt(0),
                       PageAt(0, Tree)})

NoHierarchy == Source(0, {HeaderAt(0, 1), InfoAt(0, 160), LasZipAt(0),
                          EvlrAt(0)})

ShortPage == Source(0, {HeaderAt(0, 2), InfoAt(0, 192), LasZipAt(0),
                        EvlrAt(0), PageAt(0, Tree)})

\* The root page has two entries, the second one for a child page behind it.
Paged ==
  Source(0, {HeaderAt(0, 2), InfoAt(0, 64), LasZipAt(0), EvlrAt(0),
    PageAt(0, <<EntryAt(Root, 20, 1),
                [key |-> Voxel(1, 1, 1), offset |-> 151 + 64,
                 byte_size |-> 64, point_count |-> -1],
                EntryAt(Voxel(1, 1, 1), 22, 1),
                EntryAt(Voxel(1, 1, 0), 24, 1)>>)})

\* The same, but the child page is where the reader looks for it: the root
\* page is not taken off twice.
FoundPage ==
  Source(0, {HeaderAt(0, 2), InfoAt(0, 64), LasZipAt(0), EvlrAt(0),
    PageAt(0, <<EntryAt(Root, 20, 1),
                [key |-> Voxel(1, 1, 1), offset |-> 151 + 151 + 64,
                 byte_size |-> 64, point_count |-> -1],
                EntryAt(Voxel(1, 1, 1), 22, 1),
                EntryAt(Voxel(1, 1, 0), 24, 1)>>)})

\* The entry of a node counts a point that its chunk does not have.
Overcounted ==
  Source(0, {HeaderAt(0, 2), InfoAt(0, 64), LasZipAt(0), EvlrAt(0),
    PageAt(0, <<EntryAt(Root, 20, 2), EntryAt(Voxel(1, 1, 1), 22, 1)>>)})

MCFiles ==
  {Whole(0), Whole(3), NoInfo, NoLasZip, NoHierarchy, ShortPage, Paged,
   FoundPage, Overcounted}

PagedFiles == {Whole(0), Paged}

Box(x, y, u, v) == {[min |-> <<x, y>>, max |-> <<u, v>>]}

AllLevels == [select |-> "All"]
Resolution(r) == [select |-> "Resolution", resolution |-> r]
Level(l) == [select |-> "Level", level |-> l]
LevelMinMax(l, m) == [select |-> "LevelMinMax", min |-> l, max |-> m]

\* Resolutions between, on and above the spacings of two levels; boxes around
\* a voxel, touching the face of one, holding one corner, meeting voxels but
\* no point, and beyond the range of the transforms.
MCQueries ==
  { [levels |-> l, bounds |-> {}] :
      l \in {AllLevels, Resolution(0), Resolution(8), Resolution(4),
             Resolution(3), Level(1), LevelMinMax(1, 2), LevelMinMax(0, 2)} }
  \cup
  { [levels |-> AllLevels, bounds |-> b] :
      b \in {Box(0, 0, 1, 1), Box(8, 1, 9, 1), Box(4, 3, 4, 3), Box(2, -1, 2, -1),
             Box(5, 3, 100, 9)} }

MCClaimQueries == { [levels |-> AllLevels, bounds |-> {}] }
=============================================================================
