----------------------------- MODULE CopcOctree -----------------------------
(***************************************************************************)
(* The octree of a COPC file (src/src/copc.rs): voxel keys, the bounds of  *)
(* a voxel, and the order in which the writer's stack visits the voxels    *)
(* that contain a point.                                                   *)
(*                                                                         *)
(* The code works on three axes and on f64 coordinates.  Every operator    *)
(* here treats all axes alike, so their number is a parameter, and         *)
(* coordinates are integers on a grid fine enough for every voxel face of  *)
(* a level <= MaxLevel to be a grid line.  The one rounding error of the   *)
(* code that does not stay below the grid is the parameter FaceGap.        *)
(***************************************************************************)
EXTENDS Integers

CONSTANTS
  Axes,       \* number of axes: 3 in the code
  MaxLevel,   \* bound on the depth of the octree
  HeaderMin,  \* lower corner of the bounds in the las header, axis by axis
  HeaderMax,  \* upper corner
  FaceGap     \* axis by axis, how far the uppermost voxel face falls below
              \* the upper face of the root (0 in exact arithmetic)

Axis == 1 .. Axes

ASSUME OctreeAssumption ==
  /\ Axes \in 1 .. 3
  /\ MaxLevel \in Nat
  /\ HeaderMin \in [Axis -> Int]
  /\ HeaderMax \in [Axis -> Int]
  /\ \A a \in Axis : HeaderMin[a] < HeaderMax[a]
  /\ \A a \in Axis : (HeaderMin[a] + HeaderMax[a]) % 2 = 0
  /\ FaceGap \in [Axis -> Nat]

-----------------------------------------------------------------------------
(* Voxel keys: a level and one index per axis.                             *)

Root == [level |-> 0, pos |-> [a \in Axis |-> 0]]

VoxelKeys ==
  {Root} \cup
    UNION { {[level |-> l, pos |-> q] : q \in [Axis -> 0 .. (2^l - 1)]} :
              l \in 1 .. MaxLevel }

Directions == 0 .. (2^Axes - 1)

\* VoxelKey::child: every index is doubled and takes one bit of dir.
Child(k, dir) ==
  [level |-> k.level + 1,
   pos   |-> [a \in Axis |-> 2 * k.pos[a] + ((dir \div 2^(a - 1)) % 2)]]

\* Those within the bound on the depth.
Children(k) == { Child(k, dir) : dir \in Directions } \cap VoxelKeys

\* The voxel of level l that contains voxel k.
Ancestor(k, l) ==
  [level |-> l, pos |-> [a \in Axis |-> k.pos[a] \div 2^(k.level - l)]]

Ancestors(k) == { Ancestor(k, l) : l \in 0 .. (k.level - 1) }

Parent(k) == Ancestor(k, k.level - 1)

Direction(k) == CHOOSE dir \in Directions : Child(Parent(k), dir) = k

(***************************************************************************)
(* The walks of the writer pop a stack on which the children of a node are *)
(* pushed in the order of their direction: a node is visited before its    *)
(* descendants, and a child of higher direction, with all that is below    *)
(* it, before its siblings.                                                *)
(***************************************************************************)
VisitedBefore(j, k) ==
  \/ j \in Ancestors(k)
  \/ \E l \in 1 .. MaxLevel :
       /\ l <= j.level /\ l <= k.level
       /\ Ancestor(j, l - 1) = Ancestor(k, l - 1)
       /\ Direction(Ancestor(j, l)) > Direction(Ancestor(k, l))

-----------------------------------------------------------------------------
(* Bounds: records of a lower and an upper corner.                         *)

\* The longest half extent of the header's bounds, from their center.
Center == [a \in Axis |-> (HeaderMin[a] + HeaderMax[a]) \div 2]

halfsize ==
  CHOOSE h \in { Center[a] - HeaderMin[a] : a \in Axis } :
    \A a \in Axis : Center[a] - HeaderMin[a] <= h

ASSUME GridAssumption == (2 * halfsize) % 2^MaxLevel = 0

\* The cube CopcWriter::new builds around the header's bounds.
RootBounds ==
  [min |-> [a \in Axis |-> Center[a] - halfsize],
   max |-> [a \in Axis |-> Center[a] + halfsize]]

\* VoxelKey::bounds: min + i * side and min + (i + 1) * side.  On the
\* uppermost face the sum is rounded, and may fall short of RootBounds.max.
VoxelBounds(k) ==
  LET side == (2 * halfsize) \div 2^k.level
      low(a)  == RootBounds.min[a] + k.pos[a] * side
      gap(a)  == IF k.pos[a] + 1 = 2^k.level THEN FaceGap[a] ELSE 0
  IN  [min |-> [a \in Axis |-> low(a)],
       max |-> [a \in Axis |-> low(a) + side - gap(a)]]

\* The bounds a node of the writer's octree carries: the root keeps the cube
\* it was built with, every other node gets VoxelKey::bounds.
NodeBounds(k) == IF k = Root THEN RootBounds ELSE VoxelBounds(k)

\* bounds_contains_point: all faces belong to the voxel.
BoundsContainPoint(b, x) ==
  \A a \in Axis : b.min[a] <= x[a] /\ x[a] <= b.max[a]

\* bounds_intersect: boxes that share only a face do intersect.
BoundsIntersect(b, c) ==
  \A a \in Axis : b.min[a] <= c.max[a] /\ c.min[a] <= b.max[a]

\* The voxels a walk from the root can reach for a point at x: it goes below
\* a node only when the node's bounds contain the point.
VoxelsOf(x) ==
  { k \in VoxelKeys : \A j \in Ancestors(k) \cup {k} :
                         BoundsContainPoint(NodeBounds(j), x) }
=============================================================================
