---------------------------- MODULE MCCopcWriter ----------------------------
(* Small instances of the writer for TLC.                                  *)
EXTENDS CopcWriterClaims

\* The header's bounds are 8 by 6, the root of the octree is a square of side
\* 8 around them: 0..8 by -1..7.
MCHeaderMin == <<0, 0>>
MCHeaderMax == <<8, 6>>
NoGap  == <<0, 0>>
TopGap == <<1, 0>>

\* Points 1, 2, 3, 5 share a voxel of level 2; point 4 is the center, a corner
\* of four voxels of level 1; point 6 is in the root and outside the header's
\* bounds; point 7 is outside the root; point 8 lies on the upper face.
MCPosition ==
  [p \in Points |->
     <<<<0, 0>>, <<1, 1>>, <<2, 1>>, <<4, 3>>, <<1, 0>>,
       <<5, 7>>, <<9, 0>>, <<8, 1>>>>[p]]

MCF64Min == -100
MCF64Max == 100
MCGpsTime == [p \in Points |-> 10 - p]
=============================================================================
