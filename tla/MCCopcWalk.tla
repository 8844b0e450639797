----------------------------- MODULE MCCopcWalk -----------------------------
(* Small instances of the walks.                                           *)
EXTENDS CopcWalk

MCHeaderMin == <<0, 0>>
MCHeaderMax == <<8, 6>>
TopGap == <<1, 0>>

\* 1 and 2 in one voxel of level 2, 4 on the corner of four of level 1, 8 on
\* the upper face of the root, which its children do not reach.
MCPosition == [p \in Points |->
  <<<<0, 0>>, <<1, 1>>, <<2, 1>>, <<4, 3>>, <<1, 0>>, <<5, 7>>, <<9, 0>>,
    <<8, 1>>>>[p]]

MCF64Min == -100
MCF64Max == 100
MCGpsTime == [p \in Points |-> 10 - p]
=============================================================================
