-------------------------- MODULE MCCopcRoundTrip ---------------------------
(* Small instances of the writer with a reader.                            *)
EXTENDS CopcRoundTrip

MCHeaderMin == <<0, 0>>
MCHeaderMax == <<8, 6>>
NoGap == <<0, 0>>

\* 1, 2, 3 in one voxel of level 2, 4 on the corner of four of level 1.
MCPosition == [p \in Points |->
                 <<<<0, 0>>, <<1, 1>>, <<2, 1>>, <<4, 3>>, <<1, 0>>>>[p]]

MCF64Min == -100
MCF64Max == 100
MCGpsTime == [p \in Points |-> 10 - p]

\* Everything; a box around two points; a box that has only a corner in
\* common with the voxels of point 4.
MCQueries ==
  { [levels |-> [select |-> "All"], bounds |-> b] :
      b \in { {}, {[min |-> <<0, 0>>, max |-> <<1, 1>>]},
              {[min |-> <<4, 3>>, max |-> <<9, 9>>]} } }

MCFullQuery == { [levels |-> [select |-> "All"], bounds |-> {}] }
=============================================================================
