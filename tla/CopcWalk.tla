------------------------------ MODULE CopcWalk ------------------------------
(***************************************************************************)
(* The loops of add_point_greedy and add_point_stochastic (writer.rs       *)
(* 637-677 and 720-753), one turn a step.  CopcWriter says at once in      *)
(* which node a point ends and which nodes its walk creates; here a walk   *)
(* pops its stack, tests bounds, creates children and pushes them, and     *)
(* only its end is a step of the writer.                                   *)
(***************************************************************************)
EXTENDS CopcWriter, SequencesExt

VARIABLES
  strategy,         \* the walk that runs: "none", "greedy" or "stochastic"
  point,            \* the point it is for
  nodes_to_check,   \* its stack, the top at the end
  node_candidates,  \* the nodes the stochastic walk may choose, in order
  grown             \* the nodes created for this point, to be added
                    \* to those of the octree when the walk ends

walkVars == <<strategy, point, nodes_to_check, node_candidates, grown>>

WalkInit ==
  /\ Init
  /\ strategy = "none"
  /\ point = CHOOSE p \in Points : TRUE
  /\ nodes_to_check = <<>>
  /\ node_candidates = <<>>
  /\ grown = {}

-----------------------------------------------------------------------------
\* The strategy for the next point; the batch holds those before it.
Chosen ==
  IF Greedy(num_points) \/ num_points <= Cardinality(batch)
  THEN "greedy" ELSE "stochastic"

\* The bound on the depth, for a walk that is or may become greedy.
StartWalk(p) ==
  /\ strategy = "none"
  /\ pc = "adding"
  /\ p \in Matching \ taken
  /\ InRootBounds(p)
  /\ Chosen = "greedy" => WithinDepth(p)
  /\ strategy' = Chosen
  /\ point' = p
  /\ nodes_to_check' = <<Root>>
  /\ node_candidates' = <<>>
  /\ grown' = {}
  /\ UNCHANGED vars

Top == Last(nodes_to_check)

OnTheWay == BoundsContainPoint(NodeBounds(Top), Position[point])

\* Mutant: the children are created in the reverse order.
ChildrenInOrder_Reverse(k) == [i \in 1 .. 2^Axes |-> Child(k, 2^Axes - i)]

ChildrenInOrder(k) == [i \in 1 .. 2^Axes |-> Child(k, i - 1)]

\* The children of a node: none, or all of them, within the depth.
HasChildren(k) == Children(k) # {} /\ Children(k) \subseteq nodes \cup grown

\* Mutant: children are created without the test for those there are, so a
\* node that is met again has each child twice.
Pushed_Twice(k) ==
  IF HasChildren(k) THEN ChildrenInOrder(k) \o ChildrenInOrder(k)
  ELSE IF k.level < MaxLevel THEN ChildrenInOrder(k) ELSE <<>>

\* The children within the bound on the depth.
Pushed(k) == IF k.level < MaxLevel THEN ChildrenInOrder(k) ELSE <<>>

\* A node whose bounds do not contain the point is popped and left.
Skip ==
  /\ strategy # "none"
  /\ nodes_to_check # <<>>
  /\ ~OnTheWay
  /\ nodes_to_check' = Front(nodes_to_check)
  /\ UNCHANGED <<vars, strategy, point, node_candidates, grown>>

\* The greedy walk at a full node: its children are created if it has none.
Descend ==
  /\ strategy = "greedy"
  /\ nodes_to_check # <<>>
  /\ OnTheWay
  /\ IsFull(Top)
  /\ grown' = IF HasChildren(Top) THEN grown
              ELSE grown \cup (Children(Top) \ nodes)
  /\ nodes_to_check' = Front(nodes_to_check) \o Pushed(Top)
  /\ UNCHANGED <<vars, strategy, point, node_candidates>>

\* The stochastic walk at a node: children down to the expected level, a
\* candidate unless it is full, and all children it has.
Collect ==
  /\ strategy = "stochastic"
  /\ nodes_to_check # <<>>
  /\ OnTheWay
  /\ grown' = IF ~HasChildren(Top) /\ Top.level < ExpectedLevels(num_points)
              THEN grown \cup Children(Top) ELSE grown
  /\ node_candidates' = IF IsFull(Top) THEN node_candidates
                        ELSE Append(node_candidates, Top)
  /\ nodes_to_check' = Front(nodes_to_check) \o
       (IF Children(Top) \subseteq nodes \cup grown' THEN Pushed(Top) ELSE <<>>)
  /\ UNCHANGED <<vars, strategy, point>>

-----------------------------------------------------------------------------
\* The end of a walk: the rest of add_point; its locals are gone.
EndWalk ==
  /\ Take(point)
  /\ strategy' = "none"
  /\ nodes_to_check' = <<>>
  /\ node_candidates' = <<>>
  /\ grown' = {}
  /\ UNCHANGED point
  /\ UNCHANGED <<is_closed, callVars, close_failed>>

\* The greedy walk has found a node that is not full.
Found ==
  /\ strategy = "greedy"
  /\ nodes_to_check # <<>>
  /\ OnTheWay
  /\ ~IsFull(Top)
  /\ EndWalk
  /\ AddTo(point, Top, grown, FillsNode(Top))

\* It has run out of nodes.
NotFound ==
  /\ strategy = "greedy"
  /\ nodes_to_check = <<>>
  /\ EndWalk
  /\ nodes' = nodes \cup grown
  /\ CountPoint(point)
  /\ Abort(NotAdded)
  /\ UNCHANGED <<point_count, fileVars, faults>>

\* All nodes are collected, and one is drawn.
Choose ==
  /\ strategy = "stochastic"
  /\ nodes_to_check = <<>>
  /\ node_candidates # <<>>
  /\ EndWalk
  /\ \E draw \in Draws :
       LET levels == [i \in DOMAIN node_candidates |-> node_candidates[i].level]
           k      == node_candidates[ChosenIndex(levels, draw)]
       IN  AddTo(point, k, grown, point_count[k] + 1 > max_node_size)

\* Mutant: the same walk starts over.
FallsBackTo_Same == "stochastic"

FallsBackTo == "greedy"

\* Every node is full: the greedy walk starts over, in the octree grown.
FallBack ==
  /\ strategy = "stochastic"
  /\ nodes_to_check = <<>>
  /\ node_candidates = <<>>
  /\ WithinDepth(point)
  /\ strategy' = FallsBackTo
  /\ nodes_to_check' = <<Root>>
  /\ UNCHANGED <<vars, point, node_candidates, grown>>

\* What the writer does between two walks.
BetweenWalks ==
  /\ strategy = "none"
  /\ \/ \E n \in NumPoints : CallWrite(n)
     \/ EndOfPoints \/ Unwind
     \/ \E p \in Points : Reject(p)
     \/ CloseRefused
     \/ \E k \in VoxelKeys : DrainChunk(k) \/ DrainFails(k)
     \/ CloseFinish \/ CloseFinishFails
     \/ DropWriter
  /\ UNCHANGED walkVars

Walking == Skip \/ Descend \/ Collect \/ Found \/ NotFound \/ Choose \/ FallBack

WalkNext ==
  \/ \E p \in Points : StartWalk(p)
  \/ Walking
  \/ BetweenWalks

\* A walk is run to its end.
WalkSpec == WalkInit /\ [][WalkNext]_<<vars, walkVars>>
                     /\ WF_<<vars, walkVars>>(Walking)

-----------------------------------------------------------------------------
(* Properties.                                                             *)

(***************************************************************************)
(* The loops do what CopcWriter says: the point ends in the node that the  *)
(* set of its voxels and their order single out, or in one of those a draw *)
(* can single out, and just the nodes the walk says are created, also when *)
(* the stochastic walk falls back to the greedy one.                       *)
(***************************************************************************)
ImplementsWriter == Spec

(***************************************************************************)
(* The stack is never deeper than the siblings of every level on the way,  *)
(* and no node is on it twice, nor above or below another one: a walk      *)
(* visits a node once, so a point meets no candidate twice.                *)
(***************************************************************************)
StackIsAFrontier ==
  /\ Len(nodes_to_check) <= 1 + (2^Axes - 1) * MaxLevel
  /\ \A i, j \in DOMAIN nodes_to_check : i # j =>
       /\ nodes_to_check[i] # nodes_to_check[j]
       /\ nodes_to_check[i] \notin Ancestors(nodes_to_check[j])

(***************************************************************************)
(* Every walk ends, and leaves the point in a node or an error.            *)
(***************************************************************************)
WalksEnd ==
  strategy # "none" ~> strategy = "none"
=============================================================================
