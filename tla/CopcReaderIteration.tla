------------------------- MODULE CopcReaderIteration -------------------------
(***************************************************************************)
(* Theorems about the reader's queries and its iterators: the stack walk   *)
(* finds the nodes a query is about, and the iterator returns their points *)
(* exactly once, keeps count of them, and reads its source forwards.       *)
(*                                                                         *)
(* The state of an iterator is what CopcReaderProofs says of it and        *)
(*  - QueryInv: while the walk is under way, every wanted node is found or *)
(*    lies below a key on the stack;                                       *)
(*  - IterInv: a point is Left as long as it is in the chunk of a node to  *)
(*    come or in what is left of the current one, and whatever is found    *)
(*    and not left has been returned if the bounds contain it;             *)
(*  - AheadInv: the nodes to come lie ahead of the source.                 *)
(***************************************************************************)
EXTENDS CopcReaderProofs

-----------------------------------------------------------------------------
(* Levels.                                                                 *)

\* The documentation says what a query means if a resolution has a spacing to
\* start from, and no box is turned inside out.
Answerable ==
  /\ \A b \in query.bounds : \A a \in Axis : b.min[a] <= b.max[a]
  /\ query.levels.select = "Resolution" => copc_info.root_points > 0

QueryIsValid ==
  /\ query \in Queries
  /\ ~InvalidResolution(query.levels)

\* The levels of a resolution are the least number of them with which the
\* spacing is fine enough.
LEMMA ResolutionIsLeast ==
  ASSUME NEW r \in Nat \ {0}, copc_info.root_points \in Nat \ {0}
  PROVE  LET n == copc_info.root_points * r
             R == ResolutionLevels(r)
         IN  /\ R \in Nat \ {0} /\ 2 * halfsize <= n * 2^(R - 1)
             /\ \A m \in 1 .. (R - 1) : 2 * halfsize > n * 2^(m - 1)
<1> DEFINE S == 2 * halfsize
           n == copc_info.root_points * r
           Fine(l) == S <= copc_info.root_points * r * 2^(l - 1)
           F == { l \in 1 .. (S + 1) : Fine(l) }
<1>1. S \in Nat /\ n \in Nat \ {0}
  BY HalfsizeIsPositive
<1>2. F # {}
  <2>1. S < 2^S /\ 2^S \in Nat
    BY <1>1, PowersGrow, PowersOfTwo
  <2> HIDE DEF S
  <2>2. (S + 1) - 1 = S /\ S + 1 \in 1 .. (S + 1)
    BY <1>1
  <2>3. 2^S <= n * 2^S
    <3> DEFINE P == 2^S
    <3> HIDE DEF P, n
    <3>1. P \in Nat => P <= n * P
      BY <1>1
    <3> QED BY <2>1, <3>1 DEF P
  <2>4. n * 2^S \in Nat
    BY <1>1, <2>1
  <2>5. S <= n * 2^S
    <3> HIDE DEF n
    <3> QED BY <1>1, <2>1, <2>3, <2>4
  <2> QED BY <2>2, <2>5
<1>3. F \in SUBSET Nat
  OBVIOUS
<1>4. PICK l \in F : \A m \in F : l <= m
  BY <1>2, <1>3, LeastElement
<1>5. ASSUME NEW m \in 1 .. (l - 1)
      PROVE  S > copc_info.root_points * r * 2^(m - 1)
  <2>1. m \in Nat /\ m - 1 \in Nat /\ m < l /\ l \in 1 .. (S + 1)
    BY <1>4
  <2>2. m \in 1 .. (S + 1)
    <3> HIDE DEF S
    <3> QED BY <1>1, <2>1
  <2>3. m \notin F
    BY <1>3, <1>4, <2>1
  <2>4. 2^(m - 1) \in Nat
    BY <2>1, PowersOfTwo
  <2>5. copc_info.root_points * r * 2^(m - 1) \in Nat
    BY <1>1, <2>4
  <2> HIDE DEF S
  <2> QED BY <1>1, <2>2, <2>3, <2>5
<1> DEFINE Least(k) ==
      /\ 2 * halfsize <= copc_info.root_points * r * 2^(k - 1)
      /\ \A m \in 1 .. (k - 1) :
           2 * halfsize > copc_info.root_points * r * 2^(m - 1)
<1>6. \E k \in 1 .. (2 * halfsize + 1) : Least(k)
  BY <1>4, <1>5
<1>7. ResolutionLevels(r) = CHOOSE k \in 1 .. (2 * halfsize + 1) : Least(k)
  BY DEF ResolutionLevels
<1> HIDE DEF Least
<1>8. /\ ResolutionLevels(r) \in 1 .. (2 * halfsize + 1)
      /\ Least(ResolutionLevels(r))
  BY <1>6, <1>7
<1> QED BY <1>8 DEF Least

\* The half open range of levels is what the documentation says of a level.
LEMMA LevelsAreWanted ==
  ASSUME QueryIsValid, Answerable, copc_info.root_points \in Nat,
         NEW l \in 0 .. MaxLevel
  PROVE  LevelWanted(query.levels, l)
           <=> LevelMin(query.levels) <= l /\ l < LevelMax(query.levels)
<1> DEFINE levels == query.levels
<1>1. /\ MaxLevel \in Nat /\ l \in Nat /\ l <= MaxLevel
  BY OctreeAssumption
<1>2. \/ levels.select = "All"
      \/ levels.select = "Resolution" /\ levels.resolution \in Int
      \/ levels.select = "Level" /\ levels.level \in Int
      \/ /\ levels.select = "LevelMinMax"
         /\ levels.min \in Int /\ levels.max \in Int
  BY QueriesAssumption DEF QueryIsValid, IsQuery
<1>3. CASE levels.select = "All"
  BY <1>1, <1>3 DEF LevelWanted, LevelMin, LevelMax
<1>4. CASE levels.select = "Level" /\ levels.level \in Int
  <2> HIDE DEF levels
  <2>1. /\ LevelWanted(levels, l) <=> l = levels.level
        /\ LevelMin(levels) = levels.level
        /\ LevelMax(levels) = levels.level + 1
    BY <1>4 DEF LevelWanted, LevelMin, LevelMax
  <2> QED BY <1>1, <1>4, <2>1 DEF levels
<1>5. CASE levels.select = "LevelMinMax"
  BY <1>5 DEF LevelWanted, LevelMin, LevelMax
<1>6. CASE levels.select = "Resolution" /\ levels.resolution \in Int
  <2> DEFINE r == levels.resolution
             n == copc_info.root_points * r
             R == ResolutionLevels(r)
             S == 2 * halfsize
  <2>1. r \in Nat \ {0} /\ copc_info.root_points \in Nat \ {0}
    BY <1>6 DEF QueryIsValid, InvalidResolution, Answerable
  <2>2. /\ R \in Nat \ {0} /\ S <= n * 2^(R - 1)
        /\ \A m \in 1 .. (R - 1) : S > n * 2^(m - 1)
    BY <2>1, ResolutionIsLeast
  <2>3. n \in Nat \ {0} /\ S \in Nat
    BY <2>1, HalfsizeIsPositive
  <2>4. /\ LevelMin(levels) = 0 /\ LevelMax(levels) = R
        /\ LevelWanted(levels, l) <=> l = 0 \/ S > n * 2^(l - 1)
    BY <1>6 DEF LevelWanted, LevelMin, LevelMax
  <2> HIDE DEF n, R, S, r
  <2>5. ASSUME l < R PROVE l = 0 \/ S > n * 2^(l - 1)
    <3>1. l # 0 => l \in 1 .. (R - 1)
      BY <1>1, <2>2, <2>5
    <3> QED BY <2>2, <3>1
  <2>6. ASSUME ~(l < R) PROVE l # 0 /\ ~(S > n * 2^(l - 1))
    <3>1. l - 1 \in Nat /\ R - 1 \in 0 .. (l - 1) /\ R - 1 \in Nat
      BY <1>1, <2>2, <2>6
    <3>2. 2^(R - 1) <= 2^(l - 1) /\ 2^(R - 1) \in Nat /\ 2^(l - 1) \in Nat
      BY <3>1, PowersGrow, PowersOfTwo
    <3> DEFINE p == 2^(R - 1)
               q == 2^(l - 1)
    <3>3. p <= q /\ p \in Nat /\ q \in Nat /\ S <= n * p
      BY <2>2, <3>2
    <3> HIDE DEF p, q
    <3>4. n * p <= n * q /\ n * p \in Nat /\ n * q \in Nat
      BY <2>3, <3>3
    <3>5. ~(S > n * q)
      BY <2>3, <3>3, <3>4
    <3> QED BY <1>1, <3>1, <3>5 DEF q
  <2> QED BY <1>1, <2>2, <2>4, <2>5, <2>6 DEF levels
<1> QED BY <1>2, <1>3, <1>4, <1>5, <1>6

-----------------------------------------------------------------------------
(* The walk.                                                               *)

\* Two boxes meet if they intersect and none is turned inside out.
LEMMA IntersectIsMeet ==
  ASSUME NEW b \in Boxes, NEW c \in Boxes,
         \A a \in Axis : b.min[a] <= b.max[a] /\ c.min[a] <= c.max[a]
  PROVE  Meet(b, c) <=> Intersect(b, c)
<1>1. \A w, x, y, z \in Int : w <= x /\ y <= z =>
        ((w .. x) \cap (y .. z) # {} <=> w <= z /\ y <= x)
  <2>1. SUFFICES ASSUME NEW w \in Int, NEW x \in Int, NEW y \in Int,
                        NEW z \in Int, w <= x, y <= z
                 PROVE  (w .. x) \cap (y .. z) # {} <=> w <= z /\ y <= x
    OBVIOUS
  <2>2. ASSUME w <= z, y <= x PROVE (w .. x) \cap (y .. z) # {}
    <3>1. CASE w <= y
      <4>1. y \in (w .. x) \cap (y .. z)
        BY <2>1, <2>2, <3>1
      <4> QED BY <4>1
    <3>2. CASE y <= w
      <4>1. w \in (w .. x) \cap (y .. z)
        BY <2>1, <2>2, <3>2
      <4> QED BY <4>1
    <3> QED BY <3>1, <3>2
  <2>3. ASSUME (w .. x) \cap (y .. z) # {} PROVE w <= z /\ y <= x
    <3>1. PICK v \in Int : w <= v /\ v <= x /\ y <= v /\ v <= z
      BY <2>3
    <3> QED BY <3>1
  <2> QED BY <2>2, <2>3
<1>2. \A a \in Axis : /\ b.min[a] \in Int /\ b.max[a] \in Int
                      /\ c.min[a] \in Int /\ c.max[a] \in Int
  BY DEF Boxes
<1>3. ASSUME NEW a \in Axis
      PROVE  (b.min[a] .. b.max[a]) \cap (c.min[a] .. c.max[a]) # {}
               <=> b.min[a] <= c.max[a] /\ c.min[a] <= b.max[a]
  <2>1. b.min[a] <= b.max[a] /\ c.min[a] <= c.max[a]
    OBVIOUS
  <2> QED BY <1>1, <1>2, <2>1
<1> QED BY <1>3 DEF Meet, Intersect, BoundsIntersect

\* What the walk goes through on its way to a wanted node.
OnTheWay(k) ==
  /\ k \in Keys
  /\ Ancestors(k) \subseteq DOMAIN hierarchy_entries

LEMMA StoredKeys ==
  ASSUME ReaderInv, NEW e \in Stored
  PROVE  /\ e.key \in DOMAIN hierarchy_entries /\ hierarchy_entries[e.key] = e
         /\ e.key \in VoxelKeys
  BY DEF ReaderInv, EntriesInv, Stored

\* The tests on the way down tell a wanted node from others.
LEMMA WantedIsTaken ==
  ASSUME GapsAreSmall, ReaderInv, QueryIsValid, Answerable, phase = "walking",
         NEW k \in DOMAIN hierarchy_entries, OnTheWay(k)
  PROVE  hierarchy_entries[k] \in Selected <=> Enters(k) /\ Takes(k)
<1> DEFINE e == hierarchy_entries[k]
<1>1. /\ k \in VoxelKeys /\ e.key = k /\ e \in Stored
      /\ copc_info.root_points \in Nat
  BY DEF ReaderInv, EntriesInv, Stored, InFile, IsInfo
<1>2. k \in Keys /\ k.level \in 0 .. MaxLevel
  BY <1>1, VoxelKeysAreKeys
<1>3. LevelWanted(query.levels, k.level)
        <=> /\ LevelMin(query.levels) <= k.level
            /\ k.level < LevelMax(query.levels)
  BY <1>1, <1>2, LevelsAreWanted
<1>4. ASSUME NEW b \in query.bounds
      PROVE  Meet(VoxelBounds(k), b) <=> Intersect(VoxelBounds(k), b)
  <2>1. b \in Boxes /\ \A a \in Axis : b.min[a] <= b.max[a]
    BY QueriesAssumption DEF QueryIsValid, IsQuery, Answerable, Boxes
  <2>2. /\ VoxelBounds(k) \in Boxes
        /\ \A a \in Axis : VoxelBounds(k).min[a] <= VoxelBounds(k).max[a]
    BY <1>2, VoxelBoundsAreBoxes
  <2> QED BY <2>1, <2>2, IntersectIsMeet
<1> HIDE DEF e
<1>5. e \in Selected <=>
        /\ Ancestors(k) \subseteq DOMAIN hierarchy_entries
        /\ e.point_count > 0
        /\ LevelWanted(query.levels, k.level)
        /\ \A b \in query.bounds : Meet(VoxelBounds(k), b)
  BY <1>1 DEF Selected, Reachable
<1>6. Enters(k) /\ Takes(k) <=>
        /\ e.point_count > 0
        /\ LevelMin(query.levels) <= k.level
        /\ k.level < LevelMax(query.levels)
        /\ \A b \in query.bounds : Intersect(VoxelBounds(k), b)
  BY DEF Enters, Takes, e
<1> QED BY <1>3, <1>4, <1>5, <1>6 DEF OnTheWay, e

\* The walk enters every node above a wanted one.
LEMMA WayIsEntered ==
  ASSUME GapsAreSmall, ReaderInv, QueryIsValid, Answerable, phase = "walking",
         NEW e \in Selected, NEW k, Below(e.key, k), k \in Keys
  PROVE  Enters(k)
<1> DEFINE j == e.key
<1>1. /\ e \in Stored /\ Ancestors(j) \subseteq DOMAIN hierarchy_entries
      /\ j \in VoxelKeys /\ j \in DOMAIN hierarchy_entries
      /\ hierarchy_entries[j] = e
  BY StoredKeys DEF Selected, Reachable
<1>2. j \in Keys /\ j.level \in 0 .. MaxLevel
  BY <1>1, VoxelKeysAreKeys
<1>3. Enters(j)
  BY <1>1, <1>2, WantedIsTaken DEF OnTheWay
<1> HIDE DEF j
<1>4. CASE k = j
  BY <1>3, <1>4
<1>5. CASE k \in Ancestors(j)
  <2>1. k \in DOMAIN hierarchy_entries
    BY <1>1, <1>5
  <2>2. PICK l \in 0 .. (j.level - 1) : k = Ancestor(j, l)
    BY <1>5 DEF Ancestors
  <2>3. k.level = l /\ k.level \in Nat /\ k.level < j.level /\ j.level \in Nat
    BY <1>2, <2>2 DEF Ancestor
  <2>4. j.level < LevelMax(query.levels)
    BY <1>3 DEF Enters
  <2>5. LevelMax(query.levels) \in Int
    <3>1. copc_info.root_points \in Nat
      BY DEF ReaderInv, EntriesInv, InFile, IsInfo
    <3>2. MaxLevel \in Nat
      BY OctreeAssumption
    <3>3. query.levels.select = "Resolution" =>
            /\ query.levels.resolution \in Nat \ {0}
            /\ copc_info.root_points \in Nat \ {0}
      BY <3>1, QueriesAssumption
      DEF QueryIsValid, IsQuery, InvalidResolution, Answerable
    <3>4. query.levels.select = "Resolution" =>
            ResolutionLevels(query.levels.resolution) \in Nat
      BY <3>3, ResolutionIsLeast
    <3> QED BY <3>2, <3>4, QueriesAssumption DEF QueryIsValid, IsQuery, LevelMax
  <2>6. k.level < LevelMax(query.levels)
    BY <2>3, <2>4, <2>5
  <2>7. ASSUME NEW b \in query.bounds
        PROVE  Intersect(VoxelBounds(k), b)
    <3>1. Intersect(VoxelBounds(j), b)
      BY <1>3 DEF Enters
    <3>2. \A a \in Axis :
            /\ VoxelBounds(k).min[a] <= VoxelBounds(j).min[a]
            /\ VoxelBounds(j).max[a] <= VoxelBounds(k).max[a]
      BY <1>2, <1>5, VoxelIsInsideAncestors
    <3>3. k.level \in 0 .. MaxLevel
      BY <1>2, <2>3, OctreeAssumption
    <3>4. b \in Boxes /\ VoxelBounds(j) \in Boxes /\ VoxelBounds(k) \in Boxes
      BY <1>2, <3>3, VoxelBoundsAreBoxes, QueriesAssumption
      DEF QueryIsValid, IsQuery, Boxes
    <3>5. ASSUME NEW a \in Axis
          PROVE  /\ VoxelBounds(k).min[a] <= b.max[a]
                 /\ b.min[a] <= VoxelBounds(k).max[a]
      <4>1. /\ b.min[a] \in Int /\ b.max[a] \in Int
            /\ VoxelBounds(j).min[a] \in Int /\ VoxelBounds(j).max[a] \in Int
            /\ VoxelBounds(k).min[a] \in Int /\ VoxelBounds(k).max[a] \in Int
        BY <3>4 DEF Boxes
      <4>2. /\ VoxelBounds(j).min[a] <= b.max[a]
            /\ b.min[a] <= VoxelBounds(j).max[a]
        BY <3>1 DEF Intersect, BoundsIntersect
      <4> QED BY <3>2, <4>1, <4>2
    <3> QED BY <3>5 DEF Intersect, BoundsIntersect
  <2> QED BY <2>1, <2>6, <2>7 DEF Enters
<1> QED BY <1>4, <1>5 DEF Below, j

LEMMA ConcatenatedSets ==
  ASSUME NEW S, NEW s \in Seq(S), NEW t \in Seq(S)
  PROVE  s \o t \in Seq(S) /\ ToSet(s \o t) = ToSet(s) \cup ToSet(t)
<1> DEFINE m == Len(s)
           n == Len(t)
           u == s \o t
<1>1. /\ u \in Seq(S) /\ Len(u) = m + n /\ m \in Nat /\ n \in Nat
      /\ \A i \in 1 .. m + n : u[i] = IF i <= m THEN s[i] ELSE t[i - m]
  BY ConcatProperties, LenProperties
<1>2. /\ DOMAIN u = 1 .. m + n /\ DOMAIN s = 1 .. m /\ DOMAIN t = 1 .. n
  BY <1>1, LenProperties
<1> HIDE DEF m, n, u
<1>3. ASSUME NEW i \in 1 .. m + n
      PROVE  u[i] \in ToSet(s) \cup ToSet(t)
  <2>1. i <= m => i \in 1 .. m
    BY <1>1
  <2>2. ~(i <= m) => i - m \in 1 .. n
    BY <1>1
  <2> QED BY <1>1, <1>2, <2>1, <2>2 DEF ToSet
<1>4. ASSUME NEW i \in 1 .. m PROVE s[i] \in ToSet(u)
  <2>1. i \in 1 .. m + n /\ i <= m
    BY <1>1
  <2> QED BY <1>1, <1>2, <2>1 DEF ToSet
<1>5. ASSUME NEW i \in 1 .. n PROVE t[i] \in ToSet(u)
  <2>1. m + i \in 1 .. m + n /\ ~(m + i <= m) /\ (m + i) - m = i
    BY <1>1
  <2> QED BY <1>1, <1>2, <2>1 DEF ToSet
<1>6. ToSet(u) = ToSet(s) \cup ToSet(t)
  BY <1>2, <1>3, <1>4, <1>5 DEF ToSet
<1> QED BY <1>1, <1>6 DEF u

QueryInv ==
  /\ phase = "walking" \/ Iterating => QueryIsValid
  /\ phase = "walking" =>
       /\ node_stack \in Seq(Keys)
       /\ \A k \in ToSet(node_stack) : OnTheWay(k)
       /\ Answerable =>
            /\ satisfying_nodes \subseteq Selected
            /\ \A e \in Selected :
                 \/ e \in satisfying_nodes
                 \/ \E k \in ToSet(node_stack) : Below(e.key, k)
  /\ Iterating /\ Answerable => satisfying_nodes = Selected

\* What is wanted depends on the query and what was opened.
LEMMA SelectedStays ==
  ASSUME UNCHANGED <<query, copc_info, hierarchy_entries>>
  PROVE  /\ Selected' = Selected
         /\ Answerable' = Answerable
         /\ QueryIsValid' = QueryIsValid
         /\ \A k : OnTheWay(k)' = OnTheWay(k)
<1>1. Stored' = Stored
  BY DEF Stored
<1>2. \A e : Reachable(e)' = Reachable(e)
  BY DEF Reachable
<1>3. \A l : LevelWanted(query.levels, l)' = LevelWanted(query.levels, l)
  BY DEF LevelWanted
<1>4. Selected' = Selected
  BY <1>1, <1>2, <1>3 DEF Selected
<1> QED BY <1>4 DEF Answerable, QueryIsValid, OnTheWay

LEMMA QueryBegins ==
  ASSUME ReaderInv, NEW q \in Queries, Query(q)
  PROVE  QueryInv'
<1>1. ~Iterating'
  BY DEF Query, Iterating
<1>2. CASE phase' # "walking"
  BY <1>1, <1>2 DEF QueryInv
<1>3. CASE phase' = "walking"
  <2>1. /\ query' = q /\ ~InvalidResolution(q.levels)
        /\ node_stack' = <<Root>> /\ phase = "ready"
    BY <1>3 DEF Query
  <2>2. satisfying_nodes' = {} /\ UNCHANGED <<hierarchy_entries, copc_info>>
    BY DEF Query, openVars
  <2>3. QueryIsValid'
    <3>1. InvalidResolution(query.levels)' = InvalidResolution(q.levels)
      BY <2>1 DEF InvalidResolution
    <3> QED BY <2>1, <3>1 DEF QueryIsValid
  <2>4. Root \in Keys /\ Root \in VoxelKeys /\ Ancestors(Root) = {}
    <3>1. Root.level = 0 /\ 0 .. (0 - 1) = {}
      BY DEF Root
    <3> QED BY <3>1 DEF Root, Keys, VoxelKeys, Ancestors
  <2>5. node_stack' \in Seq(Keys) /\ ToSet(node_stack') = {Root}
    BY <2>1, <2>4 DEF ToSet
  <2>6. OnTheWay(Root)'
    BY <2>4 DEF OnTheWay
  <2>7. \A e \in Selected' : Below(e.key, Root)
    <3>1. ASSUME NEW e \in Selected' PROVE e.key \in VoxelKeys
      <4>1. e \in Stored' /\ Stored' = Stored
        BY <2>2 DEF Selected, Stored
      <4> QED BY <4>1, StoredKeys
    <3> QED BY <3>1, BelowTheRoot
  <2> QED BY <1>1, <2>2, <2>3, <2>5, <2>6, <2>7 DEF QueryInv
<1> QED BY <1>2, <1>3

\* The children of a node that is entered take its place on the stack.
LEMMA VisitGoesOn ==
  ASSUME GapsAreSmall, ReaderInv, QueryInv, Visit
  PROVE  QueryInv'
<1> DEFINE k == Last(node_stack)
           front == Front(node_stack)
           children == [i \in 1 .. 2^Axes |-> Child(k, i - 1)]
<1>1. /\ phase = "walking" /\ node_stack # <<>>
      /\ UNCHANGED <<query, copc_info, hierarchy_entries, phase>>
  BY DEF Visit, openVars
<1>2. /\ QueryIsValid /\ node_stack \in Seq(Keys)
      /\ \A i \in ToSet(node_stack) : OnTheWay(i)
  BY <1>1 DEF QueryInv
<1>3. /\ k \in Keys /\ front \in Seq(Keys)
      /\ ToSet(node_stack) = ToSet(front) \cup {k} /\ OnTheWay(k)
  BY <1>1, <1>2, FrontAndLast
<1>4. /\ Selected' = Selected /\ Answerable' = Answerable
      /\ QueryIsValid' /\ \A i : OnTheWay(i)' = OnTheWay(i)
  BY <1>1, <1>2, SelectedStays
<1>5. ASSUME Answerable
      PROVE  /\ satisfying_nodes \subseteq Selected
             /\ \A e \in Selected :
                 \/ e \in satisfying_nodes
                 \/ \E i \in ToSet(front) : Below(e.key, i)
                 \/ Below(e.key, k)
  BY <1>1, <1>3, <1>5 DEF QueryInv
<1>6. CASE ~Enters(k)
  <2>1. node_stack' = front /\ satisfying_nodes' = satisfying_nodes
    BY <1>6 DEF Visit
  <2>2. ASSUME Answerable, NEW e \in Selected PROVE ~Below(e.key, k)
    BY <1>1, <1>2, <1>3, <1>6, <2>2, WayIsEntered
  <2> HIDE DEF k, front
  <2> QED BY <1>1, <1>2, <1>3, <1>4, <1>5, <2>1, <2>2 DEF QueryInv, Iterating
<1>7. CASE Enters(k)
  <2>1. /\ node_stack' = front \o children
        /\ satisfying_nodes' = satisfying_nodes \cup
             { e \in {hierarchy_entries[k]} : Takes(k) }
    BY <1>7 DEF Visit
  <2>2. 2^Axes \in Nat \ {0} /\ Directions = 0 .. (2^Axes - 1)
    BY OctreeAssumption, PowersOfTwo DEF Directions
  <2>3. /\ \A i \in 1 .. 2^Axes : i - 1 \in Directions
        /\ \A d \in Directions : d \in Nat /\ d + 1 \in 1 .. 2^Axes
                                 /\ (d + 1) - 1 = d
    BY <2>2
  <2>4. \A d \in Directions : Child(k, d) \in Keys
    BY <1>3, <2>3, ChildIsKey
  <2>5. children \in Seq(Keys)
        /\ ToSet(children) = { Child(k, d) : d \in Directions }
    <3> HIDE DEF k
    <3>1. children \in [1 .. 2^Axes -> Keys]
      BY <2>3, <2>4
    <3> HIDE DEF children
    <3>2. children \in Seq(Keys)
      BY <2>2, <3>1, SeqDef
    <3>3. ToSet(children) = { Child(k, d) : d \in Directions }
      BY <2>3 DEF ToSet, children
    <3> QED BY <3>2, <3>3
  <2> HIDE DEF children, front
  <2>6. /\ node_stack' \in Seq(Keys)
        /\ ToSet(node_stack') = ToSet(front) \cup ToSet(children)
    BY <1>3, <2>1, <2>5, ConcatenatedSets
  <2>7. k \in DOMAIN hierarchy_entries
    BY <1>7 DEF Enters
  <2>8. ASSUME NEW d \in Directions PROVE OnTheWay(Child(k, d))
    <3>1. Ancestors(Child(k, d)) = Ancestors(k) \cup {k}
      BY <1>3, <2>3, AncestorsOfChild
    <3> QED BY <1>3, <2>4, <2>7, <3>1 DEF OnTheWay
  <2>9. \A i \in ToSet(node_stack') : OnTheWay(i)'
    <3>1. \A i \in ToSet(front) : OnTheWay(i)
      BY <1>2, <1>3
    <3> HIDE DEF k
    <3> QED BY <1>4, <2>5, <2>6, <2>8, <3>1
  <2>10. ASSUME Answerable
         PROVE  /\ satisfying_nodes' \subseteq Selected
                /\ \A e \in Selected :
                     \/ e \in satisfying_nodes'
                     \/ \E i \in ToSet(node_stack') : Below(e.key, i)
    <3>1. satisfying_nodes' \subseteq Selected
      <4>1. Takes(k) => hierarchy_entries[k] \in Selected
        BY <1>1, <1>2, <1>3, <1>7, <2>7, <2>10, WantedIsTaken
      <4> QED BY <1>5, <2>1, <2>10, <4>1
    <3>2. ASSUME NEW e \in Selected, Below(e.key, k)
          PROVE  \/ e \in satisfying_nodes'
                 \/ \E i \in ToSet(node_stack') : Below(e.key, i)
      <4>1. /\ e \in Stored /\ hierarchy_entries[e.key] = e
            /\ e.key \in Keys
        BY StoredKeys, VoxelKeysAreKeys DEF Selected
      <4>2. CASE e.key = k
        <5>1. Takes(k)
          BY <1>1, <1>2, <1>3, <2>7, <2>10, <4>1, <4>2, WantedIsTaken
        <5> QED BY <2>1, <4>1, <4>2, <5>1
      <4>3. CASE k \in Ancestors(e.key)
        <5>1. PICK d \in Directions : Below(e.key, Child(k, d))
          BY <4>1, <4>3, BelowAChild
        <5> QED BY <2>5, <2>6, <5>1
      <4> QED BY <3>2, <4>2, <4>3 DEF Below
    <3> HIDE DEF k
    <3>3. \A e \in Selected :
            \/ e \in satisfying_nodes'
            \/ \E i \in ToSet(node_stack') : Below(e.key, i)
      BY <1>5, <2>1, <2>6, <2>10, <3>2
    <3> QED BY <3>1, <3>3
  <2> QED BY <1>1, <1>4, <2>6, <2>9, <2>10 DEF QueryInv, Iterating
<1> QED BY <1>6, <1>7

LEMMA QueryInductive ==
  ASSUME GapsAreSmall, ReaderInv, QueryInv, [Next]_vars
  PROVE  QueryInv'
<1>1. CASE \E q \in Queries : Query(q)
  BY <1>1, QueryBegins
<1>2. CASE Visit
  BY <1>2, VisitGoesOn
<1>3. CASE EndWalk
  <2>1. /\ phase = "walking" /\ phase' # "walking" /\ node_stack = <<>>
        /\ UNCHANGED <<query, copc_info, hierarchy_entries, satisfying_nodes>>
    BY <1>3 DEF EndWalk, openVars, walkVars
  <2>2. ToSet(node_stack) = {}
    BY <2>1 DEF ToSet
  <2>3. QueryIsValid /\ (Answerable => satisfying_nodes = Selected)
    BY <2>1, <2>2 DEF QueryInv
  <2> QED BY <2>1, <2>3, SelectedStays DEF QueryInv
<1>4. CASE NextNode \/ NoMoreNodes \/ DecodePoint \/ CallNext
  <2>1. /\ Iterating /\ phase' # "walking"
        /\ UNCHANGED <<query, copc_info, hierarchy_entries, satisfying_nodes>>
    BY <1>4 DEF NextNode, NoMoreNodes, DecodePoint, CallNext, openVars,
                walkVars, Iterating
  <2> QED BY <2>1, SelectedStays DEF QueryInv
<1>5. CASE \/ Open \/ PopEntry \/ EndPages \/ DecodeGarbage \/ Failing
           \/ DropIter
  <2>1. phase' # "walking" /\ ~Iterating'
    BY <1>5 DEF Open, PopEntry, EndPages, DecodeGarbage, Failing, OpenFails,
                EndWalkFails, NextPanics, DropIter, Fail, Iterating
  <2> QED BY <2>1 DEF QueryInv
<1>6. CASE UNCHANGED vars
  <2>1. UNCHANGED <<phase, query, copc_info, hierarchy_entries,
                    satisfying_nodes, node_stack>>
    BY <1>6 DEF vars, openVars, walkVars
  <2>2. Iterating' = Iterating
    BY <2>1 DEF Iterating
  <2> QED BY <2>1, <2>2, SelectedStays DEF QueryInv
<1> QED BY <1>1, <1>2, <1>3, <1>4, <1>5, <1>6 DEF Next, Running

LEMMA QueryInvariant ==
  ASSUME GapsAreSmall
  PROVE  Spec => [](ReaderInv /\ QueryInv)
<1>1. Init => QueryInv
  BY DEF Init, ReaderInit, QueryInv, Iterating
<1>2. ReaderInv /\ QueryInv /\ [Next]_vars => QueryInv'
  BY QueryInductive
<1> QED BY <1>1, <1>2, ReaderInvariant, PTL DEF Spec

(***************************************************************************)
(* Whatever the file and the query, if the documentation gives the query a *)
(* meaning and no voxel is as small as a rounding error: the stack walk of *)
(* load_octree_for_query finds the nodes the query is about and no others. *)
(***************************************************************************)
THEOREM QueriesAreExact ==
  ASSUME GapsAreSmall
  PROVE  Spec => [](Answerable => QueryIsExact)
<1>1. QueryInv => (Answerable => QueryIsExact)
  BY DEF QueryInv, QueryIsExact, Iterating
<1> QED BY <1>1, QueryInvariant, PTL

-----------------------------------------------------------------------------
(* An iteration.                                                           *)

\* Every entry counts the points in its chunk right, and no point is in the
\* chunks of two nodes.
PointsStoredOnce ==
  /\ \A e \in WithPoints : Cardinality(Content(e)) = e.point_count
  /\ \A e, f \in WithPoints : e # f => Content(e) \cap Content(f) = {}

\* The points of the nodes the walk has found, and those of them that are
\* still to be decoded.
Found == UNION { Content(e) : e \in satisfying_nodes }
Left  == Current \cup UNION { Content(e) : e \in ToSet(nodes) }

IterInv ==
  /\ phase = "walking" => returned = [p \in Points |-> 0] /\ done = FALSE
  /\ Iterating /\ PointsStoredOnce =>
       /\ node_points_left = Cardinality(Current)
       /\ \A e \in ToSet(nodes) : Content(e) \cap Current = {}
       /\ Left \subseteq Found
       /\ \A p \in Points :
            returned[p] = IF p \in Found \ Left /\ InQueryBounds(p) THEN 1
                          ELSE 0
       /\ done => Left = {}

NodesInv == ReaderInv /\ PageInv /\ ChunkInv /\ IterInv

\* Steps of an iterator leave what it was built from alone.
LEMMA IterationStays ==
  ASSUME ReaderInv, [Next]_vars, Iterating \/ EndWalk
  PROVE  /\ UNCHANGED <<hierarchy_entries, query, satisfying_nodes>>
         /\ \A e : Content(e)' = Content(e)
         /\ Found' = Found
         /\ PointsStoredOnce' = PointsStoredOnce
         /\ \A p : InQueryBounds(p)' = InQueryBounds(p)
<1>1. phase # "unopened"
  BY DEF Iterating, EndWalk
<1>2. \A e : Content(e)' = Content(e)
  BY <1>1, ContentStays
<1>3. UNCHANGED <<hierarchy_entries, query, satisfying_nodes>>
  BY DEF Next, Running, Failing, Query, Open, PopEntry, EndPages, Visit,
         EndWalk, NextNode, NoMoreNodes, DecodePoint, DecodeGarbage, OpenFails,
         EndWalkFails, NextPanics, CallNext, DropIter, vars, walkVars,
         openVars, Iterating
<1>4. WithPoints' = WithPoints
  BY <1>3 DEF WithPoints, Stored
<1>5. PointsStoredOnce' = PointsStoredOnce
  BY <1>2, <1>4 DEF PointsStoredOnce
<1>6. Found' = Found
  BY <1>2, <1>3 DEF Found
<1>7. \A p : InQueryBounds(p)' = InQueryBounds(p)
  BY <1>3 DEF InQueryBounds
<1> QED BY <1>2, <1>3, <1>5, <1>6, <1>7

LEMMA EndWalkBegins ==
  ASSUME NodesInv, EndWalk
  PROVE  IterInv'
<1> USE DEF NodesInv, ReaderInv
<1>0. [Next]_vars
  BY DEF Next, Running
<1>1. CASE phase' # "iterating"
  <2>1. phase' = "ready"
    BY <1>1 DEF EndWalk
  <2> QED BY <2>1 DEF IterInv, Iterating
<1>2. CASE phase' = "iterating"
  <2>1. /\ nodes' = ByOffset(satisfying_nodes)
        /\ node_points_left' = 0
        /\ UNCHANGED <<returned, done>> /\ phase = "walking"
    BY <1>2 DEF EndWalk
  <2>2. satisfying_nodes \subseteq WithPoints /\ IsFiniteSet(satisfying_nodes)
    BY DEF WalkInv
  <2>3. ToSet(nodes)' = satisfying_nodes
    BY <2>1, <2>2, StoredIsTyped, ByOffsetSorts
  <2>4. Current' = {}
    BY <2>1 DEF Current
  <2>5. Left' = Found /\ Found' = Found
    BY <1>0, <2>3, <2>4, IterationStays DEF Left, Found
  <2>6. \A p \in Points : returned'[p] = 0
    BY <2>1 DEF IterInv
  <2>7. ~done'
    BY <2>1 DEF IterInv
  <2> QED BY <1>2, <2>1, <2>4, <2>5, <2>6, <2>7, FS_EmptySet DEF IterInv
<1> QED BY <1>1, <1>2

LEMMA NextNodeLeaves ==
  ASSUME NodesInv, NextNode
  PROVE  IterInv'
<1> USE DEF NodesInv, ReaderInv
<1> DEFINE e == Last(nodes)
<1>0. [Next]_vars
  BY DEF Next, Running
<1>1. /\ phase = "next" /\ phase' = "next" /\ node_points_left = 0
      /\ nodes # <<>> /\ nodes' = Front(nodes)
      /\ UNCHANGED <<returned, done>>
  BY DEF NextNode
<1>2. Iterating
  BY <1>1 DEF Iterating
<1>3. SUFFICES ASSUME PointsStoredOnce
               PROVE  IterInv'
  <2>1. PointsStoredOnce' = PointsStoredOnce
    BY <1>0, <1>2, IterationStays
  <2> QED BY <1>1, <2>1 DEF IterInv
<1>4. /\ ToSet(nodes) \subseteq WithPoints /\ e \in ToSet(nodes)
      /\ ToSet(nodes)' = ToSet(nodes) \ {e}
  BY <1>1, <1>2, NodesLeft
<1>5. /\ Current' = Content(e) /\ node_points_left' = e.point_count
  BY NextNodeIsCurrent
<1>6. Current = {}
  BY <1>1 DEF Current
<1>7. /\ \A f : Content(f)' = Content(f)
      /\ Found' = Found
      /\ \A p : InQueryBounds(p)' = InQueryBounds(p)
  BY <1>0, <1>2, IterationStays
<1> HIDE DEF e
<1>8. Left' = Left
  BY <1>4, <1>5, <1>6, <1>7 DEF Left
<1>9. node_points_left' = Cardinality(Current')
  BY <1>3, <1>4, <1>5 DEF PointsStoredOnce
<1>10. \A f \in ToSet(nodes)' : Content(f)' \cap Current' = {}
  BY <1>3, <1>4, <1>5, <1>7 DEF PointsStoredOnce
<1>11. /\ Left \subseteq Found
       /\ \A p \in Points :
            returned[p] = IF p \in Found \ Left /\ InQueryBounds(p) THEN 1
                          ELSE 0
       /\ done => Left = {}
  BY <1>2, <1>3 DEF IterInv
<1> QED BY <1>1, <1>7, <1>8, <1>9, <1>10, <1>11 DEF IterInv

LEMMA DecodePointLeaves ==
  ASSUME NodesInv, DecodePoint
  PROVE  IterInv'
<1> USE DEF NodesInv, ReaderInv
<1>0. [Next]_vars
  BY DEF Next, Running
<1>1. /\ phase = "next" /\ phase' \in {"next", "iterating"}
      /\ node_points_left > 0 /\ node_points_left' = node_points_left - 1
      /\ UNCHANGED <<nodes, done>>
  BY DEF DecodePoint
<1>2. Iterating
  BY <1>1 DEF Iterating
<1>3. SUFFICES ASSUME PointsStoredOnce
               PROVE  IterInv'
  <2>1. PointsStoredOnce' = PointsStoredOnce
    BY <1>0, <1>2, IterationStays
  <2> QED BY <1>1, <2>1 DEF IterInv
<1>4. PICK p \in Current :
        /\ IsFiniteSet(Current) /\ Current \subseteq Points
        /\ ~decompressor'.fresh
        /\ decompressor'.left = Current \ {p}
        /\ IF InQueryBounds(p)
           THEN /\ phase' = "iterating"
                /\ returned' = [returned EXCEPT ![p] = @ + 1]
           ELSE UNCHANGED <<phase, returned>>
  BY DecodePointTakes
<1>5. /\ node_points_left = Cardinality(Current)
      /\ \A e \in ToSet(nodes) : Content(e) \cap Current = {}
      /\ Left \subseteq Found
      /\ \A q \in Points :
            returned[q] = IF q \in Found \ Left /\ InQueryBounds(q) THEN 1
                          ELSE 0
      /\ done => Left = {}
  BY <1>2, <1>3 DEF IterInv
<1>6. /\ Cardinality(Current \ {p}) = node_points_left - 1
      /\ IsFiniteSet(Current \ {p})
  BY <1>4, <1>5, FS_RemoveElement
<1>7. Current' = Current \ {p}
  <2>1. CASE node_points_left' = 0
    <3>1. Current \ {p} = {}
      BY <1>1, <1>6, <2>1, FS_EmptySet
    <3> QED BY <2>1, <3>1 DEF Current
  <2>2. CASE node_points_left' # 0
    BY <1>4, <2>2 DEF Current
  <2> QED BY <2>1, <2>2
<1>8. /\ \A f : Content(f)' = Content(f)
      /\ Found' = Found
      /\ \A q : InQueryBounds(q)' = InQueryBounds(q)
  BY <1>0, <1>2, IterationStays
<1>9. ToSet(nodes)' = ToSet(nodes)
  BY <1>1
<1>10. Left' = Left \ {p} /\ p \in Left /\ p \in Points
  <2>1. \A e \in ToSet(nodes) : p \notin Content(e)
    BY <1>4, <1>5
  <2>2. p \in Left /\ p \in Points
    BY <1>4 DEF Left
  <2>3. Left' = (Current \ {p}) \cup UNION { Content(e) : e \in ToSet(nodes) }
    BY <1>7, <1>8, <1>9 DEF Left
  <2> QED BY <2>1, <2>2, <2>3 DEF Left
<1>11. node_points_left' = Cardinality(Current')
  BY <1>1, <1>6, <1>7
<1>12. \A e \in ToSet(nodes)' : Content(e)' \cap Current' = {}
  BY <1>5, <1>7, <1>8, <1>9
<1>13. Left' \subseteq Found'
  BY <1>5, <1>8, <1>10
<1>14. ~done'
  BY <1>1, <1>5, <1>10
<1>15. ASSUME NEW q \in Points
       PROVE  returned'[q] = IF q \in Found \ (Left \ {p}) /\ InQueryBounds(q)
                             THEN 1 ELSE 0
  <2>1. returned \in [Points -> Nat]
    BY DEF CountInv
  <2>2. returned[p] = 0 /\ p \in Found
    BY <1>5, <1>10
  <2>3. CASE q = p /\ InQueryBounds(p)
    BY <1>4, <1>10, <2>1, <2>2, <2>3
  <2>4. CASE q = p /\ ~InQueryBounds(p)
    BY <1>4, <2>2, <2>4
  <2>5. CASE q # p
    <3>1. returned'[q] = returned[q]
      BY <1>4, <2>1, <2>5
    <3> QED BY <1>5, <2>5, <3>1
  <2> QED BY <2>3, <2>4, <2>5
<1> QED BY <1>1, <1>8, <1>10, <1>11, <1>12, <1>13, <1>14, <1>15 DEF IterInv

\* An iterator says that no point is left only if that is so.
LEMMA NoneLeft ==
  ASSUME NodesInv, Iterating, PointsStoredOnce,
         total_points_left = 0 \/ (node_points_left = 0 /\ nodes = <<>>)
  PROVE  Left = {}
<1> USE DEF NodesInv, ReaderInv
<1>1. node_points_left = 0 /\ nodes = <<>>
  <2>1. SUFFICES ASSUME total_points_left = 0
                 PROVE  node_points_left = 0 /\ nodes = <<>>
    OBVIOUS
  <2>2. /\ node_points_left \in Nat
        /\ 0 = node_points_left + TotalPoints(ToSet(nodes))
    BY <2>1 DEF CountInv
  <2>3. ASSUME nodes # <<>> PROVE FALSE
    <3> DEFINE e == Last(nodes)
               S == ToSet(nodes)
    <3>1. IsFiniteSet(S) /\ S \subseteq WithPoints /\ e \in S
      BY <2>3, NodesLeft
    <3>2. \A f \in S : f.point_count \in Nat \ {0}
      BY <3>1, StoredIsTyped
    <3>3. /\ TotalPoints(S) = e.point_count + TotalPoints(S \ {e})
          /\ TotalPoints(S \ {e}) \in Nat
      BY <3>1, <3>2, TotalPointsTakes
    <3>4. e.point_count \in Nat \ {0}
      BY <3>1, <3>2
    <3> HIDE DEF S, e
    <3> QED BY <2>2, <3>3, <3>4 DEF S
  <2>4. TotalPoints(ToSet(nodes)) = 0
    <3>1. ToSet(nodes) = {}
      BY <2>3 DEF ToSet
    <3> QED BY <3>1, FS_EmptySet, TotalPointsTakes
  <2> QED BY <2>2, <2>3, <2>4
<1>2. Current = {}
  BY <1>1 DEF Current
<1>3. ToSet(nodes) = {}
  BY <1>1 DEF ToSet
<1> QED BY <1>2, <1>3 DEF Left

LEMMA IterInductive ==
  ASSUME NodesInv, [Next]_vars
  PROVE  IterInv'
<1> USE DEF NodesInv
<1>1. CASE EndWalk
  BY <1>1, EndWalkBegins
<1>2. CASE NextNode
  BY <1>2, NextNodeLeaves
<1>3. CASE DecodePoint
  BY <1>3, DecodePointLeaves
<1>4. CASE CallNext \/ NoMoreNodes
  <2>1. /\ Iterating /\ phase' # "walking"
        /\ UNCHANGED <<read, nodes, countVars, decompressor, returned>>
        /\ (done' = done \/ total_points_left = 0
                         \/ (node_points_left = 0 /\ nodes = <<>>))
    BY <1>4 DEF CallNext, NoMoreNodes, Iterating
  <2>2. /\ \A f : Content(f)' = Content(f)
        /\ Found' = Found
        /\ PointsStoredOnce' = PointsStoredOnce
        /\ \A p : InQueryBounds(p)' = InQueryBounds(p)
    BY <2>1, IterationStays
  <2>3. Current' = Current
    BY <2>1 DEF Current, countVars, ChunksAt
  <2>4. Left' = Left
    BY <2>1, <2>2, <2>3 DEF Left
  <2>5. PointsStoredOnce /\ done' => Left = {}
    BY <2>1, NoneLeft DEF IterInv
  <2> QED BY <2>1, <2>2, <2>3, <2>4, <2>5 DEF IterInv, countVars
<1>5. CASE \E q \in Queries : Query(q)
  <2>1. phase' = "walking" => returned' = [p \in Points |-> 0] /\ done' = FALSE
    BY <1>5 DEF Query
  <2>2. ~Iterating'
    BY <1>5 DEF Query, Iterating
  <2> QED BY <2>1, <2>2 DEF IterInv
<1>6. CASE Visit
  <2>1. phase = "walking" /\ UNCHANGED <<phase, returned, done>>
    BY <1>6 DEF Visit, iterVars
  <2> QED BY <2>1 DEF IterInv, Iterating
<1>7. CASE Open \/ PopEntry \/ EndPages \/ DecodeGarbage \/ Failing \/ DropIter
  <2>1. phase' # "walking" /\ ~Iterating'
    BY <1>7 DEF Open, PopEntry, EndPages, DecodeGarbage, Failing, OpenFails,
                EndWalkFails, NextPanics, DropIter, Fail, Iterating
  <2> QED BY <2>1 DEF IterInv
<1>8. CASE UNCHANGED vars
  <2>1. UNCHANGED <<read, start, hierarchy_entries, query, satisfying_nodes,
                    nodes, node_points_left, decompressor, returned, done,
                    phase>>
    BY <1>8 DEF vars, openVars, walkVars, iterVars, countVars
  <2>2. \A f : Content(f)' = Content(f)
    BY <2>1 DEF Content, ChunksAt
  <2>3. WithPoints' = WithPoints
    BY <2>1 DEF WithPoints, Stored
  <2>4. PointsStoredOnce' = PointsStoredOnce
    BY <2>2, <2>3 DEF PointsStoredOnce
  <2>5. Current' = Current
    BY <2>1 DEF Current, ChunksAt
  <2>6. Left' = Left /\ Found' = Found
    BY <2>1, <2>2, <2>5 DEF Left, Found
  <2>7. \A p : InQueryBounds(p)' = InQueryBounds(p)
    BY <2>1 DEF InQueryBounds
  <2> QED BY <2>1, <2>2, <2>4, <2>5, <2>6, <2>7 DEF IterInv, Iterating
<1> QED BY <1>1, <1>2, <1>3, <1>4, <1>5, <1>6, <1>7, <1>8 DEF Next, Running

LEMMA NodesInvariant == Spec => []NodesInv
<1>1. Init => IterInv
  BY DEF Init, ReaderInit, IterInv, Iterating
<1>2. NodesInv /\ [Next]_vars => IterInv'
  BY IterInductive
<1> QED BY <1>1, <1>2, ChunkInvariant, PTL DEF Spec, NodesInv

(***************************************************************************)
(* If every entry counts the points of its chunk right, and no point is    *)
(* stored in two chunks: an iterator returns the points of the selected    *)
(* nodes that its bounds contain, none twice, and all of them before None. *)
(***************************************************************************)
THEOREM IterationsAreExact ==
  ASSUME GapsAreSmall
  PROVE  Spec => [](PointsStoredOnce /\ Answerable => IterationIsExact)
<1>1. ASSUME NodesInv, QueryInv, PointsStoredOnce, Answerable
      PROVE  IterationIsExact
  <2>1. SUFFICES ASSUME Iterating, NEW p \in Points
                 PROVE  /\ returned[p] <= IF p \in WantedPoints THEN 1 ELSE 0
                        /\ done /\ p \in WantedPoints => returned[p] = 1
    BY DEF IterationIsExact, Iterating
  <2>2. p \in WantedPoints <=> p \in Found /\ InQueryBounds(p)
    <3>1. satisfying_nodes = Selected
      BY <1>1, <2>1 DEF QueryInv
    <3>2. p \in WantedPoints <=>
            /\ p \in Found
            /\ \A b \in query.bounds : \A a \in Axis :
                 /\ Raw(b.min[a]) <= Raw(Position[p][a])
                 /\ Raw(Position[p][a]) <= Raw(b.max[a])
      BY <3>1 DEF WantedPoints, Found
    <3>3. InQueryBounds(p) <=>
            \A b \in query.bounds : \A a \in Axis :
              /\ Raw(b.min[a]) <= Raw(Position[p][a])
              /\ Raw(Position[p][a]) <= Raw(b.max[a])
      BY DEF InQueryBounds, HasPoint, BoundsContainPoint, RawBounds,
             RawPosition
    <3> QED BY <3>2, <3>3
  <2>3. /\ returned[p] = IF p \in Found \ Left /\ InQueryBounds(p) THEN 1
                         ELSE 0
        /\ done => Left = {}
    BY <1>1, <2>1 DEF NodesInv, IterInv
  <2> QED BY <2>2, <2>3
<1> QED BY <1>1, NodesInvariant, QueryInvariant, PTL

\* The nodes of an iterator have no more points in their chunks than the
\* entries count.
LEMMA UnionIsSmall ==
  ASSUME ReaderInv, PointsStoredOnce, NEW S \in SUBSET WithPoints,
         IsFiniteSet(S)
  PROVE  LET U == UNION { Content(e) : e \in S }
         IN  IsFiniteSet(U) /\ Cardinality(U) <= TotalPoints(S)
<1> DEFINE U(T) == UNION { Content(e) : e \in T }
           Small(T) == /\ IsFiniteSet(U(T))
                       /\ Cardinality(U(T)) <= TotalPoints(T)
           N == Cardinality(S)
           G == { n \in 0 .. N : \A T \in SUBSET S :
                                    Cardinality(T) <= n => Small(T) }
<1>1. /\ N \in Nat
      /\ \A T \in SUBSET S : IsFiniteSet(T) /\ Cardinality(T) \in Nat
  BY FS_Subset, FS_CardinalityType
<1>2. \A e \in WithPoints :
        /\ e.point_count \in Nat \ {0}
        /\ Cardinality(Content(e)) = e.point_count
        /\ IsFiniteSet(Content(e))
  BY StoredIsTyped, ContentIsTyped DEF PointsStoredOnce, ReaderInv
<1>3. 0 \in G
  <2>1. ASSUME NEW T \in SUBSET S, Cardinality(T) <= 0
        PROVE  Small(T)
    <3>1. T = {}
      BY <1>1, <2>1, FS_EmptySet
    <3>2. U(T) = {}
      BY <3>1
    <3>3. TotalPoints(T) \in Nat
      BY <1>1, <1>2, TotalPointsTakes
    <3> QED BY <3>2, <3>3, FS_EmptySet
  <2> HIDE DEF Small
  <2> QED BY <1>1, <2>1
<1>4. ASSUME NEW n \in 0 .. (N - 1), n \in G
      PROVE  n + 1 \in G
  <2>1. ASSUME NEW T \in SUBSET S, Cardinality(T) <= n + 1
        PROVE  Small(T)
    <3>1. CASE T = {}
      <4>1. Cardinality(T) <= n
        BY <3>1, FS_EmptySet
      <4> HIDE DEF Small
      <4> QED BY <1>4, <4>1
    <3>2. CASE T # {}
      <4>1. PICK e \in T : TRUE
        BY <3>2
      <4> DEFINE R == T \ {e}
      <4>2. /\ IsFiniteSet(T) /\ \A f \in T : f.point_count \in Nat
            /\ e \in WithPoints
        BY <1>1, <1>2, <4>1
      <4>3. /\ R \in SUBSET S /\ Cardinality(R) = Cardinality(T) - 1
            /\ Cardinality(R) <= n
        <5>1. Cardinality(R) = Cardinality(T) - 1
          BY <4>1, <4>2, FS_RemoveElement
        <5>2. Cardinality(T) \in Nat /\ n \in Nat
          BY <1>1
        <5> QED BY <2>1, <5>1, <5>2
      <4>4. Small(R)
        <5> HIDE DEF Small, R
        <5> QED BY <1>4, <4>3
      <4>5. /\ TotalPoints(T) = e.point_count + TotalPoints(R)
            /\ TotalPoints(R) \in Nat
        BY <4>1, <4>2, TotalPointsTakes
      <4>6. U(T) = Content(e) \cup U(R)
        BY <4>1
      <4> DEFINE A == Content(e)
                 B == U(R)
      <4>7. /\ IsFiniteSet(A) /\ Cardinality(A) = e.point_count
            /\ e.point_count \in Nat
            /\ IsFiniteSet(B) /\ Cardinality(B) <= TotalPoints(R)
        BY <1>2, <4>2, <4>4
      <4> HIDE DEF A, B, R
      <4>8. /\ IsFiniteSet(A \cup B)
            /\ Cardinality(A \cup B)
                 = Cardinality(A) + Cardinality(B) - Cardinality(A \cap B)
            /\ Cardinality(A \cap B) \in Nat /\ Cardinality(B) \in Nat
        BY <4>7, FS_Union, FS_Intersection, FS_CardinalityType
      <4>9. Cardinality(A \cup B) <= TotalPoints(T)
        BY <4>5, <4>7, <4>8
      <4>10. U(T) = A \cup B
        BY <4>6 DEF A, B
      <4> QED BY <4>8, <4>9, <4>10
    <3> QED BY <3>1, <3>2
  <2>2. n + 1 \in 0 .. N
    BY <1>1
  <2> HIDE DEF Small
  <2> QED BY <2>1, <2>2
<1>5. 0 .. N \subseteq G
  <2> HIDE DEF G, N
  <2> QED BY <1>1, <1>3, <1>4, UpTo
<1>6. Small(S)
  <2> HIDE DEF Small
  <2>1. N \in 0 .. N /\ S \in SUBSET S /\ Cardinality(S) <= N
    BY <1>1
  <2> QED BY <1>5, <2>1
<1> QED BY <1>6

(***************************************************************************)
(* Under the same conditions on the file, the counter of the points left   *)
(* is the sum over the nodes left, and never less than what is still to be *)
(* returned: size_hint's upper bound holds, and next does not end early.   *)
(***************************************************************************)
THEOREM CountersAlwaysAgree ==
  ASSUME GapsAreSmall
  PROVE  Spec => [](PointsStoredOnce /\ Answerable => CountersAgree)
<1>1. ASSUME NodesInv, QueryInv, PointsStoredOnce, Answerable
      PROVE  CountersAgree
  <2> USE <1>1 DEF NodesInv, ReaderInv
  <2>1. SUFFICES ASSUME Iterating
                 PROVE  /\ total_points_left = node_points_left
                             + TotalPoints({ nodes[i] : i \in DOMAIN nodes })
                        /\ Cardinality({ p \in WantedPoints : returned[p] = 0 })
                             <= total_points_left
    BY DEF CountersAgree, Iterating
  <2> DEFINE S == ToSet(nodes)
             T == { p \in WantedPoints : returned[p] = 0 }
             U == UNION { Content(e) : e \in S }
  <2>2. /\ total_points_left = node_points_left + TotalPoints(S)
        /\ node_points_left \in Nat
    BY <2>1 DEF CountInv
  <2>3. S = { nodes[i] : i \in DOMAIN nodes }
    BY DEF ToSet
  <2>4. S \in SUBSET WithPoints /\ IsFiniteSet(S)
    <3>1. CASE nodes = <<>>
      <4>1. S = {}
        BY <3>1 DEF ToSet
      <4> QED BY <4>1, FS_EmptySet
    <3>2. CASE nodes # <<>>
      BY <2>1, <3>2, NodesLeft
    <3> QED BY <3>1, <3>2
  <2>5. IsFiniteSet(U) /\ Cardinality(U) <= TotalPoints(S)
    BY <2>4, UnionIsSmall
  <2>6. /\ IsFiniteSet(Current) /\ Cardinality(Current) = node_points_left
    <3>1. Cardinality(Current) = node_points_left
      BY <2>1 DEF IterInv
    <3>0. SUFFICES IsFiniteSet(Current)
      BY <3>1
    <3>2. CASE node_points_left = 0
      <4>1. Current = {}
        BY <3>2 DEF Current
      <4> QED BY <4>1, FS_EmptySet
    <3>3. CASE node_points_left # 0 /\ ~decompressor.fresh
      BY <2>1, <2>2, <3>3 DEF ChunkInv, Current
    <3>4. CASE node_points_left # 0 /\ decompressor.fresh
      <4>1. Current = UNION { b.points : b \in ChunksAt(read.pos) }
        BY <3>4 DEF Current
      <4>2. ASSUME NEW b \in ChunksAt(read.pos) PROVE IsFiniteSet(Current)
        <5>1. ChunksAt(read.pos) = {b} /\ IsFiniteSet(b.points)
          BY ChunkIsTyped
        <5>2. Current = b.points
          BY <4>1, <5>1
        <5> QED BY <5>1, <5>2
      <4>3. CASE ChunksAt(read.pos) = {}
        <5>1. Current = {}
          BY <4>1, <4>3
        <5> QED BY <5>1, FS_EmptySet
      <4> QED BY <4>2, <4>3
    <3> QED BY <3>2, <3>3, <3>4
  <2>7. T \subseteq Left /\ Left = Current \cup U
    <3>1. satisfying_nodes = Selected
      BY <2>1 DEF QueryInv
    <3>2. ASSUME NEW p \in T PROVE p \in Left
      <4>1. /\ p \in Found /\ returned[p] = 0
            /\ \A b \in query.bounds : \A a \in Axis :
                 /\ Raw(b.min[a]) <= Raw(Position[p][a])
                 /\ Raw(Position[p][a]) <= Raw(b.max[a])
        BY <3>1 DEF WantedPoints, Found
      <4>2. InQueryBounds(p)
        BY <4>1 DEF InQueryBounds, HasPoint, BoundsContainPoint, RawBounds,
                    RawPosition
      <4>3. p \in Points
        BY <4>1, ContentIsTyped DEF Found
      <4>4. returned[p] = IF p \in Found \ Left /\ InQueryBounds(p) THEN 1
                          ELSE 0
        BY <2>1, <4>3 DEF IterInv
      <4> QED BY <4>1, <4>2, <4>4
    <3> QED BY <3>2 DEF Left
  <2> HIDE DEF T, U, S
  <2>8. /\ IsFiniteSet(Left) /\ Cardinality(Left) \in Nat
        /\ Cardinality(Left) <= Cardinality(Current) + Cardinality(U)
    <3>1. /\ IsFiniteSet(Current \cup U)
          /\ Cardinality(Current \cup U) = Cardinality(Current)
               + Cardinality(U) - Cardinality(Current \cap U)
      BY <2>5, <2>6, FS_Union
    <3>2. /\ Cardinality(Current \cap U) \in Nat /\ Cardinality(U) \in Nat
          /\ Cardinality(Current) \in Nat
          /\ Cardinality(Current \cup U) \in Nat
      BY <2>5, <2>6, <3>1, FS_Intersection, FS_CardinalityType
    <3> QED BY <2>7, <3>1, <3>2
  <2>9. Cardinality(T) <= Cardinality(Left) /\ Cardinality(T) \in Nat
    BY <2>7, <2>8, FS_Subset, FS_CardinalityType
  <2>10. TotalPoints(S) \in Nat /\ Cardinality(U) \in Nat
    <3>1. \A e \in S : e.point_count \in Nat
      BY <2>4, StoredIsTyped
    <3> QED BY <2>4, <2>5, <3>1, TotalPointsTakes, FS_CardinalityType
  <2>11. Cardinality(T) <= node_points_left + TotalPoints(S)
    BY <2>2, <2>5, <2>6, <2>8, <2>9, <2>10
  <2> QED BY <2>2, <2>3, <2>11 DEF T
<1> QED BY <1>1, NodesInvariant, QueryInvariant, PTL

-----------------------------------------------------------------------------
(* Points in the bounds.                                                   *)

\* Every point lies in the voxel of the node it is stored in.
PointsLieInVoxels ==
  \A e \in WithPoints : \A p \in Content(e) :
    BoundsContainPoint(VoxelBounds(e.key), Position[p])

\* Rounding keeps the order of the coordinates.
LEMMA DivisionIsMonotone ==
  ASSUME NEW x \in Int, NEW y \in Int, NEW m \in Nat \ {0}, x <= y
  PROVE  x \div m <= y \div m
<1> DEFINE q == x \div m
           r == x % m
           s == y \div m
           t == y % m
<1>1. /\ q \in Int /\ r \in 0 .. (m - 1) /\ x = m * q + r
      /\ s \in Int /\ t \in 0 .. (m - 1) /\ y = m * s + t
  OBVIOUS
<1> HIDE DEF q, r, s, t
<1>2. ASSUME s < q PROVE FALSE
  <2>1. s + 1 <= q
    BY <1>1, <1>2
  <2>2. m * (s + 1) <= m * q
    BY <1>1, <2>1
  <2>3. m * (s + 1) = m * s + m /\ m * s \in Int /\ m * q \in Int
    BY <1>1
  <2> QED BY <1>1, <2>2, <2>3
<1>3. q <= s
  BY <1>1, <1>2
<1> QED BY <1>3 DEF q, s

LEMMA RawIsMonotone ==
  ASSUME NEW x \in Int, NEW y \in Int, x <= y
  PROVE  Raw(x) <= Raw(y)
<1> DEFINE m == 2 * Scale
<1>1. Scale \in Nat \ {0} /\ m \in Nat \ {0}
  BY ReaderAssumption
<1>2. \A v, w \in Int : v <= w => v \div m <= w \div m
  <2> HIDE DEF m
  <2> QED BY <1>1, DivisionIsMonotone
<1>3. \A v \in Int : v \div m \in Int
  <2> HIDE DEF m
  <2> QED BY <1>1
<1>4. \A v \in Int : v >= 0 => v \div m >= 0
  <2> HIDE DEF m
  <2> QED BY <1>1
<1>5. CASE x >= 0
  <2>1. Raw(x) = (2 * x + Scale) \div m /\ Raw(y) = (2 * y + Scale) \div m
    BY <1>5 DEF Raw
  <2>2. /\ 2 * x + Scale \in Int /\ 2 * y + Scale \in Int
        /\ 2 * x + Scale <= 2 * y + Scale
    BY <1>1
  <2> HIDE DEF m
  <2> QED BY <1>2, <2>1, <2>2
<1>6. CASE x < 0 /\ y >= 0
  <2>1. /\ Raw(x) = - ((Scale - 2 * x) \div m)
        /\ Raw(y) = (2 * y + Scale) \div m
    BY <1>6 DEF Raw
  <2>2. /\ Scale - 2 * x \in Int /\ 2 * y + Scale \in Int
        /\ Scale - 2 * x >= 0 /\ 2 * y + Scale >= 0
    BY <1>1, <1>6
  <2> HIDE DEF m
  <2>3. (Scale - 2 * x) \div m \in Int /\ (Scale - 2 * x) \div m >= 0
    BY <1>3, <1>4, <2>2
  <2>4. (2 * y + Scale) \div m \in Int /\ (2 * y + Scale) \div m >= 0
    BY <1>3, <1>4, <2>2
  <2> QED BY <2>1, <2>3, <2>4
<1>7. CASE y < 0
  <2>1. /\ Raw(x) = - ((Scale - 2 * x) \div m)
        /\ Raw(y) = - ((Scale - 2 * y) \div m)
    BY <1>7 DEF Raw
  <2>2. /\ Scale - 2 * x \in Int /\ Scale - 2 * y \in Int
        /\ Scale - 2 * y <= Scale - 2 * x
    BY <1>1
  <2> HIDE DEF m
  <2>3. /\ (Scale - 2 * x) \div m \in Int /\ (Scale - 2 * y) \div m \in Int
        /\ (Scale - 2 * y) \div m <= (Scale - 2 * x) \div m
    BY <1>2, <1>3, <2>2
  <2> QED BY <2>1, <2>3
<1> QED BY <1>5, <1>6, <1>7

\* Once a full resolution query is iterated to its end, the points in the
\* bounds have come back.
LEMMA PointsComeBack ==
  ASSUME GapsAreSmall, NodesInv, QueryInv, PointsStoredOnce, PointsLieInVoxels
  PROVE  PointsInBoundsComeBack
<1> USE DEF NodesInv, ReaderInv
<1>1. SUFFICES ASSUME phase = "iterating", done, query.levels.select = "All",
                      NEW e \in Stored, Reachable(e), e.point_count > 0,
                      NEW p \in Content(e),
                      \A b \in query.bounds : BoundsContainPoint(b, Position[p])
               PROVE  returned[p] = 1
  BY DEF PointsInBoundsComeBack
<1>2. /\ Iterating /\ QueryIsValid
      /\ e \in WithPoints /\ p \in Points
      /\ \A a \in Axis : Position[p][a] \in Int
  <2>1. p \in Points
    BY ContentIsTyped
  <2>2. Iterating /\ e \in WithPoints
    BY <1>1 DEF Iterating, WithPoints
  <2> QED BY <2>1, <2>2, ReaderAssumption DEF QueryInv
<1>3. ASSUME NEW b \in query.bounds, NEW a \in Axis
      PROVE  /\ b.min[a] \in Int /\ b.max[a] \in Int
             /\ b.min[a] <= Position[p][a] /\ Position[p][a] <= b.max[a]
  <2>1. b \in Boxes
    BY <1>2, QueriesAssumption DEF QueryIsValid, IsQuery, Boxes
  <2> QED BY <1>1, <2>1 DEF Boxes, BoundsContainPoint
<1>4. Answerable
  <2>1. \A b \in query.bounds : \A a \in Axis : b.min[a] <= b.max[a]
    BY <1>2, <1>3
  <2>2. query.levels.select # "Resolution"
    BY <1>1
  <2> QED BY <2>1, <2>2 DEF Answerable
<1>5. e.key \in Keys /\ e.key.level \in 0 .. MaxLevel
  BY StoredKeys, VoxelKeysAreKeys
<1>6. e \in Selected
  <2>1. LevelWanted(query.levels, e.key.level)
    BY <1>1 DEF LevelWanted
  <2>2. ASSUME NEW b \in query.bounds PROVE Meet(VoxelBounds(e.key), b)
    <3> DEFINE v == VoxelBounds(e.key)
    <3>1. ASSUME NEW a \in Axis
          PROVE  Position[p][a] \in (v.min[a] .. v.max[a])
                                      \cap (b.min[a] .. b.max[a])
      <4>1. v.min[a] \in Int /\ v.max[a] \in Int
        BY <1>5, VoxelBoundsAreBoxes DEF Boxes
      <4>2. v.min[a] <= Position[p][a] /\ Position[p][a] <= v.max[a]
        BY <1>2 DEF PointsLieInVoxels, BoundsContainPoint
      <4> HIDE DEF v
      <4> QED BY <1>2, <1>3, <4>1, <4>2
    <3> QED BY <3>1 DEF Meet
  <2> QED BY <1>1, <2>1, <2>2 DEF Selected
<1>7. p \in Found
  <2>1. satisfying_nodes = Selected
    BY <1>2, <1>4 DEF QueryInv
  <2> QED BY <1>6, <2>1 DEF Found
<1>8. InQueryBounds(p)
  <2>1. ASSUME NEW b \in query.bounds, NEW a \in Axis
        PROVE  /\ Raw(b.min[a]) <= Raw(Position[p][a])
               /\ Raw(Position[p][a]) <= Raw(b.max[a])
    BY <1>2, <1>3, RawIsMonotone
  <2> QED BY <2>1 DEF InQueryBounds, HasPoint, BoundsContainPoint,
                      RawBounds, RawPosition
<1>9. Left = {} /\ returned[p] = IF p \in Found \ Left /\ InQueryBounds(p)
                                 THEN 1 ELSE 0
  BY <1>1, <1>2 DEF IterInv
<1> QED BY <1>7, <1>8, <1>9

(***************************************************************************)
(* If, moreover, every point lies in its voxel: a full resolution query    *)
(* returns every point that was inside the bounds before it was encoded.   *)
(***************************************************************************)
THEOREM PointsInBoundsAlwaysComeBack ==
  ASSUME GapsAreSmall
  PROVE  Spec => [](PointsStoredOnce /\ PointsLieInVoxels
                      => PointsInBoundsComeBack)
BY PointsComeBack, NodesInvariant, QueryInvariant, PTL

-----------------------------------------------------------------------------
(* Seeks.                                                                  *)

\* Every node with points has a chunk.
EntriesHaveChunks == \A e \in WithPoints : ChunksAt(e.offset + start) # {}

\* The nodes to come lie ahead, and behind the chunk that is about to be
\* loaded.
AheadInv ==
  Iterating =>
    \A e \in ToSet(nodes) :
      /\ read.pos <= e.offset + start
      /\ decompressor.fresh => read.pos < e.offset + start

LEMMA NodesAreTyped ==
  ASSUME ReaderInv, NEW e \in ToSet(nodes)
  PROVE  e \in WithPoints /\ e.offset \in Nat
<1>1. nodes \in Seq(WithPoints)
  BY DEF ReaderInv, WalkInv
<1>2. e \in WithPoints
  BY <1>1, LenProperties DEF ToSet
<1> QED BY <1>2, StoredIsTyped DEF ReaderInv

LEMMA EndWalkAhead ==
  ASSUME ReaderInv, ReaderInv', EndWalk
  PROVE  AheadInv'
<1>1. SUFFICES ASSUME phase' = "iterating", NEW e \in ToSet(nodes')
               PROVE  /\ read'.pos <= e.offset + start'
                      /\ ~decompressor'.fresh
  <2>1. phase' # "next"
    BY DEF EndWalk
  <2> QED BY <2>1 DEF AheadInv, Iterating
<1>2. /\ start' = start /\ start \in Nat /\ DOMAIN read = {"pos", "disk"}
  BY DEF EndWalk, openVars, ReaderInv, SourceInv, IsFile
<1>3. read'.pos = start /\ ~decompressor'.fresh
  BY <1>1, <1>2 DEF EndWalk, DataStart
<1>4. e.offset \in Nat
  <2>1. nodes' \in Seq(WithPoints') /\ EntriesInv' /\ SourceInv'
    BY DEF ReaderInv, WalkInv
  <2>2. e \in WithPoints'
    BY <1>1, <2>1, LenProperties DEF ToSet
  <2>3. WithPoints' = WithPoints
    BY DEF EndWalk, openVars, WithPoints, Stored
  <2> QED BY <2>2, <2>3, StoredIsTyped DEF ReaderInv
<1> QED BY <1>2, <1>3, <1>4

LEMMA NextNodeAhead ==
  ASSUME ReaderInv, AheadInv, NextNode
  PROVE  AheadInv' /\ read'.pos >= read.pos
<1> USE DEF ReaderInv
<1> DEFINE e == Last(nodes)
<1>1. /\ phase = "next" /\ nodes # <<>> /\ nodes' = Front(nodes)
      /\ start' = start /\ Iterating
      /\ read' = [read EXCEPT !.pos = e.offset + decompressor.start]
      /\ decompressor' = Reset
  BY DEF NextNode, openVars, Iterating
<1>2. /\ DOMAIN read = {"pos", "disk"} /\ start \in Nat
      /\ decompressor.start = start
      /\ decompressor \in [start : Nat, fresh : BOOLEAN, left : SUBSET Points]
  BY <1>1 DEF SourceInv, IsFile, CountInv
<1>3. read'.pos = e.offset + start /\ decompressor'.fresh
  BY <1>1, <1>2 DEF Reset
<1>4. /\ e \in ToSet(nodes) /\ ToSet(nodes') = ToSet(nodes) \ {e}
      /\ \A f \in ToSet(nodes') : f.offset > e.offset
  BY <1>1, NodesLeft
<1> HIDE DEF e
<1>5. read.pos <= e.offset + start
  BY <1>1, <1>4 DEF AheadInv
<1>6. \A f \in ToSet(nodes) : f.offset \in Nat
  BY NodesAreTyped
<1>7. \A f \in ToSet(nodes') : read'.pos < f.offset + start
  BY <1>2, <1>3, <1>4, <1>6
<1>8. read.pos \in Nat
  BY DEF SourceInv, IsFile
<1>9. AheadInv'
  BY <1>1, <1>2, <1>3, <1>4, <1>6, <1>7 DEF AheadInv
<1> QED BY <1>2, <1>3, <1>4, <1>5, <1>6, <1>8, <1>9

LEMMA DecodePointAhead ==
  ASSUME ReaderInv, AheadInv, EntriesHaveChunks, DecodePoint
  PROVE  AheadInv' /\ read'.pos >= read.pos
<1> USE DEF ReaderInv
<1>1. /\ phase = "next" /\ Iterating /\ nodes' = nodes /\ start' = start
  BY DEF DecodePoint, openVars, Iterating
<1>2. PICK pos \in BehindChunk : read' = [read EXCEPT !.pos = pos]
  BY DEF DecodePoint
<1>3. ~decompressor'.fresh
  <2>1. PICK d \in Loaded : \E p \in d.left :
          decompressor' = [d EXCEPT !.left = @ \ {p}]
    BY DEF DecodePoint
  <2>2. decompressor \in [start : Nat, fresh : BOOLEAN, left : SUBSET Points]
    BY DEF CountInv
  <2>3. d \in [start : Nat, fresh : {FALSE}, left : {d.left}]
    <3>1. CASE decompressor.fresh
      <4>1. PICK b \in ChunksAt(read.pos) :
              d = [decompressor EXCEPT !.fresh = FALSE, !.left = b.points]
        BY <2>1, <3>1 DEF Loaded
      <4> QED BY <2>2, <4>1
    <3>2. CASE ~decompressor.fresh
      BY <2>1, <2>2, <3>2 DEF Loaded
    <3> QED BY <3>1, <3>2
  <2> QED BY <2>1, <2>3
<1>4. read'.pos = pos /\ read.pos \in Nat /\ start \in Nat
  BY <1>2 DEF SourceInv, IsFile
<1>5. \A e \in ToSet(nodes) : e.offset \in Nat /\ read.pos <= e.offset + start
  BY <1>1, NodesAreTyped DEF AheadInv
<1>6. CASE ~decompressor.fresh
  <2>1. pos = read.pos
    BY <1>2, <1>6 DEF BehindChunk
  <2> QED BY <1>1, <1>3, <1>4, <1>5, <2>1 DEF AheadInv
<1>7. CASE decompressor.fresh
  <2>1. PICK b \in ChunksAt(read.pos) : pos = b.at + b.len
    BY <1>2, <1>7 DEF BehindChunk
  <2>2. b.at = read.pos /\ b.len \in Nat /\ b \in read.disk /\ IsChunk(b)
    BY ChunkIsTyped DEF ChunksAt
  <2>3. ASSUME NEW e \in ToSet(nodes)
        PROVE  pos <= e.offset + start
    <3>1. read.pos < e.offset + start
      BY <1>1, <1>7 DEF AheadInv
    <3>2. PICK c \in ChunksAt(e.offset + start) : TRUE
      BY NodesAreTyped DEF EntriesHaveChunks
    <3>3. c.at = e.offset + start /\ c \in read.disk /\ IsChunk(c)
      BY <3>2 DEF ChunksAt
    <3>4. b.at < c.at /\ b # c
      BY <1>4, <1>5, <2>2, <3>1, <3>3
    <3> QED BY <2>1, <2>2, <3>3, <3>4, EntriesAreTyped
  <2> QED BY <1>1, <1>3, <1>4, <2>1, <2>2, <2>3 DEF AheadInv
<1> QED BY <1>6, <1>7 DEF CountInv

LEMMA AheadInductive ==
  ASSUME ReaderInv, ReaderInv', AheadInv, EntriesHaveChunks, [Next]_vars
  PROVE  AheadInv' /\ (phase = "next" => read'.pos >= read.pos)
<1>0. read.pos \in Nat
  BY DEF ReaderInv, SourceInv, IsFile
<1>1. CASE EndWalk
  <2>1. phase # "next"
    BY <1>1 DEF EndWalk
  <2> QED BY <1>1, <2>1, EndWalkAhead
<1>2. CASE NextNode
  BY <1>2, NextNodeAhead
<1>3. CASE DecodePoint
  BY <1>3, DecodePointAhead
<1>4. CASE CallNext \/ NoMoreNodes \/ UNCHANGED vars
  <2>1. /\ UNCHANGED <<read, start, nodes, decompressor>>
        /\ Iterating' => Iterating
    BY <1>4 DEF CallNext, NoMoreNodes, Iterating, vars, openVars, iterVars
  <2> QED BY <1>0, <2>1 DEF AheadInv
<1>5. CASE \/ Open \/ PopEntry \/ EndPages \/ Visit \/ Failing \/ DropIter
           \/ DecodeGarbage \/ \E q \in Queries : Query(q)
  <2>1. ~Iterating'
    BY <1>5 DEF Open, PopEntry, EndPages, Visit, Failing, DropIter,
                DecodeGarbage, Query, OpenFails, EndWalkFails, NextPanics,
                Fail, Iterating
  <2>2. phase = "next" => read' = read
    BY <1>5 DEF Open, PopEntry, EndPages, Visit, Failing, DropIter,
                DecodeGarbage, Query, OpenFails, EndWalkFails, NextPanics
  <2> QED BY <1>0, <2>1, <2>2 DEF AheadInv
<1> QED BY <1>1, <1>2, <1>3, <1>4, <1>5 DEF Next, Running

(***************************************************************************)
(* If every entry with points leads to a chunk: "Sort nodes by decending   *)
(* offsets for sequential reading" (reader.rs), an iterator never moves    *)
(* the source backwards.                                                   *)
(***************************************************************************)
THEOREM IteratorsReadForward == Spec /\ []EntriesHaveChunks => ReadsForward
<1>1. Init => AheadInv
  BY DEF Init, ReaderInit, AheadInv, Iterating
<1>2. ReaderInv /\ ReaderInv' /\ AheadInv /\ EntriesHaveChunks /\ [Next]_vars
        => AheadInv' /\ [phase = "next" => read'.pos >= read.pos]_vars
  BY AheadInductive
<1> QED BY <1>1, <1>2, ReaderInvariant, PTL DEF Spec, ReadsForward
-----------------------------------------------------------------------------
(* Files that tell the truth.                                              *)

\* The entries a file lists.
Listed(s) == ToSet(LastRecord(s, "page").page)

\* The file at s has its records and one page of entries: one for a key, which
\* counts the points of its chunk right, and no point is in two of the chunks.
SoundFile(s) ==
  /\ IsLasFile(s)
  /\ \A field \in {"info", "page", "laszip"} : Records(s, field) # {}
  /\ RootEntries(LastRecord(s, "info").info) = Len(LastRecord(s, "page").page)
  /\ \A e \in Listed(s) :
       /\ e.point_count > 0
       /\ \E b \in ChunksAt(e.offset + s) :
            Cardinality(b.points) = e.point_count
  /\ \A e, f \in Listed(s) :
       /\ e.key = f.key => e = f
       /\ e # f => \A b \in ChunksAt(e.offset + s), c \in ChunksAt(f.offset + s) :
                     b.points \cap c.points = {}

\* A reader of such a file, whose reads do not fail.
SoundInv(s) ==
  /\ SoundFile(s)
  /\ read_faults = 0
  /\ phase \notin {"failed", "garbage"}
  /\ IF phase = "unopened" THEN read.pos = s
     ELSE start = s /\ copc_info = LastRecord(s, "info").info

\* A reader starts in a state of the invariants, whatever its source.
LEMMA NodesInitially ==
  ASSUME IsFile(read), ReaderInit
  PROVE  NodesInv /\ QueryInv
<1> USE DEF ReaderInit
<1>1. ReaderInv
  BY ReaderInitially
<1>2. PageInv
  BY DEF PageInv, Opened, InFile
<1>3. ChunkInv
  BY DEF ChunkInv, Iterating
<1>4. IterInv /\ QueryInv
  BY DEF IterInv, QueryInv, Iterating
<1> QED BY <1>1, <1>2, <1>3, <1>4 DEF NodesInv

LEMMA NodesInductive ==
  ASSUME GapsAreSmall, NodesInv, QueryInv, [Next]_vars
  PROVE  NodesInv' /\ QueryInv'
<1> USE DEF NodesInv
<1>1. ReaderInv'
  BY SourceInductive, EntriesInductive, WalkInductive, CountInductive
  DEF ReaderInv
<1>2. PageInv' /\ ChunkInv' /\ IterInv' /\ QueryInv'
  BY PageInductive, ChunkInductive, IterInductive, QueryInductive
<1> QED BY <1>1, <1>2

LEMMA SoundFileStays ==
  ASSUME NEW s, read'.disk = read.disk
  PROVE  /\ SoundFile(s)' = SoundFile(s)
         /\ LastRecord(s, "info")' = LastRecord(s, "info")
<1>1. /\ IsLasFile(s)' = IsLasFile(s)
      /\ \A field : Records(s, field)' = Records(s, field)
      /\ \A field : LastRecord(s, field)' = LastRecord(s, field)
      /\ \A pos : ChunksAt(pos)' = ChunksAt(pos)
  BY FileStays, RecordsStay
<1>2. Listed(s)' = Listed(s)
  BY <1>1 DEF Listed
<1> QED BY <1>1, <1>2 DEF SoundFile

\* What a reader of such a file has stored, and where it leads.
LEMMA SoundFileIsStored ==
  ASSUME NEW s, NodesInv, SoundInv(s), phase # "unopened"
  PROVE  /\ ~HasChildPages /\ EntriesFit /\ OnePage
         /\ Opened => Stored = Listed(s) /\ WithPoints = Listed(s)
         /\ Opened => PointsStoredOnce
<1> USE DEF SoundInv
<1>1. start = s /\ SoundFile(s) /\ FileEntries = Listed(s)
  BY DEF FileEntries, Listed
<1>2. FileEntries \subseteq Entries
  <2>1. LastRecord(s, "page") \in read.disk /\ "page" \in DOMAIN LastRecord(s, "page")
    BY <1>1, LastRecordIsThere DEF NodesInv, ReaderInv, SoundFile
  <2>2. FileEntries \subseteq PageEntries(read)
    BY <1>1, <2>1 DEF FileEntries, PageEntries
  <2> QED BY <2>2, EntriesAreTyped DEF NodesInv, ReaderInv
<1>3. \A e \in FileEntries : e.point_count # -1 /\ e.point_count > 0
  BY <1>1, <1>2 DEF SoundFile, Entries
<1>4. ~HasChildPages
  BY <1>3 DEF HasChildPages
<1>5. EntriesFit
  <2> SUFFICES ASSUME NEW e \in FileEntries
               PROVE  \E b \in ChunksAt(e.offset + start) :
                        e.point_count <= Cardinality(b.points)
    BY DEF EntriesFit
  <2>1. PICK b \in ChunksAt(e.offset + s) : Cardinality(b.points) = e.point_count
    BY <1>1 DEF SoundFile
  <2>2. e.point_count \in Int
    BY <1>2 DEF Entries
  <2> QED BY <1>1, <2>1, <2>2
<1>6. OnePage
  <2> DEFINE n == Len(LastRecord(s, "page").page)
  <2>1. LastRecord(s, "page").page \in Seq(Entries)
    BY <1>1, LastRecordIsThere, EntriesAreTyped
    DEF NodesInv, ReaderInv, SoundFile, IsBlock
  <2>2. n \in Nat /\ RootEntries(copc_info) = n
    BY <1>1, <2>1, LenProperties DEF SoundFile
  <2>3. n <= RootEntries(copc_info)
    <3> HIDE DEF n
    <3> QED BY <2>2
  <2> QED BY <1>1, <1>4, <2>3 DEF OnePage, SoundFile
<1>7. ASSUME Opened PROVE Stored = Listed(s)
  <2>1. InFile /\ page = <<>>
    BY <1>7 DEF Opened, InFile, NodesInv, PageInv
  <2>2. ToSet(page) = {}
    BY <2>1 DEF ToSet
  <2> QED BY <1>1, <1>6, <2>1, <2>2 DEF NodesInv, PageInv
<1>8. ASSUME Opened PROVE WithPoints = Listed(s)
  BY <1>1, <1>3, <1>7, <1>8 DEF WithPoints
<1>9. ASSUME Opened PROVE PointsStoredOnce
  <2>1. ASSUME NEW e \in WithPoints
        PROVE  \E b \in ChunksAt(e.offset + s) :
                 Content(e) = b.points /\ Cardinality(b.points) = e.point_count
    <3>1. PICK b \in ChunksAt(e.offset + s) : Cardinality(b.points) = e.point_count
      BY <1>1, <1>8, <1>9 DEF SoundFile
    <3> QED BY <1>1, <3>1, ContentIsTyped DEF NodesInv
  <2>2. \A e, f \in WithPoints : e # f => Content(e) \cap Content(f) = {}
    BY <1>1, <1>8, <1>9, <2>1 DEF SoundFile
  <2> QED BY <2>1, <2>2 DEF PointsStoredOnce
<1> QED BY <1>4, <1>5, <1>6, <1>7, <1>8, <1>9

\* The reader opens such a file and goes on to find what it looks for.
LEMMA SoundInductive ==
  ASSUME NEW s, MaxReadFaults = 0, GapsAreSmall, NodesInv, QueryInv,
         SoundInv(s), [Next]_vars
  PROVE  SoundInv(s)'
<1> USE DEF SoundInv
<1>1. /\ read'.disk = read.disk
      /\ SoundFile(s)' /\ LastRecord(s, "info")' = LastRecord(s, "info")
  BY DiskStays, SoundFileStays DEF NodesInv, ReaderInv
<1>2. NodesInv'
  BY NodesInductive
<1>3. ~Failing
  BY DEF Failing, OpenFails, EndWalkFails, NextPanics, ReadFault
<1>4. CASE Open
  <2>1. /\ read.pos = s /\ start' = s /\ read_faults' = 0
    BY <1>4 DEF Open
  <2>2. /\ IsLasFile(s)
        /\ Records(s, "info") # {} /\ Records(s, "page") # {}
    BY DEF SoundFile
  <2>3. copc_info' = LastRecord(s, "info").info
    BY <1>4, <2>1, <2>2 DEF Open
  <2>4. LastRecord(s, "page").page \in Seq(Entries)
    BY <2>2, LastRecordIsThere, EntriesAreTyped
    DEF NodesInv, ReaderInv, IsBlock
  <2>5. Len(LastRecord(s, "page").page) \in Nat
    BY <2>4, LenProperties
  <2>6. ~(RootEntries(copc_info') > Len(LastRecord(s, "page").page))
    BY <2>3, <2>5 DEF SoundFile
  <2>7. phase' = "paging"
    BY <1>4, <2>1, <2>2, <2>6 DEF Open
  <2> QED BY <1>1, <2>1, <2>3, <2>7
<1>5. CASE ~Open /\ phase = "unopened"
  <2>1. UNCHANGED vars
    BY <1>3, <1>5 DEF Next, Running, Query, PopEntry, EndPages, Visit, EndWalk,
                      NextNode, NoMoreNodes, DecodePoint, DecodeGarbage,
                      CallNext, DropIter
  <2> QED BY <1>1, <1>5, <2>1 DEF vars, openVars
<1>6. CASE ~Open /\ phase # "unopened"
  <2>1. /\ start' = s /\ copc_info' = copc_info /\ phase' # "unopened"
    BY <1>3, <1>6 DEF Next, Running, Query, PopEntry, EndPages, Visit, EndWalk,
                      NextNode, NoMoreNodes, DecodePoint, DecodeGarbage,
                      CallNext, DropIter, vars, openVars, Fail
  <2>2. read_faults' = 0
    BY <1>3, <1>6 DEF Next, Running, Query, PopEntry, EndPages, Visit, EndWalk,
                      NextNode, NoMoreNodes, DecodePoint, DecodeGarbage,
                      CallNext, DropIter, vars
  <2>3. phase' # "failed"
    <3>1. start = s /\ Records(s, "laszip") # {}
      BY <1>6 DEF SoundFile
    <3> QED BY <1>3, <1>6, <3>1
            DEF Next, Running, Query, PopEntry, EndPages, Visit, EndWalk,
                NextNode, NoMoreNodes, DecodePoint, DecodeGarbage,
                CallNext, DropIter, vars
  <2>4. phase' # "garbage"
    <3>1. ~HasChildPages /\ EntriesFit
      BY <1>6, SoundFileIsStored
    <3>2. HasChildPages' = HasChildPages /\ EntriesFit' = EntriesFit
      BY <1>6, FileEntriesStay DEF NodesInv
    <3>3. IsLasFile(start)'
      BY <1>1, <2>1 DEF SoundFile
    <3> QED BY <1>2, <3>1, <3>2, <3>3 DEF NodesInv, ChunkInv
  <2> QED BY <1>1, <1>6, <2>1, <2>2, <2>3, <2>4
<1> QED BY <1>4, <1>5, <1>6

\* A reader that has been opened stays so, if only to have failed.
LEMMA OpenedForGood ==
  ASSUME Next
  PROVE  phase' # "unopened"
<1>1. Open => phase' # "unopened"
  BY DEF Open, Fail
<1>2. PopEntry \/ EndPages => phase' # "unopened"
  BY DEF PopEntry, EndPages, Fail
<1>3. (\E q \in Queries : Query(q)) \/ Visit \/ EndWalk => phase' # "unopened"
  BY DEF Query, Visit, EndWalk
<1>4. NextNode \/ NoMoreNodes \/ DecodePoint \/ DecodeGarbage
      => phase' # "unopened"
  BY DEF NextNode, NoMoreNodes, DecodePoint, DecodeGarbage
<1>5. Failing \/ CallNext \/ DropIter => phase' # "unopened"
  BY DEF Failing, OpenFails, EndWalkFails, NextPanics, Fail, CallNext, DropIter
<1> QED BY <1>1, <1>2, <1>3, <1>4, <1>5 DEF Next, Running
=============================================================================
