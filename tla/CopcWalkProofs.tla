--------------------------- MODULE CopcWalkProofs ---------------------------
(***************************************************************************)
(* The walks, for every value of the writer's constants: their stack, and  *)
(* that the loops do what the writer's actions say in one step.            *)
(***************************************************************************)
EXTENDS CopcWalk, CopcWriterProofs, SequenceTheorems

(***************************************************************************)
(* A node on the stack has at most the siblings of its own level and of    *)
(* those above it below it, and lies neither above nor below another node  *)
(* on the stack.                                                           *)
(***************************************************************************)
Deep(s) ==
  \A i \in DOMAIN s : i <= 1 + (2^Axes - 1) * s[i].level

Apart(s) ==
  \A i, j \in DOMAIN s : i # j =>
    s[i] # s[j] /\ s[i] \notin Ancestors(s[j])

Frontier(s) ==
  /\ s \in Seq(VoxelKeys)
  /\ Deep(s)
  /\ Apart(s)

-----------------------------------------------------------------------------
(* What the walks do to their stack.                                       *)

LEMMA RootIsAFrontier == Frontier(<<Root>>)
<1>1. <<Root>> \in Seq(VoxelKeys) /\ DOMAIN <<Root>> = {1} /\ <<Root>>[1] = Root
  BY RootHasNoAncestors
<1>2. Deep(<<Root>>)
  <2>1. 2^Axes \in Nat
    BY OctreeAssumption, PowersOfTwo
  <2>2. 1 <= 1 + (2^Axes - 1) * 0
    BY <2>1
  <2> QED BY <1>1, <2>2, RootHasNoAncestors DEF Deep
<1>3. Apart(<<Root>>)
  BY <1>1 DEF Apart
<1> QED BY <1>1, <1>2, <1>3 DEF Frontier

LEMMA EmptyIsAFrontier == Frontier(<<>>)
<1>1. <<>> \in Seq(VoxelKeys) /\ DOMAIN <<>> = {}
  OBVIOUS
<1> QED BY <1>1 DEF Frontier, Deep, Apart

\* The stack without its top.
LEMMA PoppedStack ==
  ASSUME NEW s \in Seq(VoxelKeys), s # <<>>
  PROVE  /\ Len(s) \in Nat \ {0} /\ DOMAIN s = 1 .. Len(s)
         /\ Last(s) = s[Len(s)] /\ Last(s) \in VoxelKeys
         /\ Front(s) \in Seq(VoxelKeys)
         /\ Len(Front(s)) = Len(s) - 1
         /\ DOMAIN Front(s) = 1 .. (Len(s) - 1)
         /\ \A i \in 1 .. (Len(s) - 1) : Front(s)[i] = s[i]
<1>1. /\ Len(s) \in Nat \ {0} /\ DOMAIN s = 1 .. Len(s)
      /\ s \in [1 .. Len(s) -> VoxelKeys]
  BY EmptySeq, LenProperties
<1>2. Last(s) = s[Len(s)] /\ Last(s) \in VoxelKeys
  BY <1>1 DEF Last
<1>3. \A i \in 1 .. Len(s) - 1 : s[i] \in VoxelKeys
  BY <1>1
<1>4. 1 \in Int /\ Len(s) - 1 \in Int
  BY <1>1
<1>5. /\ SubSeq(s, 1, Len(s) - 1) \in Seq(VoxelKeys)
      /\ Len(SubSeq(s, 1, Len(s) - 1))
           = IF 1 <= Len(s) - 1 THEN Len(s) - 1 - 1 + 1 ELSE 0
      /\ \A i \in 1 .. Len(s) - 1 - 1 + 1 :
           SubSeq(s, 1, Len(s) - 1)[i] = s[1 + i - 1]
  BY <1>3, <1>4, SubSeqProperties
<1>6. \A i \in 1 .. Len(s) - 1 :
        i \in 1 .. Len(s) - 1 - 1 + 1 /\ 1 + i - 1 = i
  BY <1>1
<1>7. /\ Front(s) \in Seq(VoxelKeys)
      /\ Len(Front(s)) = Len(s) - 1
      /\ \A i \in 1 .. (Len(s) - 1) : Front(s)[i] = s[i]
  BY <1>1, <1>5, <1>6 DEF Front
<1>8. DOMAIN Front(s) = 1 .. (Len(s) - 1)
  BY <1>7, LenProperties
<1> QED BY <1>1, <1>2, <1>7, <1>8

LEMMA PoppedIsAFrontier ==
  ASSUME NEW s, Frontier(s), s # <<>>
  PROVE  Frontier(Front(s))
<1>1. s \in Seq(VoxelKeys)
  BY DEF Frontier
<1>2. /\ Len(s) \in Nat /\ DOMAIN s = 1 .. Len(s)
      /\ Front(s) \in Seq(VoxelKeys)
      /\ DOMAIN Front(s) = 1 .. (Len(s) - 1)
      /\ \A i \in 1 .. (Len(s) - 1) : Front(s)[i] = s[i]
  BY <1>1, PoppedStack
<1>3. \A i \in DOMAIN Front(s) : i \in DOMAIN s /\ Front(s)[i] = s[i]
  BY <1>2
<1>4. Deep(Front(s)) /\ Apart(Front(s))
  BY <1>3 DEF Frontier, Deep, Apart
<1> QED BY <1>2, <1>4 DEF Frontier

\* The stack with the children of its top for its top.
LEMMA ExpandedStack ==
  ASSUME NEW s \in Seq(VoxelKeys), s # <<>>, Last(s).level < MaxLevel
  PROVE  LET t == Front(s) \o Pushed(Last(s))
             n == Len(s) - 1
         IN  /\ t \in Seq(VoxelKeys) /\ n \in Nat
             /\ DOMAIN t = 1 .. (n + 2^Axes)
             /\ \A i \in 1 .. n : t[i] = s[i]
             /\ \A i \in (n + 1) .. (n + 2^Axes) :
                  /\ i - (n + 1) \in Directions
                  /\ t[i] = Child(Last(s), i - (n + 1))
<1> DEFINE k == Last(s)
           c == [i \in 1 .. 2^Axes |-> Child(k, i - 1)]
           f == Front(s)
           n == Len(s) - 1
           m == 2^Axes
<1>1. /\ n \in Nat /\ k \in VoxelKeys
      /\ f \in Seq(VoxelKeys) /\ Len(f) = n
      /\ \A i \in 1 .. n : f[i] = s[i]
  BY PoppedStack
<1>2. m \in Nat \ {0} /\ Directions = 0 .. (m - 1)
  BY OctreeAssumption, PowersOfTwo DEF Directions
<1>3. Pushed(k) = c
  BY DEF Pushed, ChildrenInOrder
<1>4. \A i \in 1 .. m : i - 1 \in Directions /\ c[i] \in VoxelKeys
  <2>1. \A i \in 1 .. m : i - 1 \in Directions
    <3> HIDE DEF m
    <3> QED BY <1>2
  <2>2. \A i \in 1 .. m : c[i] = Child(k, i - 1)
    OBVIOUS
  <2> HIDE DEF k, m, c
  <2> QED BY <1>1, <2>1, <2>2, ChildIsVoxelKey DEF k
<1>5. c \in Seq(VoxelKeys) /\ Len(c) = m
  <2>1. c \in [1 .. m -> VoxelKeys]
    <3>1. c = [i \in 1 .. m |-> c[i]]
      OBVIOUS
    <3> HIDE DEF c
    <3> QED BY <1>4, <3>1
  <2> HIDE DEF c, m
  <2>2. c \in Seq(VoxelKeys)
    BY <1>2, <2>1, SeqDef
  <2> QED BY <1>2, <2>1, <2>2, LenProperties
<1>6. \A i \in 1 .. m : c[i] = Child(k, i - 1)
  OBVIOUS
<1> HIDE DEF k, c, f, n, m
<1>7. /\ f \o c \in Seq(VoxelKeys) /\ Len(f \o c) = n + m
      /\ \A i \in 1 .. (n + m) :
           (f \o c)[i] = IF i <= n THEN f[i] ELSE c[i - n]
  BY <1>1, <1>5, ConcatProperties
<1>8. DOMAIN (f \o c) = 1 .. (n + m)
  BY <1>7, LenProperties
<1>9. \A i \in 1 .. n : (f \o c)[i] = s[i]
  BY <1>1, <1>2, <1>7
<1>10. \A i \in (n + 1) .. (n + m) :
         i - (n + 1) \in Directions /\ (f \o c)[i] = Child(k, i - (n + 1))
  <2>1. \A i \in (n + 1) .. (n + m) :
          /\ i \in 1 .. (n + m) /\ ~(i <= n) /\ i - n \in 1 .. m
          /\ (i - n) - 1 = i - (n + 1)
    BY <1>1, <1>2
  <2> QED BY <1>4, <1>6, <1>7, <2>1
<1> QED BY <1>1, <1>3, <1>7, <1>8, <1>9, <1>10 DEF k, f, n, m

LEMMA ExpandedIsAFrontier ==
  ASSUME NEW s, Frontier(s), s # <<>>
  PROVE  Frontier(Front(s) \o Pushed(Last(s)))
<1> DEFINE k == Last(s)
           t == Front(s) \o Pushed(k)
           n == Len(s) - 1
           m == 2^Axes
<1>1. s \in Seq(VoxelKeys) /\ Deep(s) /\ Apart(s)
  BY DEF Frontier
<1>2. /\ n \in Nat /\ DOMAIN s = 1 .. (n + 1) /\ n + 1 \in DOMAIN s
      /\ k = s[n + 1] /\ k \in VoxelKeys
  BY <1>1, PoppedStack
<1>3. CASE ~(k.level < MaxLevel)
  <2>1. Pushed(k) = <<>>
    BY <1>3 DEF Pushed
  <2>2. Front(s) \in Seq(VoxelKeys)
    BY <1>1, PoppedStack
  <2>3. Front(s) \o <<>> = Front(s)
    BY <2>2
  <2> QED BY <2>1, <2>3, PoppedIsAFrontier
<1>4. CASE k.level < MaxLevel
  <2>1. /\ t \in Seq(VoxelKeys)
        /\ DOMAIN t = 1 .. (n + m)
        /\ \A i \in 1 .. n : t[i] = s[i]
        /\ \A i \in (n + 1) .. (n + m) :
             i - (n + 1) \in Directions /\ t[i] = Child(k, i - (n + 1))
    BY <1>1, <1>4, ExpandedStack
  <2>2. m \in Nat \ {0} /\ k \in Keys /\ k.level \in Nat
        /\ \A j \in VoxelKeys : j \in Keys /\ j.level \in Nat
    <3>1. \A j \in VoxelKeys : j \in Keys /\ j.level \in Nat
      BY VoxelKeysAreKeys DEF Keys
    <3> QED BY <1>2, <3>1, OctreeAssumption, PowersOfTwo
  <2>3. \A d \in Directions :
          /\ Child(k, d) \in VoxelKeys /\ Child(k, d).level = k.level + 1
          /\ Ancestors(Child(k, d)) = Ancestors(k) \cup {k}
    BY <1>2, <1>4, ChildIsVoxelKey
  <2>4. \A i \in 1 .. n : /\ i \in DOMAIN s /\ n + 1 \in DOMAIN s /\ i # n + 1
                          /\ s[i] \in VoxelKeys
    <3>1. \A i \in 1 .. n : i \in 1 .. (n + 1) /\ i # n + 1
      <4> HIDE DEF n
      <4> QED BY <1>2
    <3>2. \A i \in DOMAIN s : s[i] \in VoxelKeys
      BY <1>1
    <3> QED BY <1>2, <3>1, <3>2
  <2> HIDE DEF k, t, n, m
  <2>5. \A i \in DOMAIN t : i \in 1 .. n \/ i \in (n + 1) .. (n + m)
    BY <1>2, <2>1, <2>2
  \* A node on the old stack is apart from the new ones.
  <2>6. ASSUME NEW i \in 1 .. n, NEW d \in Directions
        PROVE  /\ s[i] # Child(k, d)
               /\ s[i] \notin Ancestors(Child(k, d))
               /\ Child(k, d) \notin Ancestors(s[i])
    <3>1. /\ s[i] # k /\ s[i] \notin Ancestors(k) /\ k \notin Ancestors(s[i])
      BY <1>1, <1>2, <2>4 DEF Apart
    <3>2. s[i] \in Keys
      BY <2>2, <2>4
    <3>3. Child(k, d) \notin Ancestors(s[i])
      BY <2>2, <3>1, <3>2, AboveTheParent
    <3>4. k \in Ancestors(Child(k, d))
      BY <2>3
    <3> QED BY <2>3, <3>1, <3>3, <3>4
  \* Siblings are apart.
  <2>7. ASSUME NEW d \in Directions, NEW e \in Directions, d # e
        PROVE  /\ Child(k, d) # Child(k, e)
               /\ Child(k, d) \notin Ancestors(Child(k, e))
    <3>1. Child(k, d) # Child(k, e)
      BY <2>2, <2>7, ChildrenAreDistinct
    <3>2. SUFFICES ASSUME Child(k, d) \in Ancestors(k) \cup {k}
                   PROVE  FALSE
      BY <2>3, <3>1
    <3>3. Child(k, d).level = k.level + 1
      BY <2>3
    <3>4. \A l \in 0 .. (k.level - 1) : Ancestor(k, l).level = l
      BY DEF Ancestor
    <3>5. Child(k, d).level <= k.level
      BY <2>2, <3>2, <3>4 DEF Ancestors
    <3> QED BY <2>2, <3>3, <3>5
  <2>8. Deep(t)
    <3>1. ASSUME NEW i \in DOMAIN t
          PROVE  i <= 1 + (m - 1) * t[i].level
      <4>1. CASE i \in 1 .. n
        <5>1. i <= 1 + (m - 1) * s[i].level
          BY <1>1, <2>4, <4>1 DEF Deep, m
        <5> QED BY <2>1, <4>1, <5>1
      <4>2. CASE i \in (n + 1) .. (n + m)
        <5>1. n + 1 <= 1 + (m - 1) * k.level
          BY <1>1, <1>2 DEF Deep, m
        <5>2. t[i].level = k.level + 1
          BY <2>1, <2>3, <4>2
        <5> DEFINE x == (m - 1) * k.level
        <5>3. x \in Int /\ (m - 1) * (k.level + 1) = x + (m - 1)
          BY <2>2
        <5>4. i \in Int /\ i <= n + m
          BY <1>2, <2>2, <4>2
        <5> HIDE DEF x
        <5>5. i <= 1 + (m - 1) * (k.level + 1)
          <6>1. n + 1 <= 1 + x
            BY <5>1 DEF x
          <6> QED BY <1>2, <2>2, <5>3, <5>4, <6>1
        <5> QED BY <5>2, <5>5
      <4> QED BY <2>5, <4>1, <4>2
    <3> QED BY <3>1 DEF Deep, m
  <2>9. Apart(t)
    <3>1. ASSUME NEW i \in DOMAIN t, NEW j \in DOMAIN t, i # j
          PROVE  t[i] # t[j] /\ t[i] \notin Ancestors(t[j])
      <4>1. CASE i \in 1 .. n /\ j \in 1 .. n
        <5>1. t[i] = s[i] /\ t[j] = s[j] /\ i \in DOMAIN s /\ j \in DOMAIN s
          BY <2>1, <2>4, <4>1
        <5> QED BY <1>1, <3>1, <5>1 DEF Apart
      <4>2. CASE i \in 1 .. n /\ j \in (n + 1) .. (n + m)
        <5>1. t[i] = s[i]
          BY <2>1, <4>2
        <5>2. /\ j - (n + 1) \in Directions
              /\ t[j] = Child(k, j - (n + 1))
          BY <2>1, <4>2
        <5> QED BY <2>6, <4>2, <5>1, <5>2
      <4>3. CASE i \in (n + 1) .. (n + m) /\ j \in 1 .. n
        <5>1. t[j] = s[j]
          BY <2>1, <4>3
        <5>2. /\ i - (n + 1) \in Directions
              /\ t[i] = Child(k, i - (n + 1))
          BY <2>1, <4>3
        <5> QED BY <2>6, <4>3, <5>1, <5>2
      <4>4. CASE i \in (n + 1) .. (n + m) /\ j \in (n + 1) .. (n + m)
        <5>1. i - (n + 1) # j - (n + 1)
          BY <1>2, <2>2, <3>1, <4>4
        <5>2. /\ i - (n + 1) \in Directions /\ j - (n + 1) \in Directions
              /\ t[i] = Child(k, i - (n + 1)) /\ t[j] = Child(k, j - (n + 1))
          BY <2>1, <4>4
        <5> QED BY <2>7, <5>1, <5>2
      <4> QED BY <2>5, <4>1, <4>2, <4>3, <4>4
    <3> QED BY <3>1 DEF Apart
  <2> QED BY <2>1, <2>8, <2>9 DEF Frontier, t, k
<1> QED BY <1>3, <1>4

-----------------------------------------------------------------------------
(* Every step of a walk.                                                   *)

LEMMA FrontierInvariant == WalkSpec => []Frontier(nodes_to_check)
<1>1. WalkInit => Frontier(nodes_to_check)
  BY EmptyIsAFrontier DEF WalkInit
<1>2. Frontier(nodes_to_check) /\ [WalkNext]_<<vars, walkVars>>
        => Frontier(nodes_to_check)'
  <2> SUFFICES ASSUME Frontier(nodes_to_check), [WalkNext]_<<vars, walkVars>>
               PROVE  Frontier(nodes_to_check')
    BY DEF Frontier, Deep, Apart
  <2>1. ASSUME NEW p \in Points, StartWalk(p)
        PROVE  Frontier(nodes_to_check')
    BY <2>1, RootIsAFrontier DEF StartWalk
  <2>2. CASE Skip
    BY <2>2, PoppedIsAFrontier DEF Skip
  <2>3. CASE Descend
    BY <2>3, ExpandedIsAFrontier DEF Descend, Top
  <2>4. CASE Collect
    <3>1. nodes_to_check # <<>> /\ nodes_to_check \in Seq(VoxelKeys)
      BY <2>4 DEF Collect, Frontier
    <3>2. \/ nodes_to_check' = Front(nodes_to_check) \o Pushed(Top)
          \/ nodes_to_check' = Front(nodes_to_check) \o <<>>
      BY <2>4 DEF Collect
    <3>3. Front(nodes_to_check) \in Seq(VoxelKeys)
      BY <3>1, PoppedStack
    <3>4. Front(nodes_to_check) \o <<>> = Front(nodes_to_check)
      BY <3>3
    <3> QED BY <3>1, <3>2, <3>4, PoppedIsAFrontier, ExpandedIsAFrontier DEF Top
  <2>5. CASE Found \/ NotFound \/ Choose
    BY <2>5, EmptyIsAFrontier DEF Found, NotFound, Choose, EndWalk
  <2>6. CASE FallBack
    BY <2>6, RootIsAFrontier DEF FallBack
  <2>7. CASE BetweenWalks
    BY <2>7 DEF BetweenWalks, walkVars
  <2>8. CASE UNCHANGED <<vars, walkVars>>
    BY <2>8 DEF walkVars
  <2> QED BY <2>1, <2>2, <2>3, <2>4, <2>5, <2>6, <2>7, <2>8
          DEF WalkNext, Walking
<1> QED BY <1>1, <1>2, PTL DEF WalkSpec

(***************************************************************************)
(* Whatever the octree and the points, the stack of either walk never      *)
(* holds more than the siblings of every level on the way, and no node on  *)
(* it is there twice, nor above or below another one: no walk comes to a   *)
(* node twice.                                                             *)
(***************************************************************************)
THEOREM WalksVisitNodesOnce == WalkSpec => []StackIsAFrontier
<1>1. ASSUME Frontier(nodes_to_check)
      PROVE  StackIsAFrontier
  <2> DEFINE s == nodes_to_check
  <2>1. s \in Seq(VoxelKeys) /\ Deep(s) /\ Apart(s)
    BY <1>1 DEF Frontier
  <2>2. 2^Axes \in Nat \ {0} /\ MaxLevel \in Nat
    BY OctreeAssumption, PowersOfTwo
  <2> DEFINE w == 2^Axes - 1
  <2>3. w \in Nat
    BY <2>2
  <2>4. Len(s) <= 1 + w * MaxLevel
    <3>1. CASE s = <<>>
      <4>1. Len(s) = 0
        BY <3>1
      <4> HIDE DEF w
      <4>2. w * MaxLevel \in Nat
        BY <2>2, <2>3
      <4> QED BY <4>1, <4>2
    <3>2. CASE s # <<>>
      <4>1. Len(s) \in DOMAIN s /\ s[Len(s)] \in VoxelKeys /\ Len(s) \in Nat
        BY <2>1, <3>2, PoppedStack
      <4> DEFINE l == s[Len(s)].level
      <4>2. l \in 0 .. MaxLevel
        BY <4>1, VoxelKeysAreKeys
      <4>3. Len(s) <= 1 + w * l
        BY <2>1, <4>1 DEF Deep
      <4> HIDE DEF w, l
      <4>4. /\ w * l \in Nat /\ w * MaxLevel \in Nat
            /\ w * l <= w * MaxLevel
        BY <2>2, <2>3, <4>2
      <4> QED BY <4>1, <4>3, <4>4
    <3> QED BY <3>1, <3>2
  <2> QED BY <2>1, <2>4 DEF StackIsAFrontier, Apart
<1> QED BY <1>1, FrontierInvariant, PTL

-----------------------------------------------------------------------------
(* What is left of a walk.                                                 *)

(***************************************************************************)
(* Of the nodes R a walk comes to: those it has left, with all below them. *)
(***************************************************************************)
Passed(R, s) == { k \in R : \A i \in DOMAIN s : ~Below(k, s[i]) }

(***************************************************************************)
(* Stack s fits a walk through R for a point at x: above a node of the     *)
(* stack is R, and the node itself is in R if its bounds contain the       *)
(* point; what is above it on the stack comes before all that is below     *)
(* it, and after what the walk has passed.                                 *)
(***************************************************************************)
Fits(R, s, x) ==
  /\ \A i \in DOMAIN s :
       /\ Ancestors(s[i]) \subseteq R
       /\ BoundsContainPoint(NodeBounds(s[i]), x) => s[i] \in R
  /\ \A i, j \in DOMAIN s : i < j => Branch(s[j], s[i])
  /\ \A k \in Passed(R, s) : \A i \in DOMAIN s : VisitedBefore(k, s[i])

LEMMA RootFits ==
  ASSUME NEW R \in SUBSET VoxelKeys, NEW x, Root \in R
  PROVE  Fits(R, <<Root>>, x) /\ Passed(R, <<Root>>) = {}
<1>1. DOMAIN <<Root>> = {1} /\ <<Root>>[1] = Root
  OBVIOUS
<1>2. Passed(R, <<Root>>) = {}
  BY <1>1, BelowTheRoot DEF Passed
<1>3. \A i, j \in DOMAIN <<Root>> : ~(i < j)
  BY <1>1
<1> QED BY <1>1, <1>2, <1>3, RootHasNoAncestors DEF Fits

\* No node of R is at or below the top.
LEMMA PoppedFits ==
  ASSUME NEW R \in SUBSET VoxelKeys, NEW s, Frontier(s), s # <<>>, NEW x,
         Fits(R, s, x), \A k \in R : ~Below(k, Last(s))
  PROVE  Fits(R, Front(s), x) /\ Passed(R, Front(s)) = Passed(R, s)
<1> DEFINE n == Len(s) - 1
           t == Front(s)
<1>1. /\ n \in Nat /\ DOMAIN s = 1 .. (n + 1) /\ Last(s) = s[n + 1]
      /\ DOMAIN t = 1 .. n /\ \A i \in 1 .. n : t[i] = s[i]
  BY PoppedStack DEF Frontier
<1> HIDE DEF n, t
<1>2. /\ \A i \in DOMAIN t : i \in DOMAIN s /\ t[i] = s[i]
      /\ \A i \in DOMAIN s : i \in DOMAIN t \/ s[i] = Last(s)
  BY <1>1
<1>3. Passed(R, t) = Passed(R, s)
  BY <1>2 DEF Passed
<1>4. Fits(R, t, x)
  BY <1>2, <1>3 DEF Fits
<1> QED BY <1>3, <1>4 DEF t

\* Below a child is below its parent.
LEMMA BelowTheParent ==
  ASSUME NEW k \in Keys, NEW d \in Directions, NEW j \in Keys,
         Below(j, Child(k, d))
  PROVE  k \in Ancestors(j)
<1>1. d \in Nat
  BY OctreeAssumption, PowersOfTwo DEF Directions
<1>2. CASE j = Child(k, d)
  BY <1>1, <1>2, AncestorsOfChild
<1> QED BY <1>2, AboveTheParent DEF Below

(***************************************************************************)
(* On the stack t the top of s has made way for m of its children, such    *)
(* that nothing of R below it is missed.                                   *)
(***************************************************************************)
MakesWay(R, s, x, t, n, m) ==
  /\ n \in Nat /\ m \in Nat /\ n = Len(s) - 1
  /\ m > 0 => Last(s).level < MaxLevel
  /\ DOMAIN t = 1 .. (n + m)
  /\ \A i \in 1 .. n : t[i] = s[i]
  /\ \A i \in (n + 1) .. (n + m) :
       /\ i - (n + 1) \in Directions
       /\ t[i] = Child(Last(s), i - (n + 1))
       /\ BoundsContainPoint(NodeBounds(t[i]), x) => t[i] \in R
  /\ \A k \in R : Last(s) \in Ancestors(k) =>
       \E i \in (n + 1) .. (n + m) : Below(k, t[i])

LEMMA ExpandedFits ==
  ASSUME NEW R \in SUBSET VoxelKeys, NEW s, Frontier(s), s # <<>>, NEW x,
         Fits(R, s, x), Last(s) \in R,
         NEW t, NEW n, NEW m, MakesWay(R, s, x, t, n, m)
  PROVE  /\ Fits(R, t, x)
         /\ Passed(R, t) = Passed(R, s) \cup {Last(s)}
<1> USE DEF MakesWay
<1> DEFINE top == Last(s)
           Old == 1 .. n
           New == (n + 1) .. (n + m)
<1>1. /\ DOMAIN s = 1 .. (n + 1) /\ top = s[n + 1] /\ top \in VoxelKeys
      /\ s \in Seq(VoxelKeys)
  BY PoppedStack DEF Frontier
<1>2. \A k \in VoxelKeys : k \in Keys /\ k.level \in Nat
  BY VoxelKeysAreKeys DEF Keys
<1>3. \A i \in Old : /\ i \in DOMAIN s /\ n + 1 \in DOMAIN s /\ i # n + 1
                     /\ i < n + 1 /\ i \in DOMAIN t /\ t[i] = s[i]
                     /\ s[i] \in VoxelKeys
  <2>1. \A i \in Old : /\ i \in 1 .. (n + 1) /\ n + 1 \in 1 .. (n + 1)
                       /\ i # n + 1 /\ i < n + 1 /\ i \in 1 .. (n + m)
    OBVIOUS
  <2>2. \A i \in DOMAIN s : s[i] \in VoxelKeys
    BY <1>1
  <2> QED BY <1>1, <2>1, <2>2
<1>4. \A i \in DOMAIN t : i \in Old \/ i \in New
  OBVIOUS
<1>5. \A i \in DOMAIN s : i \in Old \/ s[i] = top
  BY <1>1
<1>6. \A i \in New : /\ i - (n + 1) \in Directions
                     /\ t[i] = Child(top, i - (n + 1))
                     /\ t[i] \in VoxelKeys /\ t[i].level = top.level + 1
                     /\ Ancestors(t[i]) = Ancestors(top) \cup {top}
                     /\ i \in DOMAIN t
  <2>1. ASSUME NEW i \in New PROVE top.level < MaxLevel /\ i \in DOMAIN t
    OBVIOUS
  <2>2. \A i \in New : /\ i - (n + 1) \in Directions
                       /\ t[i] = Child(top, i - (n + 1))
    OBVIOUS
  <2> HIDE DEF top, New
  <2> QED BY <1>1, <2>1, <2>2, ChildIsVoxelKey
<1> HIDE DEF top, Old, New
<1>7. Passed(R, t) = Passed(R, s) \cup {top}
  <2>1. ASSUME NEW k \in Passed(R, t), k # top PROVE k \in Passed(R, s)
    <3>1. \A i \in Old : ~Below(k, s[i])
      BY <1>3 DEF Passed
    <3>2. ~Below(k, top)
      <4>1. top \notin Ancestors(k)
        BY <1>6, <2>1 DEF Passed, top, New
      <4> QED BY <2>1, <4>1 DEF Below
    <3> QED BY <1>5, <3>1, <3>2 DEF Passed
  <2>2. ASSUME NEW k \in Passed(R, s) PROVE k \in Passed(R, t)
    <3>1. k \in Keys /\ top \in Keys /\ n + 1 \in DOMAIN s
      BY <1>1, <1>2 DEF Passed
    <3>2. ~Below(k, top)
      BY <1>1, <3>1 DEF Passed
    <3>3. \A i \in New : ~Below(k, t[i])
      BY <1>6, <3>1, <3>2, BelowTheParent DEF Below
    <3>4. \A i \in Old : ~Below(k, t[i])
      BY <1>3 DEF Passed
    <3> QED BY <1>4, <3>3, <3>4 DEF Passed
  <2>3. top \in Passed(R, t)
    <3>1. ASSUME NEW i \in Old PROVE ~Below(top, t[i])
      BY <1>1, <1>3 DEF Frontier, Apart, Below
    <3>2. ASSUME NEW i \in New PROVE ~Below(top, t[i])
      <4>1. t[i] \in Keys /\ top \in Keys /\ top.level \in Nat
            /\ t[i].level = top.level + 1
        BY <1>1, <1>2, <1>6
      <4>2. Below(top, t[i]) => t[i].level <= top.level
        BY <4>1, BelowHasAncestors
      <4> QED BY <4>1, <4>2
    <3> QED BY <1>4, <3>1, <3>2 DEF Passed, top
  <2> QED BY <2>1, <2>2, <2>3
<1>8. \A i \in New : Below(t[i], top) /\ t[i] \in Keys
  BY <1>2, <1>6 DEF Below
<1>9. \A i \in Old : Branch(top, s[i]) /\ s[i] \in Keys /\ Below(s[i], s[i])
  BY <1>1, <1>2, <1>3 DEF Fits, Below
<1>10. top \in Keys
  BY <1>1, <1>2
<1>11. ASSUME NEW i \in DOMAIN t
       PROVE  /\ Ancestors(t[i]) \subseteq R
              /\ BoundsContainPoint(NodeBounds(t[i]), x) => t[i] \in R
  <2>1. CASE i \in Old
    BY <1>3, <2>1 DEF Fits
  <2>2. CASE i \in New
    <3>1. Ancestors(top) \subseteq R /\ top \in R
      <4>1. n + 1 \in DOMAIN s
        BY <1>1
      <4> QED BY <1>1, <4>1 DEF Fits, top
    <3>2. Ancestors(t[i]) \subseteq R
      BY <1>6, <2>2, <3>1
    <3>3. BoundsContainPoint(NodeBounds(t[i]), x) => t[i] \in R
      BY <2>2 DEF New
    <3> QED BY <3>2, <3>3
  <2> QED BY <1>4, <2>1, <2>2
<1>12. ASSUME NEW i \in DOMAIN t, NEW j \in DOMAIN t, i < j
       PROVE  Branch(t[j], t[i])
  <2>1. CASE i \in Old /\ j \in Old
    BY <1>3, <1>12, <2>1 DEF Fits
  <2>2. CASE i \in Old /\ j \in New
    <3>1. Branch(t[j], s[i])
      BY <1>8, <1>9, <1>10, <2>2, BranchesBelow
    <3> QED BY <1>3, <2>2, <3>1
  <2>3. CASE i \in New /\ j \in Old
    BY <1>12, <2>3 DEF Old, New
  <2>4. CASE i \in New /\ j \in New
    <3>1. j - (n + 1) > i - (n + 1)
      BY <1>12, <2>4 DEF New
    <3>2. top.level < MaxLevel
      <4>1. m > 0
        BY <2>4 DEF New
      <4> QED BY <4>1 DEF top
    <3> QED BY <1>1, <1>6, <2>4, <3>1, <3>2, SiblingsBranch
  <2> QED BY <1>4, <2>1, <2>2, <2>3, <2>4
<1>13. ASSUME NEW k \in Passed(R, t), NEW i \in DOMAIN t
       PROVE  VisitedBefore(k, t[i])
  <2>1. CASE k = top /\ i \in New
    BY <1>6, <2>1 DEF VisitedBefore
  <2>2. CASE k = top /\ i \in Old
    BY <1>3, <1>9, <2>2 DEF VisitedBefore, Branch
  <2>3. CASE k # top
    <3>1. k \in Passed(R, s) /\ k \in Keys
      BY <1>2, <1>7, <1>13, <2>3 DEF Passed
    <3>2. \A j \in DOMAIN s : VisitedBefore(k, s[j])
      BY <3>1 DEF Fits
    <3>3. CASE i \in Old
      BY <1>3, <3>2, <3>3
    <3>4. CASE i \in New
      <4>1. VisitedBefore(k, top)
        <5>1. n + 1 \in DOMAIN s
          BY <1>1
        <5> QED BY <1>1, <3>2, <5>1
      <4> QED BY <1>8, <1>10, <3>1, <3>4, <4>1, VisitedBeforeBelow
    <3> QED BY <1>4, <3>3, <3>4
  <2> QED BY <1>4, <2>1, <2>2, <2>3
<1>14. Fits(R, t, x)
  BY <1>11, <1>12, <1>13 DEF Fits
<1> QED BY <1>7, <1>14 DEF top

(***************************************************************************)
(* The top has made way for all its children, or has nothing of R below.   *)
(***************************************************************************)
LEMMA PushedFits ==
  ASSUME NEW R \in SUBSET VoxelKeys, NEW s, Frontier(s), s # <<>>, NEW x,
         Fits(R, s, x), Last(s) \in R, NEW t,
         \/ /\ t = Front(s) \o Pushed(Last(s))
            /\ \A k \in Children(Last(s)) :
                 BoundsContainPoint(NodeBounds(k), x) => k \in R
         \/ /\ t = Front(s)
            /\ \A k \in R : Last(s) \notin Ancestors(k)
  PROVE  /\ Fits(R, t, x)
         /\ Passed(R, t) = Passed(R, s) \cup {Last(s)}
<1> DEFINE top == Last(s)
           n == Len(s) - 1
           m == 2^Axes
<1>1. /\ n \in Nat /\ top \in VoxelKeys /\ s \in Seq(VoxelKeys)
      /\ Front(s) \in Seq(VoxelKeys)
      /\ DOMAIN Front(s) = 1 .. n /\ \A i \in 1 .. n : Front(s)[i] = s[i]
  BY PoppedStack DEF Frontier
<1>2. /\ MaxLevel \in Nat
      /\ \A k \in VoxelKeys : k \in Keys /\ k.level \in 0 .. MaxLevel
  BY VoxelKeysAreKeys, OctreeAssumption
<1>3. CASE t = Front(s) /\ \A k \in R : top \notin Ancestors(k)
  <2>1. DOMAIN t = 1 .. (n + 0) /\ (n + 1) .. (n + 0) = {}
    <3> HIDE DEF n
    <3> QED BY <1>1, <1>3
  <2> HIDE DEF n
  <2>2. n \in Nat /\ n = Len(s) - 1 /\ \A i \in 1 .. n : t[i] = s[i]
    BY <1>1, <1>3 DEF n
  <2>3. /\ \A i \in (n + 1) .. (n + 0) :
             /\ i - (n + 1) \in Directions
             /\ t[i] = Child(top, i - (n + 1))
             /\ BoundsContainPoint(NodeBounds(t[i]), x) => t[i] \in R
        /\ \A k \in R : top \in Ancestors(k) =>
             \E i \in (n + 1) .. (n + 0) : Below(k, t[i])
    BY <1>3, <2>1
  <2>4. MakesWay(R, s, x, t, n, 0)
    BY <2>1, <2>2, <2>3 DEF MakesWay
  <2> QED BY <2>4, ExpandedFits
<1>4. CASE /\ t = Front(s) \o Pushed(top)
           /\ \A k \in Children(top) :
                BoundsContainPoint(NodeBounds(k), x) => k \in R
           /\ top.level < MaxLevel
  <2>1. /\ DOMAIN t = 1 .. (n + m)
        /\ \A i \in 1 .. n : t[i] = s[i]
        /\ \A i \in (n + 1) .. (n + m) :
             i - (n + 1) \in Directions /\ t[i] = Child(top, i - (n + 1))
    BY <1>1, <1>4, ExpandedStack
  <2>2. m \in Nat /\ Directions = 0 .. (m - 1)
    BY OctreeAssumption, PowersOfTwo DEF Directions
  <2>3. \A d \in Directions : Child(top, d) \in Children(top)
    BY <1>1, <1>4, ChildIsVoxelKey DEF Children
  <2>4. \A i \in (n + 1) .. (n + m) :
          BoundsContainPoint(NodeBounds(t[i]), x) => t[i] \in R
    BY <1>4, <2>1, <2>3
  <2>5. ASSUME NEW k \in R, top \in Ancestors(k)
        PROVE  \E i \in (n + 1) .. (n + m) : Below(k, t[i])
    <3>1. PICK d \in Directions : Below(k, Child(top, d))
      BY <1>2, <2>5, BelowAChild
    <3> DEFINE i == (n + 1) + d
    <3>2. i \in (n + 1) .. (n + m) /\ i - (n + 1) = d
      <4> HIDE DEF n, m
      <4> QED BY <1>1, <2>2
    <3> HIDE DEF i
    <3>3. t[i] = Child(top, d)
      BY <2>1, <3>2
    <3> QED BY <3>1, <3>2, <3>3
  <2>6. n \in Nat /\ n = Len(s) - 1
    BY <1>1
  <2>7. \A i \in (n + 1) .. (n + m) :
          /\ i - (n + 1) \in Directions
          /\ t[i] = Child(top, i - (n + 1))
          /\ BoundsContainPoint(NodeBounds(t[i]), x) => t[i] \in R
    BY <2>1, <2>4
  <2>8. \A k \in R : top \in Ancestors(k) =>
          \E i \in (n + 1) .. (n + m) : Below(k, t[i])
    BY <2>5
  <2> HIDE DEF n, m
  <2>9. MakesWay(R, s, x, t, n, m)
    BY <1>4, <2>1, <2>2, <2>6, <2>7, <2>8 DEF MakesWay
  <2> QED BY <2>9, ExpandedFits
\* On the lowest level nothing is pushed, and nothing is below.
<1>5. CASE t = Front(s) \o Pushed(top) /\ ~(top.level < MaxLevel)
  <2>1. Pushed(top) = <<>> /\ Front(s) \o <<>> = Front(s)
    BY <1>1, <1>5 DEF Pushed
  <2>2. t = Front(s)
    BY <1>5, <2>1
  <2>3. ASSUME NEW k \in R, top \in Ancestors(k) PROVE FALSE
    <3>1. PICK l \in 0 .. (k.level - 1) : top = Ancestor(k, l)
      BY <2>3 DEF Ancestors
    <3>2. top.level = l
      BY <3>1 DEF Ancestor
    <3>3. k.level \in 0 .. MaxLevel /\ top.level \in 0 .. MaxLevel
      BY <1>1, <1>2
    <3> QED BY <1>2, <1>5, <3>2, <3>3
  <2> QED BY <1>3, <2>2, <2>3
<1> QED BY <1>3, <1>4, <1>5

-----------------------------------------------------------------------------
(* The shape of the octree.                                                *)

(***************************************************************************)
(* A node has a parent, and all its siblings.                              *)
(***************************************************************************)
Tree ==
  \A k \in nodes \ {Root} :
    Parent(k) \in nodes /\ Children(Parent(k)) \subseteq nodes

LEMMA ParentOfChild ==
  ASSUME NEW j \in VoxelKeys, NEW k \in Children(j)
  PROVE  Parent(k) = j /\ k.level = j.level + 1 /\ k \in VoxelKeys
         /\ Ancestors(k) = Ancestors(j) \cup {j}
<1>1. PICK d \in Directions : k = Child(j, d)
  BY DEF Children
<1>2. d \in Nat /\ j \in Keys /\ j.level \in Nat /\ j.level \in 0 .. j.level
  BY OctreeAssumption, PowersOfTwo, VoxelKeysAreKeys DEF Directions, Keys
<1>3. k.level = j.level + 1 /\ Ancestors(k) = Ancestors(j) \cup {j}
  BY <1>1, <1>2, ChildIsKey, AncestorsOfChild
<1>4. k.level - 1 = j.level
  BY <1>2, <1>3
<1>5. Ancestor(k, j.level) = j
  BY <1>1, <1>2, AncestorOfChild, AncestorOfSelf
<1> QED BY <1>3, <1>4, <1>5 DEF Parent, Children

LEMMA TreeGrows ==
  ASSUME Tree, NEW S \in SUBSET VoxelKeys,
         nodes' = nodes \cup UNION { Children(j) : j \in S },
         S \subseteq nodes'
  PROVE  Tree'
<1>1. ASSUME NEW k \in nodes', k # Root
      PROVE  Parent(k) \in nodes' /\ Children(Parent(k)) \subseteq nodes'
  <2>1. CASE k \in nodes
    BY <1>1, <2>1 DEF Tree
  <2>2. CASE k \notin nodes
    <3>1. PICK j \in S : k \in Children(j)
      BY <2>2
    <3>2. Parent(k) = j
      BY <3>1, ParentOfChild
    <3> QED BY <3>1, <3>2
  <2> QED BY <2>1, <2>2
<1> QED BY <1>1 DEF Tree

(***************************************************************************)
(* The stochastic walk creates children of nodes that are there, or that   *)
(* it creates.                                                             *)
(***************************************************************************)
LEMMA CreatedInTree ==
  ASSUME Root \in nodes, NEW p \in Points, NEW l \in Nat,
         NEW k \in Visited(p, l), k.level < l
  PROVE  k \in nodes \cup StochasticChildren(p, l)
<1>1. CASE k \in nodes
  BY <1>1
<1>2. CASE k \notin nodes
  <2>1. k # Root /\ k \in Home[p]
    BY <1>2 DEF Visited
  <2>2. /\ Parent(k) \in Home[p] /\ k \in Children(Parent(k))
        /\ Parent(k).level = k.level - 1 /\ k.level \in Nat
    BY <2>1, HomeOfParent
  <2>3. Parent(k).level <= l /\ Parent(k).level < l
    BY <2>2
  <2> QED BY <2>2, <2>3 DEF StochasticChildren, Visited
<1> QED BY <1>1, <1>2

LEMMA TreeInductive ==
  ASSUME TypeOK, CountedNodesExist, Tree, [Next]_vars
  PROVE  Tree'
<1>1. ASSUME NEW p \in Points, AddPoint(p) PROVE Tree'
  <2> DEFINE levels == ExpectedLevels(num_points)
             Early == { j \in Visited(p, levels) : j.level < levels }
  <2>1. \A k \in FullNodes(p) : k \in nodes /\ k \in VoxelKeys
    <3>1. \A k \in FullNodes(p) : k \in VoxelKeys /\ IsFull(k)
      BY HomeIsVoxels DEF FullNodes, BelowFull
    <3>2. \A k \in VoxelKeys : IsFull(k) => point_count[k] > 0
      BY WriterAssumption DEF IsFull, TypeOK, OctreeTypeOK
    <3> QED BY <3>1, <3>2 DEF CountedNodesExist
  <2>2. ASSUME NEW S \in SUBSET VoxelKeys,
               S \subseteq nodes \cup UNION { Children(j) : j \in S },
               \/ nodes' = nodes \cup UNION { Children(j) : j \in S }
               \/ \E F \in SUBSET FullNodes(p) :
                    nodes' = nodes \cup (UNION { Children(j) : j \in S })
                                  \cup UNION { Children(j) : j \in F }
        PROVE  Tree'
    <3>1. CASE nodes' = nodes \cup UNION { Children(j) : j \in S }
      BY <2>2, <3>1, TreeGrows
    <3>2. ASSUME NEW F \in SUBSET FullNodes(p),
                 nodes' = nodes \cup (UNION { Children(j) : j \in S })
                               \cup UNION { Children(j) : j \in F }
          PROVE  Tree'
      <4> DEFINE U == S \cup F
      <4>1. U \in SUBSET VoxelKeys /\ F \subseteq nodes
        BY <2>1
      <4>2. nodes' = nodes \cup UNION { Children(j) : j \in U }
        <5>1. UNION { Children(j) : j \in U }
                = (UNION { Children(j) : j \in S })
                    \cup (UNION { Children(j) : j \in F })
          OBVIOUS
        <5> HIDE DEF U
        <5> QED BY <3>2, <5>1
      <4>3. U \subseteq nodes'
        BY <2>2, <3>2, <4>1
      <4> HIDE DEF U
      <4> QED BY <4>1, <4>2, <4>3, TreeGrows
    <3> QED BY <2>2, <3>1, <3>2
  <2>3. ASSUME NEW S \in SUBSET VoxelKeys,
               S \subseteq nodes \cup UNION { Children(j) : j \in S },
               NEW children, children = UNION { Children(j) : j \in S },
               AddPointGreedy(p, children)
        PROVE  Tree'
    <3>1. \E F \in SUBSET FullNodes(p) :
            nodes' = nodes \cup children \cup UNION { Children(j) : j \in F }
      <4>1. CASE nodes' = nodes \cup children
                             \cup UNION { Children(j) : j \in FullNodes(p) }
        BY <4>1
      <4>2. ASSUME NEW k,
                   LET passed == { j \in FullNodes(p) : VisitedBefore(j, k) }
                   IN  AddTo(p, k, children \cup UNION { Children(j) : j \in passed },
                             FillsNode(k))
            PROVE  \E F \in SUBSET FullNodes(p) :
                     nodes' = nodes \cup children
                                   \cup UNION { Children(j) : j \in F }
        <5> DEFINE F == { j \in FullNodes(p) : VisitedBefore(j, k) }
        <5>1. nodes' = nodes \cup children \cup UNION { Children(j) : j \in F }
          BY <4>2 DEF AddTo
        <5>2. F \in SUBSET FullNodes(p)
          OBVIOUS
        <5> HIDE DEF F
        <5> QED BY <5>1, <5>2
      <4> QED BY <2>3, <4>1, <4>2 DEF AddPointGreedy
    <3> QED BY <2>2, <2>3, <3>1
  <2>4. CASE AddPointGreedy(p, {})
    <3> DEFINE S == {}
               children == UNION { Children(j) : j \in S }
    <3>1. /\ S \in SUBSET VoxelKeys /\ children = {}
          /\ S \subseteq nodes \cup UNION { Children(j) : j \in S }
      OBVIOUS
    <3>2. AddPointGreedy(p, children)
      BY <2>4, <3>1
    <3> HIDE DEF S
    <3> QED BY <2>3, <3>1, <3>2
  <2>5. CASE ~Greedy(num_points) /\ AddPointStochastic(p, levels)
    <3>1. levels \in Nat
      <4>1. num_points \in Nat
        BY <2>5, WriterAssumption DEF Greedy, TypeOK, CallTypeOK
      <4> QED BY <4>1, LevelsAreExpected
    <3> HIDE DEF levels
    <3>2. Early \in SUBSET VoxelKeys
      BY HomeIsVoxels DEF Visited
    <3>3. /\ StochasticChildren(p, levels) = UNION { Children(j) : j \in Early }
          /\ Early \subseteq nodes \cup UNION { Children(j) : j \in Early }
      BY <3>1, CreatedInTree DEF StochasticChildren, CountedNodesExist
    <3> HIDE DEF Early
    <3>4. CASE AddPointGreedy(p, StochasticChildren(p, levels))
      BY <2>3, <3>2, <3>3, <3>4
    <3>5. ASSUME NEW k, NEW w, AddTo(p, k, StochasticChildren(p, levels), w)
          PROVE  Tree'
      <4>1. nodes' = nodes \cup UNION { Children(j) : j \in Early }
        BY <3>3, <3>5 DEF AddTo
      <4> QED BY <2>2, <3>2, <3>3, <4>1
    <3> QED BY <2>5, <3>4, <3>5 DEF AddPointStochastic
  <2> QED BY <1>1, <2>4, <2>5 DEF AddPoint
<1>2. CASE UNCHANGED octreeVars
  BY <1>2 DEF octreeVars, Tree
<1>3. CASE UNCHANGED vars
  BY <1>2, <1>3 DEF vars
<1>4. \A n \in NumPoints : CallWrite(n) => UNCHANGED octreeVars
  BY DEF CallWrite
<1>5. \A p \in Points : Reject(p) => UNCHANGED octreeVars
  BY DEF Reject
<1>6. \A k \in VoxelKeys : DrainChunk(k) \/ DrainFails(k) => UNCHANGED octreeVars
  BY DEF DrainChunk, DrainFails
<1>7. \/ EndOfPoints \/ Unwind \/ CloseRefused \/ CloseFinish
      \/ CloseFinishFails \/ DropWriter
      => UNCHANGED octreeVars
  BY DEF EndOfPoints, Unwind, CloseRefused, CloseFinish, CloseFinishFails,
         DropWriter
<1> QED BY <1>1, <1>2, <1>3, <1>4, <1>5, <1>6, <1>7 DEF Next, Running

-----------------------------------------------------------------------------
(* How far a walk has come.                                                *)

expected == ExpectedLevels(num_points)

Created(S) == UNION { Children(k) : k \in S }

(***************************************************************************)
(* A walk runs for a point that write has not turned away.                 *)
(***************************************************************************)
Started(p) ==
  /\ pc = "adding"
  /\ p \in Matching \ taken
  /\ InRootBounds(p)

(***************************************************************************)
(* The greedy walk has passed full nodes only, and created their children, *)
(* besides those a stochastic walk has created before it, in which no node *)
(* could take the point.                                                   *)
(***************************************************************************)
CreatedBefore(p) ==
  IF Chosen = "greedy" THEN {} ELSE StochasticChildren(p, expected)

GreedyState ==
  LET passed == Passed(BelowFull(point), nodes_to_check)
  IN  /\ WithinDepth(point)
      /\ Chosen = "stochastic" => Candidates(point, expected) = {}
      /\ Fits(BelowFull(point), nodes_to_check, Position[point])
      /\ \A k \in passed : IsFull(k)
      /\ nodes \cup grown = nodes \cup CreatedBefore(point) \cup Created(passed)

(***************************************************************************)
(* The stochastic walk has created the children of the nodes it has passed *)
(* above the expected level; those that are not full are candidates, in    *)
(* the order of the visits.                                                *)
(***************************************************************************)
Collected(c, S) ==
  /\ c \in Seq(VoxelKeys)
  /\ { c[i] : i \in DOMAIN c } = S
  /\ \A i, j \in DOMAIN c : i < j => VisitedBefore(c[i], c[j])

StochasticState ==
  LET passed == Passed(Visited(point, expected), nodes_to_check)
  IN  /\ Chosen = "stochastic"
      /\ Fits(Visited(point, expected), nodes_to_check, Position[point])
      /\ nodes \cup grown =
            nodes \cup Created({ k \in passed : k.level < expected })
      /\ Collected(node_candidates, { k \in passed : ~IsFull(k) })

WalkState ==
  /\ strategy \in {"none", "greedy", "stochastic"}
  /\ strategy # "none" => Started(point)
  /\ strategy = "greedy" => GreedyState
  /\ strategy = "stochastic" => StochasticState

\* A walk sees the writer as it was at its start.
LEMMA WriterStaysTheSame ==
  ASSUME UNCHANGED vars, NEW p, point' = p
  PROVE  /\ BelowFull(point)' = BelowFull(p)
         /\ Visited(point, expected)' = Visited(p, expected)
         /\ Candidates(point, expected)' = Candidates(p, expected)
         /\ WithinDepth(point)' = WithinDepth(p)
         /\ CreatedBefore(point)' = CreatedBefore(p)
         /\ Started(point)' = Started(p)
         /\ Chosen' = Chosen /\ expected' = expected /\ nodes' = nodes
         /\ \A k : IsFull(k)' = IsFull(k)
<1>1. /\ nodes' = nodes /\ point_count' = point_count /\ taken' = taken
      /\ batch' = batch /\ num_points' = num_points /\ pc' = pc
  BY DEF vars, octreeVars, ghostVars, callVars
<1>2. expected' = expected
  BY <1>1 DEF expected
<1>3. \A k : IsFull(k)' = IsFull(k)
  BY <1>1 DEF IsFull
<1>4. BelowFull(point)' = BelowFull(p)
  BY <1>1 DEF BelowFull, IsFull
<1>5. Visited(point, expected)' = Visited(p, expected)
  BY <1>1, <1>2 DEF Visited
<1>6. Chosen' = Chosen
  BY <1>1 DEF Chosen, Greedy
<1>7. Candidates(point, expected)' = Candidates(p, expected)
  BY <1>3, <1>5 DEF Candidates
<1>8. WithinDepth(point)' = WithinDepth(p)
  BY <1>3, <1>4 DEF WithinDepth
<1>9. CreatedBefore(point)' = CreatedBefore(p)
  BY <1>2, <1>5, <1>6 DEF CreatedBefore, StochasticChildren
<1>10. Started(point)' = Started(p)
  BY <1>1 DEF Started, InRootBounds
<1> QED BY <1>1, <1>2, <1>3, <1>4, <1>5, <1>6, <1>7, <1>8, <1>9, <1>10

LEMMA NextGreedyState ==
  ASSUME UNCHANGED vars, NEW p, point' = p,
         NEW S, S = Passed(BelowFull(p), nodes_to_check'),
         WithinDepth(p),
         Chosen = "stochastic" => Candidates(p, expected) = {},
         Fits(BelowFull(p), nodes_to_check', Position[p]),
         \A k \in S : IsFull(k),
         nodes \cup grown' = nodes \cup CreatedBefore(p) \cup Created(S)
  PROVE  GreedyState'
<1>1. Passed(BelowFull(point), nodes_to_check)' = S
  BY WriterStaysTheSame DEF Passed
<1>2. Fits(BelowFull(point), nodes_to_check, Position[point])'
  BY <1>1, WriterStaysTheSame DEF Fits
<1>3. Created(Passed(BelowFull(point), nodes_to_check))' = Created(S)
  BY <1>1 DEF Created
<1>4. (nodes \cup grown)' = nodes \cup grown'
  BY WriterStaysTheSame
<1> QED BY <1>1, <1>2, <1>3, <1>4, WriterStaysTheSame DEF GreedyState

LEMMA NextStochasticState ==
  ASSUME UNCHANGED vars, NEW p, point' = p,
         NEW S, S = Passed(Visited(p, expected), nodes_to_check'),
         Chosen = "stochastic",
         Fits(Visited(p, expected), nodes_to_check', Position[p]),
         nodes \cup grown' =
           nodes \cup Created({ k \in S : k.level < expected }),
         Collected(node_candidates', { k \in S : ~IsFull(k) })
  PROVE  StochasticState'
<1>1. Passed(Visited(point, expected), nodes_to_check)' = S
  BY WriterStaysTheSame DEF Passed
<1>2. Fits(Visited(point, expected), nodes_to_check, Position[point])'
  BY <1>1, WriterStaysTheSame DEF Fits
<1>3. Created({ k \in Passed(Visited(point, expected), nodes_to_check) :
                 k.level < expected })' = Created({ k \in S : k.level < expected })
  BY <1>1, WriterStaysTheSame DEF Created
<1>4. Collected(node_candidates,
        { k \in Passed(Visited(point, expected), nodes_to_check) : ~IsFull(k) })'
  BY <1>1, WriterStaysTheSame DEF Collected
<1>5. (nodes \cup grown)' = nodes \cup grown'
  BY WriterStaysTheSame
<1> QED BY <1>1, <1>2, <1>3, <1>4, <1>5, WriterStaysTheSame DEF StochasticState

-----------------------------------------------------------------------------
(* The steps of a walk.                                                    *)

\* A node is on the way only if all nodes above it are.
LEMMA HomeIsOnTheWay ==
  ASSUME NEW p \in Points, NEW k \in Home[p], NEW j \in Keys, Below(k, j)
  PROVE  BoundsContainPoint(NodeBounds(j), Position[p])
BY DEF Home, VoxelsOf, Below

LEMMA WalksReachVoxels ==
  ASSUME NEW p \in Points
  PROVE  /\ BelowFull(p) \in SUBSET VoxelKeys /\ BelowFull(p) \subseteq Home[p]
         /\ Visited(p, expected) \in SUBSET VoxelKeys
         /\ Visited(p, expected) \subseteq Home[p]
BY HomeIsVoxels DEF BelowFull, Visited

LEMMA RootIsReached ==
  ASSUME CountedNodesExist, NEW p \in Points, InRootBounds(p)
  PROVE  Root \in BelowFull(p) /\ Root \in Visited(p, expected)
<1>1. Root \in Home[p]
  BY RootHasNoAncestors DEF Home, VoxelsOf, InRootBounds
<1> QED BY <1>1, RootHasNoAncestors DEF BelowFull, Visited, CountedNodesExist

LEMMA StartKeepsState ==
  ASSUME CountedNodesExist, NEW p \in Points, StartWalk(p)
  PROVE  WalkState'
<1>1. /\ UNCHANGED vars /\ point' = p /\ strategy' = Chosen
      /\ nodes_to_check' = <<Root>> /\ node_candidates' = <<>> /\ grown' = {}
      /\ Started(p) /\ InRootBounds(p)
      /\ Chosen = "greedy" => WithinDepth(p)
  BY DEF StartWalk, Started
<1>2. Started(point)'
  BY <1>1, WriterStaysTheSame
<1>3. Chosen \in {"greedy", "stochastic"}
  BY DEF Chosen
<1>4. Created({}) = {}
  BY DEF Created
<1>5. CASE Chosen = "greedy"
  <2>1. /\ Fits(BelowFull(p), <<Root>>, Position[p])
        /\ Passed(BelowFull(p), <<Root>>) = {}
    BY <1>1, WalksReachVoxels, RootIsReached, RootFits
  <2>2. nodes \cup {} = nodes \cup CreatedBefore(p) \cup Created({})
    BY <1>4, <1>5 DEF CreatedBefore
  <2>3. GreedyState'
    BY <1>1, <1>5, <2>1, <2>2, NextGreedyState
  <2> QED BY <1>1, <1>2, <1>5, <2>3 DEF WalkState
<1>6. CASE Chosen = "stochastic"
  <2>1. /\ Fits(Visited(p, expected), <<Root>>, Position[p])
        /\ Passed(Visited(p, expected), <<Root>>) = {}
    BY <1>1, WalksReachVoxels, RootIsReached, RootFits
  <2>2. /\ { k \in {} : k.level < expected } = {}
        /\ { k \in {} : ~IsFull(k) } = {}
    OBVIOUS
  <2>3. Collected(<<>>, {})
    <3>1. <<>> \in Seq(VoxelKeys) /\ DOMAIN <<>> = {}
      OBVIOUS
    <3> QED BY <3>1 DEF Collected
  <2>4. nodes \cup {} = nodes \cup Created({ k \in {} : k.level < expected })
    BY <1>4, <2>2
  <2>5. StochasticState'
    BY <1>1, <1>6, <2>1, <2>2, <2>3, <2>4, NextStochasticState
  <2> QED BY <1>1, <1>2, <1>6, <2>5 DEF WalkState
<1> QED BY <1>3, <1>5, <1>6

LEMMA SkipKeepsState ==
  ASSUME Frontier(nodes_to_check), WalkState, Skip
  PROVE  WalkState'
<1>1. /\ UNCHANGED vars /\ point' = point /\ strategy' = strategy
      /\ node_candidates' = node_candidates /\ grown' = grown
      /\ nodes_to_check # <<>> /\ nodes_to_check' = Front(nodes_to_check)
      /\ ~BoundsContainPoint(NodeBounds(Last(nodes_to_check)), Position[point])
  BY DEF Skip, OnTheWay, Top
<1>2. strategy # "none" /\ Started(point) /\ point \in Points
  BY WriterAssumption DEF Skip, WalkState, Started
<1>3. Started(point)'
  BY <1>1, <1>2, WriterStaysTheSame
<1>4. Last(nodes_to_check) \in Keys
  BY <1>1, PoppedStack, VoxelKeysAreKeys DEF Frontier
<1>5. \A k \in Home[point] : ~Below(k, Last(nodes_to_check))
  BY <1>1, <1>2, <1>4, HomeIsOnTheWay
<1>6. CASE strategy = "greedy"
  <2>1. GreedyState
    BY <1>6 DEF WalkState
  <2>2. /\ Fits(BelowFull(point), nodes_to_check', Position[point])
        /\ Passed(BelowFull(point), nodes_to_check')
             = Passed(BelowFull(point), nodes_to_check)
    BY <1>1, <1>2, <1>5, <2>1, WalksReachVoxels, PoppedFits DEF GreedyState
  <2>3. GreedyState'
    BY <1>1, <2>1, <2>2, NextGreedyState DEF GreedyState
  <2> QED BY <1>1, <1>3, <1>6, <2>3 DEF WalkState
<1>7. CASE strategy = "stochastic"
  <2>1. StochasticState
    BY <1>7 DEF WalkState
  <2>2. /\ Fits(Visited(point, expected), nodes_to_check', Position[point])
        /\ Passed(Visited(point, expected), nodes_to_check')
             = Passed(Visited(point, expected), nodes_to_check)
    BY <1>1, <1>2, <1>5, <2>1, WalksReachVoxels, PoppedFits DEF StochasticState
  <2>3. StochasticState'
    BY <1>1, <2>1, <2>2, NextStochasticState DEF StochasticState
  <2> QED BY <1>1, <1>3, <1>7, <2>3 DEF WalkState
<1> QED BY <1>2, <1>6, <1>7 DEF WalkState

\* The top of the stack, if it is on the way.
LEMMA TopIsReached ==
  ASSUME NEW R, Frontier(nodes_to_check), nodes_to_check # <<>>, OnTheWay,
         Fits(R, nodes_to_check, Position[point])
  PROVE  /\ Top \in R /\ Top \in VoxelKeys /\ Top \in Keys
         /\ \A k \in Passed(R, nodes_to_check) : VisitedBefore(k, Top)
<1>1. /\ Len(nodes_to_check) \in DOMAIN nodes_to_check
      /\ Top = nodes_to_check[Len(nodes_to_check)] /\ Top \in VoxelKeys
  BY PoppedStack DEF Frontier, Top
<1> QED BY <1>1, VoxelKeysAreKeys DEF Fits, OnTheWay

\* A child of a node of Home is in Home if its bounds contain the point.
LEMMA HomeOfChild ==
  ASSUME NEW p \in Points, NEW j \in Home[p], NEW k \in Children(j),
         BoundsContainPoint(NodeBounds(k), Position[p])
  PROVE  k \in Home[p]
<1>1. j \in VoxelKeys
  BY HomeIsVoxels
<1>2. k \in VoxelKeys /\ Ancestors(k) = Ancestors(j) \cup {j}
  BY <1>1, ParentOfChild
<1> QED BY <1>2 DEF Home, VoxelsOf

LEMMA FullNodesExist ==
  ASSUME TypeOK, CountedNodesExist, NEW k \in VoxelKeys, IsFull(k)
  PROVE  k \in nodes
<1>1. point_count[k] > 0
  BY WriterAssumption DEF IsFull, TypeOK, OctreeTypeOK
<1> QED BY <1>1 DEF CountedNodesExist

LEMMA CreatedWithTop ==
  ASSUME NEW S, NEW k
  PROVE  Created(S \cup {k}) = Created(S) \cup Children(k)
BY DEF Created

LEMMA DescendKeepsState ==
  ASSUME TypeOK, CountedNodesExist, Frontier(nodes_to_check), WalkState, Descend
  PROVE  WalkState'
<1> DEFINE R == BelowFull(point)
           P == Passed(R, nodes_to_check)
<1>1. /\ UNCHANGED vars /\ point' = point /\ strategy' = strategy
      /\ strategy = "greedy" /\ nodes_to_check # <<>> /\ OnTheWay /\ IsFull(Top)
      /\ nodes_to_check' = Front(nodes_to_check) \o Pushed(Last(nodes_to_check))
      /\ grown' = IF HasChildren(Top) THEN grown
                  ELSE grown \cup (Children(Top) \ nodes)
      /\ Top = Last(nodes_to_check)
  BY DEF Descend, Top
<1>2. Started(point) /\ point \in Points /\ GreedyState
  BY <1>1, WriterAssumption DEF WalkState, Started
<1>3. Started(point)'
  BY <1>1, <1>2, WriterStaysTheSame
<1>4. /\ R \in SUBSET VoxelKeys /\ Fits(R, nodes_to_check, Position[point])
      /\ Top \in R /\ Top \in VoxelKeys /\ Top \in nodes /\ Top \in Home[point]
  <2>1. Fits(R, nodes_to_check, Position[point])
    BY <1>2 DEF GreedyState
  <2>2. Top \in R /\ Top \in VoxelKeys
    BY <1>1, <2>1, TopIsReached
  <2> QED BY <1>1, <1>2, <2>1, <2>2, WalksReachVoxels, FullNodesExist
<1>5. ASSUME NEW k \in Children(Top),
             BoundsContainPoint(NodeBounds(k), Position[point])
      PROVE  k \in R
  <2>1. k \in Home[point]
    BY <1>2, <1>4, <1>5, HomeOfChild
  <2>2. Ancestors(k) = Ancestors(Top) \cup {Top}
    BY <1>4, ParentOfChild
  <2> QED BY <1>1, <1>4, <2>1, <2>2 DEF BelowFull
<1> HIDE DEF R
<1>6. /\ Fits(R, nodes_to_check', Position[point])
      /\ Passed(R, nodes_to_check') = P \cup {Top}
  BY <1>1, <1>4, <1>5, PushedFits
<1>7. \A k \in P \cup {Top} : IsFull(k)
  BY <1>1, <1>2 DEF GreedyState, R
<1>8. nodes \cup grown' =
        nodes \cup CreatedBefore(point) \cup Created(P \cup {Top})
  <2>1. nodes \cup grown' = nodes \cup grown \cup Children(Top)
    BY <1>1 DEF HasChildren
  <2>2. nodes \cup grown = nodes \cup CreatedBefore(point) \cup Created(P)
    BY <1>2 DEF GreedyState, R
  <2> QED BY <2>1, <2>2, CreatedWithTop
<1> HIDE DEF P
<1>9. GreedyState'
  BY <1>1, <1>2, <1>6, <1>7, <1>8, NextGreedyState DEF GreedyState, R
<1> QED BY <1>1, <1>3, <1>9 DEF WalkState

\* The nodes of the octree hang together.
LEMMA AncestorsInTree ==
  ASSUME TypeOK, Tree, NEW k \in nodes, NEW l \in 0 .. k.level
  PROVE  Ancestor(k, l) \in nodes
<1> DEFINE n == k.level
           S == { i \in 0 .. n : Ancestor(k, n - i) \in nodes }
<1>1. nodes \subseteq VoxelKeys /\ k \in Keys /\ n \in Nat
  BY VoxelKeysAreKeys DEF TypeOK, OctreeTypeOK, Keys
<1>2. 0 \in S
  <2>1. n - 0 = n /\ 0 \in 0 .. n /\ Ancestor(k, n) \in nodes
    BY <1>1, AncestorOfSelf
  <2> HIDE DEF n
  <2> QED BY <2>1
<1>3. ASSUME NEW i \in 0 .. (n - 1), i \in S
      PROVE  i + 1 \in S
  <2> DEFINE h == n - i
  <2>1. /\ h \in 1 .. n /\ h \in 0 .. n /\ h - 1 \in 0 .. h
        /\ h - 1 = n - (i + 1) /\ i + 1 \in 0 .. n /\ h # 0
    BY <1>1
  <2>2. Ancestor(k, h) \in nodes
    BY <1>3
  <2> HIDE DEF h, n
  <2>3. Ancestor(k, h).level = h
    BY <1>1, <2>1, AncestorIsKey DEF n
  <2>4. Ancestor(k, h) # Root
    BY <2>1, <2>3 DEF Root
  <2>5. Parent(Ancestor(k, h)) \in nodes
    BY <2>2, <2>4 DEF Tree
  <2>6. Parent(Ancestor(k, h)) = Ancestor(k, h - 1)
    BY <1>1, <2>1, <2>3, AncestorOfAncestor DEF Parent, n
  <2> QED BY <2>1, <2>5, <2>6
<1>4. 0 .. n \subseteq S
  <2> HIDE DEF S, n
  <2> QED BY <1>1, <1>2, <1>3, UpTo
<1>5. n - l \in 0 .. n /\ n - (n - l) = l
  BY <1>1
<1> HIDE DEF n
<1> QED BY <1>4, <1>5

LEMMA AppendedCandidate ==
  ASSUME NEW c, NEW S, Collected(c, S), NEW k \in VoxelKeys,
         \A j \in S : VisitedBefore(j, k)
  PROVE  Collected(Append(c, k), S \cup {k})
<1> DEFINE n == Len(c)
           d == Append(c, k)
<1>1. /\ c \in Seq(VoxelKeys) /\ n \in Nat /\ DOMAIN c = 1 .. n
  BY LenProperties DEF Collected
<1>2. /\ d \in Seq(VoxelKeys) /\ DOMAIN d = 1 .. (n + 1)
      /\ \A i \in 1 .. n : d[i] = c[i]
      /\ d[n + 1] = k
  BY <1>1, AppendProperties
<1>3. 1 .. (n + 1) = (1 .. n) \cup {n + 1}
  <2> HIDE DEF n
  <2> QED BY <1>1
<1>4. { c[i] : i \in 1 .. n } = S
  BY <1>1 DEF Collected
<1> HIDE DEF n, d
<1>5. { d[i] : i \in DOMAIN d } = S \cup {k}
  BY <1>2, <1>3, <1>4
<1>6. ASSUME NEW i \in DOMAIN d, NEW j \in DOMAIN d, i < j
      PROVE  VisitedBefore(d[i], d[j])
  <2>1. i \in 1 .. n
    BY <1>1, <1>2, <1>6
  <2>2. CASE j \in 1 .. n
    BY <1>1, <1>2, <1>6, <2>1, <2>2 DEF Collected
  <2>3. CASE j = n + 1
    <3>1. c[i] \in S
      BY <1>4, <2>1
    <3> QED BY <1>2, <2>1, <2>3, <3>1
  <2> QED BY <1>2, <1>3, <2>2, <2>3
<1> QED BY <1>2, <1>5, <1>6 DEF Collected, d

LEMMA LevelsOfTheWalk ==
  ASSUME TypeOK, Chosen = "stochastic"
  PROVE  expected \in Nat /\ ~Greedy(num_points)
<1>1. num_points \in Nat /\ ~Greedy(num_points)
  BY WriterAssumption DEF Chosen, Greedy, TypeOK, CallTypeOK
<1> QED BY <1>1, LevelsAreExpected DEF expected

LEMMA CollectKeepsState ==
  ASSUME TypeOK, Tree, Frontier(nodes_to_check), WalkState, Collect
  PROVE  WalkState'
<1> DEFINE R == Visited(point, expected)
           P == Passed(R, nodes_to_check)
           Q == Passed(R, nodes_to_check')
           Early(S) == { k \in S : k.level < expected }
<1>1. /\ UNCHANGED vars /\ point' = point /\ strategy' = strategy
      /\ strategy = "stochastic" /\ nodes_to_check # <<>> /\ OnTheWay
      /\ nodes_to_check' = Front(nodes_to_check) \o
            (IF Children(Top) \subseteq nodes \cup grown'
             THEN Pushed(Top) ELSE <<>>)
      /\ grown' = IF ~HasChildren(Top) /\ Top.level < ExpectedLevels(num_points)
                  THEN grown \cup Children(Top) ELSE grown
      /\ node_candidates' = IF IsFull(Top) THEN node_candidates
                            ELSE Append(node_candidates, Top)
      /\ Top = Last(nodes_to_check)
  BY DEF Collect, Top
<1>2. /\ Started(point) /\ point \in Points /\ StochasticState
      /\ Chosen = "stochastic" /\ expected \in Nat
  <2>1. Started(point) /\ point \in Points /\ StochasticState
    BY <1>1, WriterAssumption DEF WalkState, Started
  <2> QED BY <2>1, LevelsOfTheWalk DEF StochasticState
<1>3. Started(point)'
  BY <1>1, <1>2, WriterStaysTheSame
<1>4. /\ R \in SUBSET VoxelKeys /\ Fits(R, nodes_to_check, Position[point])
      /\ Top \in R /\ Top \in VoxelKeys /\ Top \in Keys /\ Top \in Home[point]
      /\ \A k \in P : VisitedBefore(k, Top)
  <2>1. Fits(R, nodes_to_check, Position[point])
    BY <1>2 DEF StochasticState
  <2>2. /\ Top \in R /\ Top \in VoxelKeys /\ Top \in Keys
        /\ \A k \in P : VisitedBefore(k, Top)
    BY <1>1, <2>1, TopIsReached
  <2> QED BY <1>2, <2>1, <2>2, WalksReachVoxels
<1> HIDE DEF R
<1>5. nodes \cup grown = nodes \cup Created(Early(P))
  BY <1>2 DEF StochasticState, R
<1>6. nodes \cup grown' = nodes \cup Created(Early(P \cup {Top}))
  <2>1. CASE Top.level < expected
    <3>1. Early(P \cup {Top}) = Early(P) \cup {Top}
      BY <2>1
    <3>2. nodes \cup grown' = nodes \cup grown \cup Children(Top)
      BY <1>1, <2>1 DEF HasChildren, expected
    <3> HIDE DEF Early
    <3> QED BY <1>5, <3>1, <3>2, CreatedWithTop
  <2>2. CASE ~(Top.level < expected)
    <3>1. Early(P \cup {Top}) = Early(P)
      BY <2>2
    <3>2. grown' = grown
      BY <1>1, <2>2 DEF expected
    <3> HIDE DEF Early
    <3> QED BY <1>5, <3>1, <3>2
  <2> QED BY <2>1, <2>2
<1>7. \A k \in VoxelKeys : k \in Keys /\ k.level \in 0 .. MaxLevel
  BY VoxelKeysAreKeys
\* What was created lies on the expected levels.
<1>8. ASSUME NEW k \in Children(Top), k \in nodes \cup grown',
             BoundsContainPoint(NodeBounds(k), Position[point])
      PROVE  k \in R
  <2>1. k \in Home[point]
    BY <1>2, <1>4, <1>8, HomeOfChild
  <2>2. CASE k \in nodes
    BY <2>1, <2>2 DEF Visited, R
  <2>3. CASE k \notin nodes
    <3>1. PICK j \in Early(P \cup {Top}) : k \in Children(j)
      <4>1. k \in Created(Early(P \cup {Top}))
        BY <1>6, <1>8, <2>3
      <4> HIDE DEF Early
      <4> QED BY <4>1 DEF Created
    <3>2. j \in VoxelKeys /\ j.level < expected
      BY <1>4, <3>1 DEF Passed
    <3>3. k.level = j.level + 1 /\ j.level \in Nat
      BY <1>7, <3>1, <3>2, ParentOfChild
    <3>4. k.level <= expected
      BY <1>2, <3>2, <3>3
    <3> QED BY <2>1, <3>4 DEF Visited, R
  <2> QED BY <2>2, <2>3
\* Where there are no children there is nothing to visit below.
<1>9. ASSUME ~(Children(Top) \subseteq nodes \cup grown'), NEW k \in R,
             Top \in Ancestors(k)
      PROVE  FALSE
  <2>1. PICK l \in 0 .. (k.level - 1) : Top = Ancestor(k, l)
    BY <1>9 DEF Ancestors
  <2>2. /\ k \in VoxelKeys /\ k \in Keys /\ k.level \in Nat /\ Top.level = l
        /\ l \in 0 .. k.level /\ l + 1 \in 0 .. k.level /\ l + 1 <= k.level
        /\ l \in 0 .. (l + 1) /\ (l + 1) - 1 = l /\ l \in Nat
    <3>1. k \in VoxelKeys /\ k \in Keys /\ k.level \in Nat
      BY <1>4, <1>7
    <3>2. Top.level = l
      BY <2>1 DEF Ancestor
    <3> QED BY <2>1, <3>1, <3>2
  <2>3. CASE k \in nodes
    <3> DEFINE c == Ancestor(k, l + 1)
    <3>1. c \in nodes
      BY <2>2, <2>3, AncestorsInTree
    <3>2. c.level = l + 1
      BY <2>2, AncestorIsKey
    <3>3. Ancestor(c, l) = Top
      BY <2>1, <2>2, AncestorOfAncestor
    <3> HIDE DEF c
    <3>4. Parent(c) = Top
      BY <2>2, <3>2, <3>3 DEF Parent
    <3>5. c # Root
      BY <2>2, <3>2 DEF Root
    <3> QED BY <1>9, <3>1, <3>4, <3>5 DEF Tree
  <2>4. CASE k \notin nodes
    <3>1. k.level <= expected
      BY <2>4 DEF Visited, R
    <3>2. Top.level < expected
      BY <1>2, <2>2, <3>1
    <3>3. Top \in Early(P \cup {Top})
      BY <3>2
    <3>4. Children(Top) \subseteq Created(Early(P \cup {Top}))
      <4> HIDE DEF Early
      <4> QED BY <3>3 DEF Created
    <3> QED BY <1>6, <1>9, <3>4
  <2> QED BY <2>3, <2>4
<1>10. /\ Fits(R, nodes_to_check', Position[point])
       /\ Q = P \cup {Top}
  <2>1. CASE Children(Top) \subseteq nodes \cup grown'
    <3>1. nodes_to_check' = Front(nodes_to_check) \o Pushed(Last(nodes_to_check))
      BY <1>1, <2>1
    <3>2. \A k \in Children(Last(nodes_to_check)) :
            BoundsContainPoint(NodeBounds(k), Position[point]) => k \in R
      BY <1>1, <1>8, <2>1
    <3> QED BY <1>1, <1>4, <3>1, <3>2, PushedFits
  <2>2. CASE ~(Children(Top) \subseteq nodes \cup grown')
    <3>1. nodes_to_check' = Front(nodes_to_check)
      <4>1. Front(nodes_to_check) \in Seq(VoxelKeys)
        BY <1>1, PoppedStack DEF Frontier
      <4> QED BY <1>1, <2>2, <4>1
    <3>2. \A k \in R : Last(nodes_to_check) \notin Ancestors(k)
      BY <1>1, <1>9, <2>2
    <3> QED BY <1>1, <1>4, <3>1, <3>2, PushedFits
  <2> QED BY <2>1, <2>2
<1>11. Collected(node_candidates', { k \in P \cup {Top} : ~IsFull(k) })
  <2> DEFINE S == { k \in P : ~IsFull(k) }
  <2>1. Collected(node_candidates, S)
    BY <1>2 DEF StochasticState, R
  <2>2. CASE IsFull(Top)
    <3>1. { k \in P \cup {Top} : ~IsFull(k) } = S
      BY <2>2
    <3> QED BY <1>1, <2>1, <2>2, <3>1
  <2>3. CASE ~IsFull(Top)
    <3>1. { k \in P \cup {Top} : ~IsFull(k) } = S \cup {Top}
      BY <2>3
    <3>2. \A k \in S : VisitedBefore(k, Top)
      BY <1>4
    <3> HIDE DEF S, P
    <3>3. Collected(Append(node_candidates, Top), S \cup {Top})
      BY <1>4, <2>1, <3>2, AppendedCandidate
    <3> QED BY <1>1, <2>3, <3>1, <3>3
  <2> QED BY <2>2, <2>3
<1> HIDE DEF P, Q
<1>12. /\ Fits(Visited(point, expected), nodes_to_check', Position[point])
       /\ Q = Passed(Visited(point, expected), nodes_to_check')
       /\ nodes \cup grown' = nodes \cup Created({ k \in Q : k.level < expected })
       /\ Collected(node_candidates', { k \in Q : ~IsFull(k) })
  BY <1>6, <1>10, <1>11 DEF Q, R
<1>13. StochasticState'
  BY <1>1, <1>2, <1>12, NextStochasticState
<1> QED BY <1>1, <1>3, <1>13 DEF WalkState

LEMMA FallBackKeepsState ==
  ASSUME CountedNodesExist, WalkState, FallBack
  PROVE  WalkState'
<1> DEFINE R == Visited(point, expected)
<1>1. /\ UNCHANGED vars /\ point' = point /\ strategy' = "greedy"
      /\ strategy = "stochastic" /\ nodes_to_check = <<>> /\ node_candidates = <<>>
      /\ WithinDepth(point) /\ nodes_to_check' = <<Root>> /\ grown' = grown
  BY DEF FallBack, FallsBackTo
<1>2. /\ Started(point) /\ point \in Points /\ StochasticState
      /\ Chosen = "stochastic" /\ InRootBounds(point)
  BY <1>1, WriterAssumption DEF WalkState, Started, StochasticState
<1>3. Started(point)'
  BY <1>1, <1>2, WriterStaysTheSame
<1>4. Passed(R, <<>>) = R
  <2>1. DOMAIN <<>> = {}
    OBVIOUS
  <2> QED BY <2>1 DEF Passed
<1>5. Candidates(point, expected) = {}
  <2>1. Collected(<<>>, { k \in R : ~IsFull(k) })
    BY <1>1, <1>2, <1>4 DEF StochasticState
  <2>2. { k \in R : ~IsFull(k) } = {}
    BY <2>1 DEF Collected
  <2> QED BY <2>2 DEF Candidates
<1>6. nodes \cup grown' = nodes \cup CreatedBefore(point) \cup Created({})
  <2>1. nodes \cup grown = nodes \cup Created({ k \in R : k.level < expected })
    BY <1>1, <1>2, <1>4 DEF StochasticState
  <2>2. Created({ k \in R : k.level < expected })
          = StochasticChildren(point, expected)
    BY DEF Created, StochasticChildren
  <2>3. CreatedBefore(point) = StochasticChildren(point, expected)
    BY <1>2 DEF CreatedBefore
  <2>4. Created({}) = {}
    BY DEF Created
  <2> QED BY <1>1, <2>1, <2>2, <2>3, <2>4
<1>7. /\ Fits(BelowFull(point), <<Root>>, Position[point])
      /\ Passed(BelowFull(point), <<Root>>) = {}
  BY <1>2, WalksReachVoxels, RootIsReached, RootFits
<1>8. GreedyState'
  BY <1>1, <1>5, <1>6, <1>7, NextGreedyState
<1> QED BY <1>1, <1>3, <1>8 DEF WalkState

-----------------------------------------------------------------------------
(* The ends of a walk.                                                     *)

\* What a walk has created is what the writer says it creates.
LEMMA AddToSame ==
  ASSUME NEW p, NEW k, NEW X, NEW Y, NEW w, nodes \cup X = nodes \cup Y,
         AddTo(p, k, X, w)
  PROVE  AddTo(p, k, Y, w)
<1>1. nodes' = nodes \cup Y
  BY DEF AddTo
<1> QED BY <1>1 DEF AddTo

LEMMA GreedyEndAdds ==
  ASSUME Started(point), EndWalk, GreedyState,
         AddPointGreedy(point, CreatedBefore(point))
  PROVE  AddPoint(point)
<1>1. /\ Take(point) /\ point \in Matching /\ InRootBounds(point)
      /\ UNCHANGED <<is_closed, callVars, close_failed>>
  BY DEF EndWalk, Started
<1>2. CASE Greedy(num_points) \/ num_points <= Cardinality(batch)
  <2>1. CreatedBefore(point) = {}
    BY <1>2 DEF CreatedBefore, Chosen
  <2>2. AddPointGreedy(point, {})
    BY <2>1
  <2> QED BY <1>1, <1>2, <2>2 DEF AddPoint
<1>3. CASE ~(Greedy(num_points) \/ num_points <= Cardinality(batch))
  <2>1. Chosen = "stochastic"
    BY <1>3 DEF Chosen
  <2>2. CreatedBefore(point)
          = StochasticChildren(point, ExpectedLevels(num_points))
    BY <2>1 DEF CreatedBefore, expected
  <2>3. Candidates(point, ExpectedLevels(num_points)) = {}
    BY <2>1 DEF GreedyState, expected
  <2>4. AddPointStochastic(point, ExpectedLevels(num_points))
    BY <2>2, <2>3 DEF AddPointStochastic
  <2> QED BY <1>1, <1>3, <2>4 DEF AddPoint
<1> QED BY <1>2, <1>3

LEMMA FoundAdds ==
  ASSUME Frontier(nodes_to_check), WalkState, Found
  PROVE  AddPoint(point)
<1> DEFINE s == nodes_to_check
           R == BelowFull(point)
           P == Passed(R, s)
<1>1. /\ strategy = "greedy" /\ s # <<>> /\ OnTheWay /\ ~IsFull(Top)
      /\ EndWalk /\ AddTo(point, Top, grown, FillsNode(Top))
      /\ Top = Last(s)
  BY DEF Found, Top
<1>2. Started(point) /\ point \in Points /\ GreedyState
  BY <1>1, WriterAssumption DEF WalkState, Started
<1>3. /\ R \in SUBSET VoxelKeys /\ Fits(R, s, Position[point])
      /\ \A k \in P : IsFull(k)
      /\ nodes \cup grown = nodes \cup CreatedBefore(point) \cup Created(P)
      /\ WithinDepth(point)
  BY <1>2, WalksReachVoxels DEF GreedyState
<1>4. Top \in R /\ Top \in Keys /\ \A k \in P : VisitedBefore(k, Top)
  BY <1>1, <1>3, TopIsReached
<1>5. \A k \in VoxelKeys : k \in Keys
  BY VoxelKeysAreKeys
<1>6. \A k \in R : \A j \in Ancestors(k) : IsFull(j)
  BY DEF BelowFull
<1> DEFINE n == Len(s)
<1>7. /\ n \in Nat /\ DOMAIN s = 1 .. n /\ n \in DOMAIN s /\ s[n] = Top
      /\ \A i \in DOMAIN s : s[i] \in VoxelKeys /\ (i = n \/ i < n)
  <2>1. /\ n \in Nat \ {0} /\ DOMAIN s = 1 .. n /\ s[n] = Top
        /\ s \in Seq(VoxelKeys)
    BY <1>1, PoppedStack DEF Frontier
  <2>2. \A i \in DOMAIN s : s[i] \in VoxelKeys
    BY <2>1
  <2> HIDE DEF n, s
  <2> QED BY <2>1, <2>2
<1> HIDE DEF n
\* What is not passed and not at the top comes after the top.
<1>8. ASSUME NEW k \in R, k \notin P, k # Top
      PROVE  VisitedBefore(Top, k)
  <2>1. PICK i \in DOMAIN s : Below(k, s[i])
    BY <1>8 DEF Passed
  <2>2. CASE i = n
    <3>1. Top \in Ancestors(k)
      BY <1>7, <1>8, <2>1, <2>2 DEF Below
    <3> QED BY <1>1, <1>6, <3>1
  <2>3. CASE i < n
    <3>1. Branch(Top, s[i])
      BY <1>3, <1>7, <2>3 DEF Fits
    <3>2. VisitedBefore(Top, s[i])
      BY <3>1 DEF VisitedBefore, Branch
    <3>3. s[i] \in Keys /\ k \in Keys
      BY <1>3, <1>5, <1>7
    <3> QED BY <1>4, <2>1, <3>2, <3>3, VisitedBeforeBelow
  <2> QED BY <1>7, <2>2, <2>3
<1>9. Top \in FirstVisited(GreedyNodes(point))
  BY <1>1, <1>3, <1>4, <1>8 DEF FirstVisited, GreedyNodes
<1>10. { j \in FullNodes(point) : VisitedBefore(j, Top) } = P
  <2>1. ASSUME NEW j \in FullNodes(point), VisitedBefore(j, Top)
        PROVE  j \in P
    <3>1. j \in R /\ j # Top /\ j \in Keys
      BY <1>1, <1>3, <1>5 DEF FullNodes
    <3>2. ~VisitedBefore(Top, j)
      BY <1>4, <2>1, <3>1, VisitedOnce
    <3> QED BY <1>8, <3>1, <3>2
  <2>2. ASSUME NEW j \in P
        PROVE  j \in FullNodes(point) /\ VisitedBefore(j, Top)
    BY <1>3, <1>4 DEF FullNodes, Passed
  <2> QED BY <2>1, <2>2
<1> HIDE DEF P
<1>11. AddTo(point, Top, CreatedBefore(point) \cup Created(P), FillsNode(Top))
  <2>1. nodes \cup grown = nodes \cup (CreatedBefore(point) \cup Created(P))
    BY <1>3
  <2> QED BY <1>1, <2>1, AddToSame
<1>12. AddPointGreedy(point, CreatedBefore(point))
  BY <1>3, <1>9, <1>10, <1>11 DEF AddPointGreedy, Created
<1> QED BY <1>1, <1>2, <1>12, GreedyEndAdds

LEMMA NotFoundAdds ==
  ASSUME WalkState, NotFound
  PROVE  AddPoint(point)
<1> DEFINE R == BelowFull(point)
<1>1. /\ strategy = "greedy" /\ nodes_to_check = <<>> /\ EndWalk
      /\ nodes' = nodes \cup grown /\ CountPoint(point) /\ Abort(NotAdded)
      /\ UNCHANGED <<point_count, fileVars, faults>>
  BY DEF NotFound
<1>2. Started(point) /\ GreedyState
  BY <1>1 DEF WalkState
<1>3. Passed(R, <<>>) = R
  <2>1. DOMAIN <<>> = {}
    OBVIOUS
  <2> QED BY <2>1 DEF Passed
<1>4. /\ \A k \in R : IsFull(k)
      /\ nodes \cup grown = nodes \cup CreatedBefore(point) \cup Created(R)
      /\ WithinDepth(point)
  BY <1>1, <1>2, <1>3 DEF GreedyState
<1>5. GreedyNodes(point) = {} /\ FullNodes(point) = R
  BY <1>4 DEF GreedyNodes, FullNodes
<1> HIDE DEF R
<1>6. nodes' = nodes \cup CreatedBefore(point)
                 \cup UNION { Children(j) : j \in FullNodes(point) }
  BY <1>1, <1>4, <1>5 DEF Created
<1>7. AddPointGreedy(point, CreatedBefore(point))
  BY <1>1, <1>4, <1>5, <1>6 DEF AddPointGreedy
<1> QED BY <1>1, <1>2, <1>7, GreedyEndAdds

\* As many nodes as indices, if none comes twice.
LEMMA Enumerated ==
  ASSUME NEW m \in Nat, NEW f,
         \A i, j \in 1 .. m : f[i] = f[j] => i = j
  PROVE  Cardinality({ f[i] : i \in 1 .. m }) = m
<1> DEFINE S == { f[i] : i \in 1 .. m }
           g == [i \in 1 .. m |-> f[i]]
<1>1. g \in [1 .. m -> S] /\ \A i \in 1 .. m : g[i] = f[i]
  OBVIOUS
<1>2. \A x \in S : \E i \in 1 .. m : g[i] = x
  OBVIOUS
<1>3. \A i, j \in 1 .. m : g[i] = g[j] => i = j
  OBVIOUS
<1> HIDE DEF g
<1>4. g \in Bijection(1 .. m, S)
  <2>1. DOMAIN g = 1 .. m
    BY <1>1
  <2>2. IsInjective(g)
    BY <1>3, <2>1 DEF IsInjective
  <2> HIDE DEF S
  <2> QED BY <1>1, <1>2, <2>2 DEF Bijection, Injection, Surjection
<1>5. ExistsBijection(1 .. m, S)
  BY <1>4 DEF ExistsBijection
<1> HIDE DEF S
<1>6. Cardinality(S) = m
  BY <1>5, FS_CountingElements
<1> QED BY <1>6 DEF S

(***************************************************************************)
(* The candidates come in the order in which the writer counts them.       *)
(***************************************************************************)
LEMMA CollectedInOrder ==
  ASSUME NEW c, NEW S, Collected(c, S)
  PROVE  InVisitOrder(S) = c
<1> DEFINE n == Len(c)
           Earlier(k) == { j \in S : VisitedBefore(j, k) }
<1>1. /\ n \in Nat /\ DOMAIN c = 1 .. n
      /\ \A i \in 1 .. n : c[i] \in S /\ c[i] \in Keys
      /\ S = { c[i] : i \in 1 .. n }
      /\ c = [i \in 1 .. n |-> c[i]]
  <2>1. c \in Seq(VoxelKeys)
    BY DEF Collected
  <2>2. n \in Nat /\ DOMAIN c = 1 .. n /\ c \in [1 .. n -> VoxelKeys]
    BY <2>1, LenProperties
  <2>3. S = { c[i] : i \in 1 .. n }
    BY <2>2 DEF Collected
  <2>4. \A i \in 1 .. n : c[i] \in VoxelKeys /\ c[i] \in S
    BY <2>2, <2>3
  <2>5. c = [i \in 1 .. n |-> c[i]]
    BY <2>2
  <2> QED BY <2>2, <2>3, <2>4, <2>5, VoxelKeysAreKeys
<1> HIDE DEF n
<1>2. \A i, j \in 1 .. n : i < j => VisitedBefore(c[i], c[j])
  BY <1>1 DEF Collected
<1>3. ASSUME NEW i \in 1 .. n, NEW j \in 1 .. n, VisitedBefore(c[i], c[j])
      PROVE  i < j
  <2>1. ~VisitedBefore(c[j], c[i])
    BY <1>1, <1>3, VisitedOnce
  <2>2. ~(j < i)
    BY <1>2, <2>1
  <2>3. i # j
    BY <1>3, <2>1
  <2> QED BY <1>1, <2>2, <2>3
<1>4. ASSUME NEW i \in 1 .. n, NEW j \in 1 .. n, c[i] = c[j]
      PROVE  i = j
  <2>1. ~(i < j)
    <3>1. i < j => VisitedBefore(c[i], c[i])
      BY <1>2, <1>4
    <3>2. VisitedBefore(c[i], c[i]) => i < i
      BY <1>3
    <3> QED BY <1>1, <3>1, <3>2
  <2>2. ~(j < i)
    <3>1. j < i => VisitedBefore(c[i], c[i])
      BY <1>2, <1>4
    <3>2. VisitedBefore(c[i], c[i]) => i < i
      BY <1>3
    <3> QED BY <1>1, <3>1, <3>2
  <2> QED BY <1>1, <2>1, <2>2
<1>5. Cardinality(S) = n
  BY <1>1, <1>4, Enumerated
<1>6. ASSUME NEW i \in 1 .. n
      PROVE  Cardinality(Earlier(c[i])) = i - 1
  <2>1. /\ i - 1 \in Nat
        /\ \A m \in 1 .. (i - 1) : m \in 1 .. n /\ m < i
        /\ \A m \in 1 .. n : m < i => m \in 1 .. (i - 1)
    BY <1>1
  <2>2. Earlier(c[i]) = { c[m] : m \in 1 .. (i - 1) }
    <3>1. ASSUME NEW j \in Earlier(c[i])
          PROVE  j \in { c[m] : m \in 1 .. (i - 1) }
      <4>1. PICK m \in 1 .. n : j = c[m]
        BY <1>1
      <4>2. m < i
        BY <1>3, <3>1, <4>1
      <4> QED BY <2>1, <4>1, <4>2
    <3>2. ASSUME NEW m \in 1 .. (i - 1)
          PROVE  c[m] \in Earlier(c[i])
      BY <1>1, <1>2, <2>1
    <3> QED BY <3>1, <3>2
  <2>3. \A m, l \in 1 .. (i - 1) : c[m] = c[l] => m = l
    BY <1>4, <2>1
  <2> QED BY <2>1, <2>2, <2>3, Enumerated
<1> HIDE DEF Earlier
<1>7. ASSUME NEW i \in 1 .. n
      PROVE  (CHOOSE k \in S : Cardinality(Earlier(k)) = i - 1) = c[i]
  <2>1. ASSUME NEW k \in S, Cardinality(Earlier(k)) = i - 1
        PROVE  k = c[i]
    <3>1. PICK m \in 1 .. n : k = c[m]
      BY <1>1
    <3>2. m - 1 = i - 1
      BY <1>6, <2>1, <3>1
    <3>3. m = i
      BY <1>1, <3>2
    <3> QED BY <3>1, <3>3
  <2>2. c[i] \in S /\ Cardinality(Earlier(c[i])) = i - 1
    BY <1>1, <1>6
  <2> QED BY <2>1, <2>2
<1>8. InVisitOrder(S) = [i \in 1 .. n |-> c[i]]
  BY <1>5, <1>7 DEF InVisitOrder, Earlier
<1> QED BY <1>1, <1>8

\* A draw falls on a candidate.
LEMMA DrawFallsOnCandidate ==
  ASSUME NEW levels, Len(levels) \in Nat \ {0}, NEW draw
  PROVE  ChosenIndex(levels, draw) \in 1 .. Len(levels)
<1> DEFINE hits == { i \in 1 .. (Len(levels) - 1) :
                       2 * levels[i] <= draw /\ draw <= 2 * levels[i + 1] }
<1>1. hits \in SUBSET Nat /\ hits \subseteq 1 .. Len(levels)
  OBVIOUS
<1>2. ChosenIndex(levels, draw) =
        IF hits = {} THEN Len(levels)
        ELSE CHOOSE i \in hits : \A j \in hits : i <= j
  BY DEF ChosenIndex
<1> HIDE DEF hits
<1>3. hits # {} => \E i \in hits : \A j \in hits : i <= j
  BY <1>1, LeastElement
<1>4. CASE hits = {}
  <2>1. ChosenIndex(levels, draw) = Len(levels)
    BY <1>2, <1>4
  <2>2. Len(levels) \in 1 .. Len(levels)
    OBVIOUS
  <2> QED BY <2>1, <2>2
<1>5. CASE hits # {}
  <2>1. ChosenIndex(levels, draw)
          = CHOOSE i \in hits : \A j \in hits : i <= j
    BY <1>2, <1>5
  <2>2. ChosenIndex(levels, draw) \in hits
    BY <1>3, <1>5, <2>1
  <2> QED BY <1>1, <2>2
<1> QED BY <1>4, <1>5

LEMMA ChooseAdds ==
  ASSUME TypeOK, WalkState, Choose
  PROVE  AddPoint(point)
<1> DEFINE c == node_candidates
           R == Visited(point, expected)
           S == Candidates(point, expected)
           levels == [i \in DOMAIN c |-> c[i].level]
<1>1. /\ strategy = "stochastic" /\ nodes_to_check = <<>> /\ c # <<>>
      /\ EndWalk
  BY DEF Choose
<1>2. PICK draw \in Draws :
        LET k == c[ChosenIndex(levels, draw)]
        IN  AddTo(point, k, grown, point_count[k] + 1 > max_node_size)
  BY DEF Choose
<1> DEFINE k == c[ChosenIndex(levels, draw)]
<1>3. Started(point) /\ StochasticState /\ Chosen = "stochastic"
  BY <1>1 DEF WalkState, StochasticState
<1>4. Passed(R, <<>>) = R
  <2>1. DOMAIN <<>> = {}
    OBVIOUS
  <2> QED BY <2>1 DEF Passed
<1>5. Collected(c, S)
  BY <1>1, <1>3, <1>4 DEF StochasticState, Candidates
<1>6. c \in Seq(VoxelKeys) /\ Len(c) \in Nat \ {0} /\ DOMAIN c = 1 .. Len(c)
      /\ \A i \in DOMAIN c : c[i] \in S
  <2>1. c \in Seq(VoxelKeys) /\ \A i \in DOMAIN c : c[i] \in S
    BY <1>5 DEF Collected
  <2> HIDE DEF c, S
  <2> QED BY <1>1, <2>1, EmptySeq, LenProperties DEF c
<1>7. InVisitOrder(S) = c
  BY <1>5, CollectedInOrder
<1> HIDE DEF c, S
<1>8. Len(levels) = Len(c)
  <2>1. levels \in Seq({ c[i].level : i \in DOMAIN c })
    <3>1. levels \in [1 .. Len(c) -> { c[i].level : i \in DOMAIN c }]
      BY <1>6
    <3> HIDE DEF levels
    <3> QED BY <1>6, <3>1, SeqDef
  <2>2. DOMAIN levels = 1 .. Len(c)
    BY <1>6
  <2> HIDE DEF levels
  <2>3. DOMAIN levels = 1 .. Len(levels) /\ Len(levels) \in Nat
    BY <2>1, LenProperties
  <2> QED BY <1>6, <2>2, <2>3
<1>9. k \in S
  <2>1. ChosenIndex(levels, draw) \in 1 .. Len(c)
    <3> HIDE DEF levels
    <3> QED BY <1>6, <1>8, DrawFallsOnCandidate
  <2> HIDE DEF levels
  <2> QED BY <1>6, <2>1
<1>10. k \in Drawn(S)
  BY <1>7, <1>9 DEF Drawn
<1>11. AddTo(point, k, StochasticChildren(point, expected),
             point_count[k] + 1 > max_node_size)
  <2>1. nodes \cup grown = nodes \cup StochasticChildren(point, expected)
    <3>1. nodes \cup grown = nodes \cup Created({ j \in R : j.level < expected })
      BY <1>1, <1>3, <1>4 DEF StochasticState
    <3> QED BY <3>1 DEF Created, StochasticChildren
  <2>2. AddTo(point, k, grown, point_count[k] + 1 > max_node_size)
    BY <1>2
  <2> HIDE DEF k
  <2> QED BY <2>1, <2>2, AddToSame
<1> HIDE DEF k
<1>12. AddPointStochastic(point, ExpectedLevels(num_points))
  BY <1>10, <1>11 DEF AddPointStochastic, expected, S
<1>13. ~(Greedy(num_points) \/ num_points <= Cardinality(batch))
  BY <1>3 DEF Chosen
<1>14. /\ Take(point) /\ point \in Matching /\ InRootBounds(point)
       /\ UNCHANGED <<is_closed, callVars, close_failed>>
  BY <1>1, <1>3 DEF EndWalk, Started
<1> QED BY <1>12, <1>13, <1>14 DEF AddPoint

-----------------------------------------------------------------------------
(* The refinement.                                                         *)

(***************************************************************************)
(* The invariant: the writer's own, the shape of the octree and the stack, *)
(* and what a walk has done so far.                                        *)
(***************************************************************************)
WalkInv ==
  /\ TypeOK
  /\ CountedNodesExist
  /\ Tree
  /\ Frontier(nodes_to_check)
  /\ WalkState

LEMMA WalkInvInit == WalkInit => Init /\ WalkInv
<1> SUFFICES ASSUME WalkInit PROVE Init /\ WalkInv
  OBVIOUS
<1>1. Init
  BY DEF WalkInit
<1>2. TypeOK
  BY <1>1, InitTypeOK
<1>3. CountedNodesExist
  BY <1>1 DEF Init, CountedNodesExist
<1>4. Tree
  BY <1>1 DEF Init, Tree
<1>5. Frontier(nodes_to_check)
  BY EmptyIsAFrontier DEF WalkInit
<1>6. WalkState
  BY DEF WalkInit, WalkState
<1> QED BY <1>1, <1>2, <1>3, <1>4, <1>5, <1>6 DEF WalkInv

LEMMA WalkStepIsNext ==
  ASSUME WalkInv, [WalkNext]_<<vars, walkVars>>
  PROVE  [Next]_vars
<1> USE DEF WalkInv
<1>1. ASSUME strategy \in {"greedy", "stochastic"}, AddPoint(point)
      PROVE  Next
  <2>1. point \in Points
    BY <1>1, WriterAssumption DEF WalkState, Started
  <2> QED BY <1>1, <2>1 DEF Next, Running
<1>2. ASSUME NEW p \in Points, StartWalk(p) PROVE UNCHANGED vars
  BY <1>2 DEF StartWalk
<1>3. CASE Skip \/ Descend \/ Collect \/ FallBack
  BY <1>3 DEF Skip, Descend, Collect, FallBack
<1>4. CASE Found
  BY <1>1, <1>4, FoundAdds DEF Found
<1>5. CASE NotFound
  BY <1>1, <1>5, NotFoundAdds DEF NotFound
<1>6. CASE Choose
  BY <1>1, <1>6, ChooseAdds DEF Choose
<1>7. CASE BetweenWalks
  BY <1>7 DEF BetweenWalks, Next, Running
<1>8. CASE UNCHANGED <<vars, walkVars>>
  BY <1>8
<1> QED BY <1>2, <1>3, <1>4, <1>5, <1>6, <1>7, <1>8 DEF WalkNext, Walking

LEMMA WalkStateInductive ==
  ASSUME WalkInv, [WalkNext]_<<vars, walkVars>>
  PROVE  WalkState'
<1> USE DEF WalkInv
<1>1. ASSUME NEW p \in Points, StartWalk(p) PROVE WalkState'
  BY <1>1, StartKeepsState
<1>2. CASE Skip
  BY <1>2, SkipKeepsState
<1>3. CASE Descend
  BY <1>3, DescendKeepsState
<1>4. CASE Collect
  BY <1>4, CollectKeepsState
<1>5. CASE FallBack
  BY <1>5, FallBackKeepsState
<1>6. CASE Found \/ NotFound \/ Choose
  BY <1>6 DEF Found, NotFound, Choose, EndWalk, WalkState
<1>7. CASE BetweenWalks
  BY <1>7 DEF BetweenWalks, walkVars, WalkState
<1>8. CASE UNCHANGED <<vars, walkVars>>
  <2>1. /\ UNCHANGED vars /\ point' = point /\ strategy' = strategy
        /\ nodes_to_check' = nodes_to_check /\ grown' = grown
        /\ node_candidates' = node_candidates
    BY <1>8 DEF walkVars
  <2>2. Started(point) => Started(point)'
    BY <2>1, WriterStaysTheSame
  <2>3. GreedyState => GreedyState'
    BY <2>1, NextGreedyState DEF GreedyState
  <2>4. StochasticState => StochasticState'
    BY <2>1, NextStochasticState DEF StochasticState
  <2> QED BY <2>1, <2>2, <2>3, <2>4 DEF WalkState
<1> QED BY <1>1, <1>2, <1>3, <1>4, <1>5, <1>6, <1>7, <1>8 DEF WalkNext, Walking

(***************************************************************************)
(* The loops of add_point_greedy and add_point_stochastic do what the      *)
(* writer's actions say in one step: the point ends in the first node      *)
(* below full ones that is not full, or in a candidate a draw can single   *)
(* out, and the nodes created are those the writer creates; also when the  *)
(* stochastic walk finds every node full and falls back.                   *)
(***************************************************************************)
THEOREM WalksRefineWriter == WalkSpec => ImplementsWriter
<1>1. WalkInit => Init /\ TypeOK /\ CountedNodesExist /\ Tree /\ WalkState
  BY WalkInvInit DEF WalkInv
<1>2. ASSUME TypeOK, CountedNodesExist, Tree, WalkState,
             Frontier(nodes_to_check), [WalkNext]_<<vars, walkVars>>
      PROVE  /\ [Next]_vars
             /\ TypeOK' /\ CountedNodesExist' /\ Tree' /\ WalkState'
  <2>1. WalkInv
    BY <1>2 DEF WalkInv
  <2>2. [Next]_vars
    BY <1>2, <2>1, WalkStepIsNext
  <2>3. WalkState'
    BY <1>2, <2>1, WalkStateInductive
  <2> QED BY <1>2, <2>2, <2>3, TypesInductive, CountedNodesExistInductive,
             TreeInductive
<1> QED BY <1>1, <1>2, FrontierInvariant, PTL
        DEF WalkSpec, ImplementsWriter, Spec
=============================================================================
