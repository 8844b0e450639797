-------------------------- MODULE CopcOctreeProofs --------------------------
(***************************************************************************)
(* Lemmas about the octree.                                                *)
(***************************************************************************)
EXTENDS CopcOctree, FiniteSets, TLAPS, FiniteSetTheorems

-----------------------------------------------------------------------------
(* Arithmetic.                                                             *)

\* A set of naturals has a least element.
LEMMA LeastElement ==
  ASSUME NEW T \in SUBSET Nat, T # {}
  PROVE  \E m \in T : \A n \in T : m <= n
<1>1. IsWellFoundedOn(OpToRel(<, Nat), Nat)
  BY NatLessThanWellFounded
<1>2. PICK m \in T : \A n \in T : ~(<<n, m>> \in OpToRel(<, Nat))
  BY <1>1, WFMin
<1>3. ASSUME NEW n \in T PROVE m <= n
  <2>1. <<n, m>> \in Nat \X Nat /\ <<n, m>>[1] = n /\ <<n, m>>[2] = m
    OBVIOUS
  <2>2. ~(n < m)
    BY <1>2, <2>1 DEF OpToRel
  <2> QED BY <2>2
<1> QED BY <1>3

\* What holds at 0 and is handed on holds up to n.
LEMMA UpTo ==
  ASSUME NEW n \in Nat, NEW S, 0 \in S,
         \A m \in 0 .. (n - 1) : m \in S => m + 1 \in S
  PROVE  0 .. n \subseteq S
<1> DEFINE Bad == (0 .. n) \ S
<1>1. SUFFICES ASSUME Bad # {} PROVE FALSE
  OBVIOUS
<1>2. PICK m \in Bad : \A k \in Bad : m <= k
  BY <1>1, LeastElement, Bad \in SUBSET Nat
<1>3. m - 1 \in 0 .. (n - 1) /\ m - 1 \notin Bad
  BY <1>2
<1>4. (m - 1) + 1 = m
  BY <1>2
<1> QED BY <1>2, <1>3, <1>4

\* The laws of the powers of two, by counting subsets.
LEMMA PowersOfTwo ==
  ASSUME NEW n \in Nat
  PROVE  2^n \in Nat \ {0} /\ 2^(n + 1) = 2 * 2^n
<1> DEFINE S == 1 .. n
           x == n + 1
           With == { T \cup {x} : T \in SUBSET S }
<1>1. /\ IsFiniteSet(S) /\ Cardinality(S) = n /\ x \notin S
      /\ IsFiniteSet(S \cup {x}) /\ Cardinality(S \cup {x}) = n + 1
  <2>1. IsFiniteSet(S) /\ Cardinality(S) = n
    <3>1. 1 \in Int /\ n \in Int
      OBVIOUS
    <3>2. IsFiniteSet(S) /\ Cardinality(S) = IF 1 > n THEN 0 ELSE n - 1 + 1
      BY <3>1, FS_Interval
    <3> QED BY <3>2
  <2>2. x \notin S
    OBVIOUS
  <2> HIDE DEF S, x
  <2>3. IsFiniteSet(S \cup {x}) /\ Cardinality(S \cup {x}) = Cardinality(S) + 1
    BY <2>1, <2>2, FS_AddElement
  <2> QED BY <2>1, <2>2, <2>3
<1>2. /\ IsFiniteSet(SUBSET S) /\ Cardinality(SUBSET S) = 2^n
      /\ IsFiniteSet(SUBSET (S \cup {x}))
      /\ Cardinality(SUBSET (S \cup {x})) = 2^(n + 1)
  BY <1>1, FS_SUBSET
<1>3. 2^n \in Nat \ {0}
  <2>1. SUBSET S # {}
    OBVIOUS
  <2> QED BY <1>2, <2>1, FS_CardinalityType, FS_EmptySet
<1>4. IsFiniteSet(With) /\ Cardinality(With) = 2^n
  <2> DEFINE f == [T \in SUBSET S |-> T \cup {x}]
  <2>1. f \in Surjection(SUBSET S, With)
    BY DEF Surjection
  <2>2. f \in Injection(SUBSET S, With)
    <3>1. \A T, U \in SUBSET S : T \cup {x} = U \cup {x} => T = U
      BY <1>1
    <3> QED BY <2>1, <3>1 DEF Surjection, Injection, IsInjective
  <2> HIDE DEF f, With
  <2> QED BY <1>2, <2>1, <2>2, FS_Surjection
<1>5. SUBSET (S \cup {x}) = (SUBSET S) \cup With
  <2>1. ASSUME NEW T \in SUBSET (S \cup {x}), x \in T
        PROVE  T \in With
    <3>1. T \ {x} \in SUBSET S /\ (T \ {x}) \cup {x} = T
      BY <2>1
    <3> QED BY <3>1
  <2>2. \A T \in SUBSET (S \cup {x}) : x \notin T => T \in SUBSET S
    OBVIOUS
  <2>3. With \subseteq SUBSET (S \cup {x})
    OBVIOUS
  <2> HIDE DEF With, S, x
  <2> QED BY <2>1, <2>2, <2>3
<1>6. (SUBSET S) \cap With = {}
  BY <1>1
<1>7. Cardinality((SUBSET S) \cup With) = 2^n + 2^n
  <2> HIDE DEF With
  <2>1. Cardinality((SUBSET S) \cup With) = 2^n + 2^n - Cardinality({})
    BY <1>2, <1>4, <1>6, FS_Union
  <2> QED BY <1>3, <2>1, FS_EmptySet
<1>8. 2^(n + 1) = 2^n + 2^n
  <2> HIDE DEF S, With, x
  <2> QED BY <1>2, <1>5, <1>7
<1>9. 2^n + 2^n = 2 * 2^n
  BY <1>3
<1> QED BY <1>3, <1>8, <1>9

\* The powers of two grow, and pass every number.
LEMMA PowersGrow ==
  ASSUME NEW n \in Nat
  PROVE  n < 2^n /\ \A m \in 0 .. n : 2^m <= 2^n
<1> DEFINE S == { k \in 0 .. n : k < 2^k /\ \A m \in 0 .. k : 2^m <= 2^k }
<1>1. 0 \in S
  <2>1. 2^0 = 1
    OBVIOUS
  <2>2. 0 .. 0 = {0} /\ 0 \in 0 .. n
    OBVIOUS
  <2>3. 0 < 2^0
    BY <2>1
  <2>4. \A m \in 0 .. 0 : 2^m <= 2^0
    <3>1. \A m \in 0 .. 0 : m = 0
      BY <2>2
    <3> QED BY <2>1, <3>1
  <2> QED BY <2>2, <2>3, <2>4
<1>2. ASSUME NEW k \in 0 .. (n - 1), k \in S
      PROVE  k + 1 \in S
  <2>1. k \in Nat /\ k + 1 \in 0 .. n /\ 0 .. (k + 1) = (0 .. k) \cup {k + 1}
    OBVIOUS
  <2>2. 2^k \in Nat \ {0} /\ 2^(k + 1) = 2 * 2^k
    BY <2>1, PowersOfTwo
  <2>3. k < 2^k /\ \A m \in 0 .. k : 2^m <= 2^k
    BY <1>2
  <2>4. k + 1 < 2^(k + 1)
    BY <2>1, <2>2, <2>3
  <2>5. ASSUME NEW m \in 0 .. k PROVE 2^m <= 2^(k + 1)
    <3>1. 2^m \in Nat /\ 2^m <= 2^k
      BY <2>3, PowersOfTwo
    <3> QED BY <2>2, <3>1
  <2>6. 2^(k + 1) <= 2^(k + 1)
    BY <2>2
  <2> QED BY <2>1, <2>4, <2>5, <2>6
<1>3. 0 .. n \subseteq S
  <2> HIDE DEF S
  <2> QED BY <1>1, <1>2, UpTo
<1>4. n \in 0 .. n
  OBVIOUS
<1> QED BY <1>3, <1>4

\* The quotients of indices.
LEMMA HalfOfChild ==
  ASSUME NEW p \in Int, NEW m \in Nat \ {0}, NEW b \in {0, 1}
  PROVE  (2 * p + b) \div (2 * m) = p \div m
<1> DEFINE q == p \div m
           r == p % m
<1>1. q \in Int /\ r \in 0 .. (m - 1) /\ p = m * q + r
  OBVIOUS
<1> HIDE DEF q, r
<1>2. 2 * p + b = (2 * m) * q + (2 * r + b)
  BY <1>1
<1>3. 2 * r + b \in 0 .. (2 * m - 1)
  BY <1>1
<1> QED BY <1>1, <1>2, <1>3 DEF q

LEMMA HalfOfQuotient ==
  ASSUME NEW p \in Int, NEW m \in Nat \ {0}
  PROVE  /\ p \div m = 2 * (p \div (2 * m)) + ((p \div m) % 2)
         /\ (p \div m) % 2 \in {0, 1}
         /\ p \div m \in Int /\ p \div (2 * m) \in Int
<1> DEFINE x == p \div m
           b == x % 2
           y == x \div 2
           r == p % m
<1>1. x \in Int /\ r \in 0 .. (m - 1) /\ p = m * x + r
  OBVIOUS
<1>2. y \in Int /\ b \in {0, 1} /\ x = 2 * y + b
  BY <1>1
<1> HIDE DEF x, y, b, r
<1>3. p = (2 * m) * y + (m * b + r)
  BY <1>1, <1>2
<1>4. m * b + r \in 0 .. (2 * m - 1)
  BY <1>1, <1>2
<1>5. p \div (2 * m) = y
  BY <1>2, <1>3, <1>4
<1> QED BY <1>1, <1>2, <1>5 DEF b, x

-----------------------------------------------------------------------------
(* Keys.                                                                   *)

Keys == [level : Nat, pos : [Axis -> Nat]]

LEMMA VoxelKeysAreKeys ==
  ASSUME NEW k \in VoxelKeys
  PROVE  /\ k \in Keys /\ k.level \in 0 .. MaxLevel
         /\ \A a \in Axis : k.pos[a] \in Nat /\ k.pos[a] < 2^k.level
         /\ k.level = 0 => k = Root
<1>1. MaxLevel \in Nat
  BY OctreeAssumption
<1>2. CASE k = Root
  BY <1>1, <1>2 DEF Root, Keys
<1>3. CASE k # Root
  <2>0. PICK l \in 1 .. MaxLevel :
          k \in {[level |-> l, pos |-> q] : q \in [Axis -> 0 .. (2^l - 1)]}
    BY <1>3 DEF VoxelKeys
  <2>1. PICK q \in [Axis -> 0 .. (2^l - 1)] : k = [level |-> l, pos |-> q]
    BY <2>0
  <2>2. l \in Nat /\ 2^l \in Nat /\ l # 0 /\ l \in 0 .. MaxLevel
    BY <1>1, PowersOfTwo
  <2>3. \A a \in Axis : q[a] \in 0 .. (2^l - 1)
    OBVIOUS
  <2>4. \A a \in Axis : q[a] \in Nat /\ q[a] < 2^l
    BY <2>2, <2>3
  <2>5. q \in [Axis -> Nat]
    BY <2>4
  <2> QED BY <2>1, <2>2, <2>4, <2>5 DEF Keys
<1> QED BY <1>2, <1>3

LEMMA ChildIsKey ==
  ASSUME NEW k \in Keys, NEW d \in Nat
  PROVE  /\ Child(k, d) \in Keys /\ Child(k, d).level = k.level + 1
         /\ \A a \in Axis : \E b \in {0, 1} :
              Child(k, d).pos[a] = 2 * k.pos[a] + b
<1>1. k.level \in Nat /\ \A a \in Axis : k.pos[a] \in Nat
  BY DEF Keys
<1>2. ASSUME NEW a \in Axis
      PROVE  (d \div 2^(a - 1)) % 2 \in {0, 1}
  <2>1. a - 1 \in Nat
    BY OctreeAssumption DEF Axis
  <2>2. 2^(a - 1) \in Nat \ {0}
    BY <2>1, PowersOfTwo
  <2>3. d \div 2^(a - 1) \in Int
    BY <2>2
  <2> QED BY <2>3
<1>3. \A a \in Axis : Child(k, d).pos[a]
                        = 2 * k.pos[a] + ((d \div 2^(a - 1)) % 2)
  BY DEF Child
<1>4. \A a \in Axis : Child(k, d).pos[a] \in Nat
  BY <1>1, <1>2, <1>3
<1>5. Child(k, d) \in Keys /\ Child(k, d).level = k.level + 1
  BY <1>1, <1>4 DEF Child, Keys
<1> QED BY <1>2, <1>3, <1>5

LEMMA AncestorOfSelf ==
  ASSUME NEW k \in Keys
  PROVE  Ancestor(k, k.level) = k
<1>1. k.level \in Nat /\ k.pos \in [Axis -> Nat]
      /\ k = [level |-> k.level, pos |-> k.pos]
  BY DEF Keys
<1>2. k.level - k.level = 0
  BY <1>1
<1>3. \A a \in Axis : k.pos[a] \div 2^(k.level - k.level) = k.pos[a]
  <2>1. 2^0 = 1
    OBVIOUS
  <2>2. \A x \in Nat : x \div 1 = x
    OBVIOUS
  <2> QED BY <1>1, <1>2, <2>1, <2>2
<1>4. k.pos = [a \in Axis |-> k.pos[a]]
  BY <1>1
<1> QED BY <1>1, <1>3, <1>4 DEF Ancestor

LEMMA AncestorOfChild ==
  ASSUME NEW k \in Keys, NEW d \in Nat, NEW l \in 0 .. k.level
  PROVE  Ancestor(Child(k, d), l) = Ancestor(k, l)
<1> DEFINE c == Child(k, d)
           m == k.level - l
<1>1. k.level \in Nat /\ \A a \in Axis : k.pos[a] \in Nat
  BY DEF Keys
<1>2. m \in Nat /\ c.level - l = m + 1
  <2>1. c.level = k.level + 1
    BY ChildIsKey
  <2> HIDE DEF c
  <2> QED BY <1>1, <2>1
<1>3. 2^m \in Nat \ {0} /\ 2^(m + 1) = 2 * 2^m
  BY <1>2, PowersOfTwo
<1>4. ASSUME NEW a \in Axis
      PROVE  c.pos[a] \div 2^(c.level - l) = k.pos[a] \div 2^(k.level - l)
  <2>1. PICK b \in {0, 1} : c.pos[a] = 2 * k.pos[a] + b
    BY ChildIsKey
  <2> HIDE DEF c, m
  <2>2. k.pos[a] \in Int
    BY <1>1
  <2>3. (2 * k.pos[a] + b) \div (2 * 2^m) = k.pos[a] \div 2^m
    BY <1>3, <2>2, HalfOfChild
  <2> QED BY <1>2, <1>3, <2>1, <2>3 DEF m
<1> HIDE DEF c
<1> QED BY <1>4 DEF Ancestor, c

LEMMA AncestorsOfChild ==
  ASSUME NEW k \in Keys, NEW d \in Nat
  PROVE  Ancestors(Child(k, d)) = Ancestors(k) \cup {k}
<1>1. k.level \in Nat /\ Child(k, d).level - 1 = k.level
  BY ChildIsKey DEF Keys
<1>2. 0 .. k.level = (0 .. (k.level - 1)) \cup {k.level}
  BY <1>1
<1>3. \A l \in 0 .. k.level : Ancestor(Child(k, d), l) = Ancestor(k, l)
  BY AncestorOfChild
<1>4. Ancestors(Child(k, d)) = { Ancestor(k, l) : l \in 0 .. k.level }
  BY <1>1, <1>3 DEF Ancestors
<1> QED BY <1>2, <1>4, AncestorOfSelf DEF Ancestors

LEMMA AncestorIsKey ==
  ASSUME NEW k \in Keys, NEW l \in 0 .. k.level
  PROVE  Ancestor(k, l) \in Keys /\ Ancestor(k, l).level = l
<1>1. k.level \in Nat /\ \A a \in Axis : k.pos[a] \in Nat
  BY DEF Keys
<1>2. k.level - l \in Nat /\ l \in Nat
  BY <1>1
<1>3. 2^(k.level - l) \in Nat \ {0}
  BY <1>2, PowersOfTwo
<1>4. \A a \in Axis : k.pos[a] \div 2^(k.level - l) \in Nat
  BY <1>1, <1>3
<1> QED BY <1>2, <1>4 DEF Ancestor, Keys

\* Any combination of upper and lower halves is a direction.
LEMMA EveryHalfIsADirection ==
  ASSUME NEW h \in [Axis -> {0, 1}]
  PROVE  \E d \in Directions : \A a \in Axis : (d \div 2^(a - 1)) % 2 = h[a]
<1>1. Axes \in {1, 2, 3}
  BY OctreeAssumption
<1>2. CASE Axes = 1
  <2> DEFINE d == h[1]
  <2>1. Axis = {1} /\ Directions = 0 .. 1
    BY <1>2 DEF Axis, Directions
  <2>2. h[1] \in {0, 1}
    BY <2>1
  <2>3. d \in Directions /\ (d \div 2^(1 - 1)) % 2 = h[1]
    BY <2>1, <2>2
  <2> QED BY <2>1, <2>3
<1>3. CASE Axes = 2
  <2> DEFINE d == h[1] + 2 * h[2]
  <2>1. Axis = {1, 2} /\ Directions = 0 .. 3
    BY <1>3 DEF Axis, Directions
  <2>2. h[1] \in {0, 1} /\ h[2] \in {0, 1}
    BY <2>1
  <2>3. d \in Directions /\ (d \div 2^(1 - 1)) % 2 = h[1]
        /\ (d \div 2^(2 - 1)) % 2 = h[2]
    BY <2>1, <2>2
  <2> QED BY <2>1, <2>3
<1>4. CASE Axes = 3
  <2> DEFINE d == h[1] + 2 * h[2] + 4 * h[3]
  <2>1. Axis = {1, 2, 3} /\ Directions = 0 .. 7
    BY <1>4 DEF Axis, Directions
  <2>2. h[1] \in {0, 1} /\ h[2] \in {0, 1} /\ h[3] \in {0, 1}
    BY <2>1
  <2>3. d \in Directions /\ (d \div 2^(1 - 1)) % 2 = h[1]
        /\ (d \div 2^(2 - 1)) % 2 = h[2] /\ (d \div 2^(3 - 1)) % 2 = h[3]
    BY <2>1, <2>2
  <2> QED BY <2>1, <2>3
<1> QED BY <1>1, <1>2, <1>3, <1>4

\* An ancestor is a child of the one above it.
LEMMA ChildOfAncestor ==
  ASSUME NEW j \in Keys, NEW l \in 0 .. (j.level - 1)
  PROVE  \E d \in Directions : Child(Ancestor(j, l), d) = Ancestor(j, l + 1)
<1> DEFINE m == j.level - (l + 1)
           h == [a \in Axis |-> (j.pos[a] \div 2^m) % 2]
<1>1. j.level \in Nat /\ \A a \in Axis : j.pos[a] \in Nat
  BY DEF Keys
<1>2. m \in Nat /\ j.level - l = m + 1 /\ l + 1 = l + 1
  BY <1>1
<1>3. 2^m \in Nat \ {0} /\ 2^(m + 1) = 2 * 2^m
  BY <1>2, PowersOfTwo
<1> HIDE DEF m
<1>4. \A a \in Axis : /\ (j.pos[a] \div 2^m) % 2 \in {0, 1}
                      /\ j.pos[a] \div 2^m = 2 * (j.pos[a] \div (2 * 2^m))
                                             + ((j.pos[a] \div 2^m) % 2)
  <2>1. \A p \in Int : /\ (p \div 2^m) % 2 \in {0, 1}
                      /\ p \div 2^m = 2 * (p \div (2 * 2^m))
                                       + ((p \div 2^m) % 2)
    BY <1>3, HalfOfQuotient
  <2> QED BY <1>1, <2>1
<1>5. h \in [Axis -> {0, 1}]
  BY <1>4
<1>6. PICK d \in Directions : \A a \in Axis : (d \div 2^(a - 1)) % 2 = h[a]
  BY <1>5, EveryHalfIsADirection
<1>7. \A a \in Axis :
        2 * (j.pos[a] \div 2^(j.level - l)) + ((d \div 2^(a - 1)) % 2)
          = j.pos[a] \div 2^m
  BY <1>2, <1>3, <1>4, <1>6
<1>8. Child(Ancestor(j, l), d) =
        [level |-> l + 1,
         pos |-> [a \in Axis |-> 2 * (j.pos[a] \div 2^(j.level - l))
                                   + ((d \div 2^(a - 1)) % 2)]]
  BY DEF Child, Ancestor
<1>9. Ancestor(j, l + 1) =
        [level |-> l + 1, pos |-> [a \in Axis |-> j.pos[a] \div 2^m]]
  BY DEF Ancestor, m
<1> QED BY <1>7, <1>8, <1>9

\* Below a key is what it, or one of its children, is an ancestor of.
Below(j, k) == j = k \/ k \in Ancestors(j)

LEMMA BelowAChild ==
  ASSUME NEW j \in Keys, NEW k \in Ancestors(j)
  PROVE  \E d \in Directions : Below(j, Child(k, d))
<1>1. PICK l \in 0 .. (j.level - 1) : k = Ancestor(j, l)
  BY DEF Ancestors
<1>2. PICK d \in Directions : Child(k, d) = Ancestor(j, l + 1)
  BY <1>1, ChildOfAncestor
<1>3. j.level \in Nat
  BY DEF Keys
<1>4. CASE l + 1 = j.level
  BY <1>2, <1>4, AncestorOfSelf DEF Below
<1>5. CASE l + 1 # j.level
  <2>1. l + 1 \in 0 .. (j.level - 1)
    BY <1>3, <1>5
  <2> QED BY <1>2, <2>1 DEF Below, Ancestors
<1> QED BY <1>2, <1>4, <1>5

LEMMA BelowTheRoot ==
  ASSUME NEW j \in VoxelKeys
  PROVE  Below(j, Root)
<1>1. /\ j \in Keys /\ j.level \in Nat
      /\ \A a \in Axis : j.pos[a] \in Nat /\ j.pos[a] < 2^j.level
      /\ j.level = 0 => j = Root
  BY VoxelKeysAreKeys DEF Keys
<1>2. CASE j.level = 0
  BY <1>1, <1>2 DEF Below
<1>3. CASE j.level # 0
  <2>1. 0 \in 0 .. (j.level - 1) /\ j.level - 0 = j.level
    BY <1>1, <1>3
  <2>2. 2^j.level \in Nat \ {0}
    BY <1>1, PowersOfTwo
  <2>3. \A a \in Axis : j.pos[a] \div 2^(j.level - 0) = 0
    BY <1>1, <2>1, <2>2
  <2>4. Ancestor(j, 0) = Root
    BY <2>3 DEF Ancestor, Root
  <2> QED BY <2>1, <2>4 DEF Below, Ancestors
<1> QED BY <1>2, <1>3

LEMMA KeysAreVoxelKeys ==
  ASSUME NEW k \in Keys, k.level \in 0 .. MaxLevel,
         \A a \in Axis : k.pos[a] < 2^k.level
  PROVE  k \in VoxelKeys
<1>1. /\ k.level \in Nat /\ k.pos \in [Axis -> Nat]
      /\ k = [level |-> k.level, pos |-> k.pos]
  BY DEF Keys
<1>2. CASE k.level = 0
  <2>1. 2^0 = 1
    OBVIOUS
  <2>2. \A a \in Axis : k.pos[a] = 0
    BY <1>1, <1>2, <2>1
  <2>3. k.pos = [a \in Axis |-> 0]
    BY <1>1, <2>2
  <2> QED BY <1>1, <1>2, <2>3 DEF VoxelKeys, Root
<1>3. CASE k.level # 0
  <2>1. k.level \in 1 .. MaxLevel
    BY <1>3, OctreeAssumption
  <2>2. 2^k.level \in Nat \ {0}
    BY <1>1, PowersOfTwo
  <2>3. \A a \in Axis : k.pos[a] \in 0 .. (2^k.level - 1)
    BY <1>1, <2>2
  <2>4. k.pos \in [Axis -> 0 .. (2^k.level - 1)]
    BY <1>1, <2>3
  <2> QED BY <1>1, <2>1, <2>4 DEF VoxelKeys
<1> QED BY <1>2, <1>3

\* The parent of a voxel, and the children of one above the lowest level.
LEMMA ParentIsVoxelKey ==
  ASSUME NEW k \in VoxelKeys, k # Root
  PROVE  /\ k.level \in 1 .. MaxLevel
         /\ Parent(k) \in VoxelKeys /\ Parent(k).level = k.level - 1
         /\ Ancestors(k) = Ancestors(Parent(k)) \cup {Parent(k)}
         /\ k \in Children(Parent(k))
<1> DEFINE l == k.level - 1
           j == Ancestor(k, l)
<1>1. /\ k \in Keys /\ k.level \in 0 .. MaxLevel /\ k.level # 0
      /\ \A a \in Axis : k.pos[a] \in Nat /\ k.pos[a] < 2^k.level
  BY VoxelKeysAreKeys
<1>2. /\ k.level \in 1 .. MaxLevel /\ l \in 0 .. MaxLevel /\ l \in Nat
      /\ l \in 0 .. k.level /\ l + 1 = k.level /\ k.level - l = 1
      /\ l \in 0 .. (k.level - 1)
  BY <1>1, OctreeAssumption
<1> HIDE DEF l
<1>3. j \in Keys /\ j.level = l
  BY <1>1, <1>2, AncestorIsKey
<1>4. \A a \in Axis : j.pos[a] < 2^j.level
  <2>1. 2^l \in Nat \ {0} /\ 2^k.level = 2 * 2^l /\ 2^1 = 2
    BY <1>2, PowersOfTwo
  <2>2. \A a \in Axis : j.pos[a] = k.pos[a] \div 2
    BY <1>2, <2>1 DEF Ancestor
  <2>3. \A x, m \in Nat : x < 2 * m => x \div 2 < m
    OBVIOUS
  <2>4. \A a \in Axis : k.pos[a] \div 2 < 2^l
    BY <1>1, <2>1, <2>3
  <2> HIDE DEF j
  <2> QED BY <1>3, <2>2, <2>4
<1>5. j \in VoxelKeys
  <2> HIDE DEF j
  <2> QED BY <1>2, <1>3, <1>4, KeysAreVoxelKeys
<1>6. PICK d \in Directions : Child(j, d) = k
  BY <1>1, <1>2, ChildOfAncestor, AncestorOfSelf
<1>7. d \in Nat
  BY OctreeAssumption, PowersOfTwo DEF Directions
<1>8. Ancestors(k) = Ancestors(j) \cup {j}
  <2> HIDE DEF j
  <2> QED BY <1>3, <1>6, <1>7, AncestorsOfChild
<1>9. Parent(k) = j
  BY DEF Parent, l
<1>10. k \in Children(j)
  <2> HIDE DEF j
  <2> QED BY <1>6 DEF Children
<1> HIDE DEF j
<1> QED BY <1>2, <1>3, <1>5, <1>8, <1>9, <1>10 DEF l

LEMMA ChildIsVoxelKey ==
  ASSUME NEW k \in VoxelKeys, k.level < MaxLevel, NEW d \in Directions
  PROVE  /\ Child(k, d) \in VoxelKeys /\ Child(k, d).level = k.level + 1
         /\ Child(k, d) # Root
         /\ Ancestors(Child(k, d)) = Ancestors(k) \cup {k}
<1> DEFINE c == Child(k, d)
<1>1. /\ k \in Keys /\ k.level \in 0 .. MaxLevel
      /\ \A a \in Axis : k.pos[a] \in Nat /\ k.pos[a] < 2^k.level
  BY VoxelKeysAreKeys
<1>2. d \in Nat
  BY OctreeAssumption, PowersOfTwo DEF Directions
<1>3. /\ c \in Keys /\ c.level = k.level + 1
      /\ \A a \in Axis : \E b \in {0, 1} : c.pos[a] = 2 * k.pos[a] + b
  BY <1>1, <1>2, ChildIsKey
<1>4. 2^k.level \in Nat /\ 2^(k.level + 1) = 2 * 2^k.level
  BY <1>1, PowersOfTwo
<1>5. Ancestors(c) = Ancestors(k) \cup {k}
  BY <1>1, <1>2, AncestorsOfChild
<1> HIDE DEF c
<1>6. \A a \in Axis : c.pos[a] < 2^c.level
  BY <1>1, <1>3, <1>4
<1>7. c.level \in 0 .. MaxLevel /\ c.level # 0
  BY <1>1, <1>3, OctreeAssumption
<1>8. c # Root
  BY <1>7 DEF Root
<1>9. c \in VoxelKeys
  BY <1>3, <1>6, <1>7, KeysAreVoxelKeys
<1> QED BY <1>3, <1>5, <1>8, <1>9 DEF c

\* Different directions lead to different children.
LEMMA ChildrenAreDistinct ==
  ASSUME NEW k \in Keys, NEW d \in Directions, NEW e \in Directions,
         Child(k, d) = Child(k, e)
  PROVE  d = e
<1>1. Axes \in {1, 2, 3}
  BY OctreeAssumption
<1>2. \A a \in Axis : (d \div 2^(a - 1)) % 2 = (e \div 2^(a - 1)) % 2
  <2>1. \A a \in Axis : k.pos[a] \in Nat
    BY DEF Keys
  <2>2. \A a \in Axis :
          /\ (d \div 2^(a - 1)) % 2 \in Int /\ (e \div 2^(a - 1)) % 2 \in Int
          /\ 2 * k.pos[a] + ((d \div 2^(a - 1)) % 2)
               = 2 * k.pos[a] + ((e \div 2^(a - 1)) % 2)
    <3>1. Child(k, d).pos = Child(k, e).pos
      OBVIOUS
    <3>2. \A a \in Axis : a - 1 \in Nat
      BY OctreeAssumption DEF Axis
    <3>3. \A a \in Axis : 2^(a - 1) \in Nat \ {0}
      BY <3>2, PowersOfTwo
    <3>4. d \in Int /\ e \in Int
      BY DEF Directions
    <3>5. \A a \in Axis : /\ Child(k, d).pos[a] = 2 * k.pos[a] + ((d \div 2^(a - 1)) % 2)
                          /\ Child(k, e).pos[a] = 2 * k.pos[a] + ((e \div 2^(a - 1)) % 2)
      BY DEF Child
    <3> QED BY <3>1, <3>3, <3>4, <3>5
  <2> QED BY <2>1, <2>2
<1>3. CASE Axes = 1
  <2>1. 1 \in Axis /\ d \in 0 .. 1 /\ e \in 0 .. 1
    BY <1>3 DEF Axis, Directions
  <2>2. (d \div 2^(1 - 1)) % 2 = (e \div 2^(1 - 1)) % 2
    BY <1>2, <2>1
  <2> QED BY <2>1, <2>2
<1>4. CASE Axes = 2
  <2>1. 1 \in Axis /\ 2 \in Axis /\ d \in 0 .. 3 /\ e \in 0 .. 3
    BY <1>4 DEF Axis, Directions
  <2>2. /\ (d \div 2^(1 - 1)) % 2 = (e \div 2^(1 - 1)) % 2
        /\ (d \div 2^(2 - 1)) % 2 = (e \div 2^(2 - 1)) % 2
    BY <1>2, <2>1
  <2> QED BY <2>1, <2>2
<1>5. CASE Axes = 3
  <2>1. 1 \in Axis /\ 2 \in Axis /\ 3 \in Axis /\ d \in 0 .. 7 /\ e \in 0 .. 7
    BY <1>5 DEF Axis, Directions
  <2>2. /\ (d \div 2^(1 - 1)) % 2 = (e \div 2^(1 - 1)) % 2
        /\ (d \div 2^(2 - 1)) % 2 = (e \div 2^(2 - 1)) % 2
        /\ (d \div 2^(3 - 1)) % 2 = (e \div 2^(3 - 1)) % 2
    BY <1>2, <2>1
  <2> QED BY <2>1, <2>2
<1> QED BY <1>1, <1>3, <1>4, <1>5

\* What is above a child is above all that is below the child.
LEMMA AboveTheParent ==
  ASSUME NEW k \in Keys, NEW d \in Directions, NEW j \in Keys,
         Child(k, d) \in Ancestors(j)
  PROVE  k \in Ancestors(j)
<1>1. d \in Nat
  BY OctreeAssumption, PowersOfTwo DEF Directions
<1>2. PICK l \in 0 .. (j.level - 1) : Child(k, d) = Ancestor(j, l)
  BY DEF Ancestors
<1>3. j.level \in Nat /\ l \in 0 .. j.level /\ k.level \in Nat
  BY <1>2 DEF Keys
<1>4. l = k.level + 1
  <2>1. Child(k, d).level = k.level + 1
    BY <1>1, ChildIsKey
  <2>2. Ancestor(j, l).level = l
    BY <1>3, AncestorIsKey
  <2> QED BY <1>2, <2>1, <2>2
<1>5. l - 1 \in 0 .. (j.level - 1) /\ (l - 1) + 1 = l /\ l - 1 = k.level
      /\ l - 1 \in 0 .. j.level
  BY <1>2, <1>3, <1>4
<1> DEFINE i == Ancestor(j, l - 1)
<1>6. PICK e \in Directions : Child(i, e) = Ancestor(j, l)
  BY <1>5, ChildOfAncestor
<1>7. i \in Keys /\ i.level = k.level
  BY <1>5, AncestorIsKey
<1>8. i \in Ancestors(j)
  BY <1>5 DEF Ancestors
<1>9. e \in Nat
  BY OctreeAssumption, PowersOfTwo DEF Directions
<1> HIDE DEF i
<1>10. k.level \in 0 .. k.level /\ i.level \in 0 .. i.level
  BY <1>3, <1>7
<1>11. /\ Ancestor(Child(k, d), k.level) = k
       /\ Ancestor(Child(i, e), i.level) = i
  BY <1>1, <1>7, <1>9, <1>10, AncestorOfChild, AncestorOfSelf
<1> QED BY <1>2, <1>6, <1>7, <1>8, <1>11

LEMMA RootHasNoAncestors ==
  Root \in VoxelKeys /\ Root.level = 0 /\ Ancestors(Root) = {}
<1>1. 0 .. (0 - 1) = {}
  OBVIOUS
<1> QED BY <1>1 DEF Root, VoxelKeys, Ancestors

-----------------------------------------------------------------------------
(* The order of the walks.                                                 *)

LEMMA AncestorOfAncestor ==
  ASSUME NEW j \in Keys, NEW l \in 0 .. j.level, NEW m \in 0 .. l
  PROVE  Ancestor(Ancestor(j, l), m) = Ancestor(j, m)
<1> DEFINE n == j.level
           Same(i) == \A h \in 0 .. i : Ancestor(Ancestor(j, i), h) = Ancestor(j, h)
           S == { i \in 0 .. n : Same(n - i) }
<1>1. n \in Nat
  BY DEF Keys
<1>2. 0 \in S
  <2>1. n - 0 = n /\ 0 \in 0 .. n
    BY <1>1
  <2>2. Same(n)
    BY AncestorOfSelf
  <2> HIDE DEF Same, n
  <2> QED BY <2>1, <2>2
<1>3. ASSUME NEW i \in 0 .. (n - 1), i \in S
      PROVE  i + 1 \in S
  <2> DEFINE h == n - (i + 1)
             a == Ancestor(j, h)
  <2>1. /\ h \in 0 .. (n - 1) /\ h \in 0 .. n /\ h + 1 = n - i /\ i + 1 \in 0 .. n
        /\ h \in Nat
    BY <1>1
  <2>2. PICK d \in Directions : Child(a, d) = Ancestor(j, h + 1)
    BY <2>1, ChildOfAncestor
  <2>3. a \in Keys /\ a.level = h
    BY <2>1, AncestorIsKey
  <2>4. d \in Nat
    BY OctreeAssumption, PowersOfTwo DEF Directions
  <2>5. Same(h + 1)
    BY <1>3, <2>1
  <2> HIDE DEF a, h, n
  <2>6. ASSUME NEW g \in 0 .. h PROVE Ancestor(a, g) = Ancestor(j, g)
    <3>1. g \in 0 .. (h + 1)
      BY <2>1
    <3>2. Ancestor(Child(a, d), g) = Ancestor(a, g)
      BY <2>3, <2>4, AncestorOfChild
    <3> QED BY <2>2, <2>5, <3>1, <3>2
  <2>7. Same(h)
    BY <2>6 DEF a
  <2> HIDE DEF Same
  <2> QED BY <2>1, <2>7 DEF h
<1>4. 0 .. n \subseteq S
  <2> HIDE DEF S, n
  <2> QED BY <1>1, <1>2, <1>3, UpTo
<1>5. n - l \in 0 .. n /\ n - (n - l) = l
  BY <1>1
<1>6. Same(l)
  <2> HIDE DEF Same, n
  <2> QED BY <1>4, <1>5
<1> QED BY <1>6

\* A key has the ancestors of the keys it is below.
LEMMA BelowHasAncestors ==
  ASSUME NEW j \in Keys, NEW k \in Keys, Below(j, k)
  PROVE  /\ k.level \in Nat /\ k.level <= j.level /\ j.level \in Nat
         /\ Ancestor(j, k.level) = k
         /\ \A l \in 0 .. k.level : Ancestor(j, l) = Ancestor(k, l)
         /\ Ancestors(k) \subseteq Ancestors(j)
<1>1. j.level \in Nat /\ k.level \in Nat
  BY DEF Keys
<1>2. CASE j = k
  BY <1>1, <1>2, AncestorOfSelf
<1>3. CASE k \in Ancestors(j)
  <2>1. PICK m \in 0 .. (j.level - 1) : k = Ancestor(j, m)
    BY <1>3 DEF Ancestors
  <2>2. m \in 0 .. j.level /\ m \in Nat /\ m <= j.level
    BY <1>1
  <2>3. k.level = m
    BY <2>1, <2>2, AncestorIsKey
  <2>4. \A l \in 0 .. m : Ancestor(j, l) = Ancestor(k, l)
    BY <2>1, <2>2, AncestorOfAncestor
  <2>5. \A l \in 0 .. (m - 1) : l \in 0 .. m /\ l \in 0 .. (j.level - 1)
    BY <1>1
  <2>6. Ancestors(k) \subseteq Ancestors(j)
    BY <2>3, <2>4, <2>5 DEF Ancestors
  <2> QED BY <1>1, <2>1, <2>2, <2>3, <2>4, <2>6
<1> QED BY <1>2, <1>3 DEF Below

LEMMA DirectionOfChild ==
  ASSUME NEW k \in Keys, NEW d \in Directions
  PROVE  Direction(Child(k, d)) = d
<1>1. d \in Nat
  BY OctreeAssumption, PowersOfTwo DEF Directions
<1>2. k.level \in Nat /\ k.level \in 0 .. k.level
  BY DEF Keys
<1>3. Child(k, d).level - 1 = k.level
  <2>1. Child(k, d).level = k.level + 1
    BY <1>1, ChildIsKey
  <2> QED BY <1>2, <2>1
<1>4. Parent(Child(k, d)) = k
  BY <1>1, <1>2, <1>3, AncestorOfChild, AncestorOfSelf DEF Parent
<1>5. \A e \in Directions : Child(k, e) = Child(k, d) => e = d
  BY ChildrenAreDistinct
<1> QED BY <1>4, <1>5 DEF Direction

LEMMA DirectionIsNumber ==
  ASSUME NEW j \in Keys, NEW l \in 1 .. j.level
  PROVE  Direction(Ancestor(j, l)) \in Int
<1>1. j.level \in Nat
  BY DEF Keys
<1>2. l - 1 \in 0 .. (j.level - 1) /\ (l - 1) + 1 = l /\ l - 1 \in 0 .. j.level
  BY <1>1
<1>3. PICK d \in Directions : Child(Ancestor(j, l - 1), d) = Ancestor(j, l)
  BY <1>2, ChildOfAncestor
<1>4. Ancestor(j, l - 1) \in Keys
  BY <1>2, AncestorIsKey
<1>5. Direction(Ancestor(j, l)) = d
  BY <1>3, <1>4, DirectionOfChild
<1> QED BY <1>5 DEF Directions

\* The second case of VisitedBefore: the paths to j and k part, and that to
\* j is taken first.
Branch(j, k) ==
  \E l \in 1 .. MaxLevel :
    /\ l <= j.level /\ l <= k.level
    /\ Ancestor(j, l - 1) = Ancestor(k, l - 1)
    /\ Direction(Ancestor(j, l)) > Direction(Ancestor(k, l))

LEMMA BranchesBelow ==
  ASSUME NEW j \in Keys, NEW k \in Keys, Branch(j, k),
         NEW i \in Keys, NEW h \in Keys, Below(i, j), Below(h, k)
  PROVE  Branch(i, h)
<1>1. PICK l \in 1 .. MaxLevel :
        /\ l <= j.level /\ l <= k.level
        /\ Ancestor(j, l - 1) = Ancestor(k, l - 1)
        /\ Direction(Ancestor(j, l)) > Direction(Ancestor(k, l))
  BY DEF Branch
<1>2. /\ j.level \in Nat /\ j.level <= i.level /\ i.level \in Nat
      /\ \A m \in 0 .. j.level : Ancestor(i, m) = Ancestor(j, m)
  BY BelowHasAncestors
<1>3. /\ k.level \in Nat /\ k.level <= h.level /\ h.level \in Nat
      /\ \A m \in 0 .. k.level : Ancestor(h, m) = Ancestor(k, m)
  BY BelowHasAncestors
<1>4. /\ l \in 0 .. j.level /\ l - 1 \in 0 .. j.level
      /\ l \in 0 .. k.level /\ l - 1 \in 0 .. k.level
      /\ l <= i.level /\ l <= h.level
  BY <1>1, <1>2, <1>3, OctreeAssumption
<1>5. /\ Ancestor(i, l) = Ancestor(j, l) /\ Ancestor(i, l - 1) = Ancestor(j, l - 1)
      /\ Ancestor(h, l) = Ancestor(k, l) /\ Ancestor(h, l - 1) = Ancestor(k, l - 1)
  BY <1>2, <1>3, <1>4
<1> QED BY <1>1, <1>4, <1>5 DEF Branch

LEMMA VisitedBeforeBelow ==
  ASSUME NEW j \in Keys, NEW k \in Keys, VisitedBefore(j, k),
         NEW h \in Keys, Below(h, k)
  PROVE  VisitedBefore(j, h)
<1>1. CASE j \in Ancestors(k)
  BY <1>1, BelowHasAncestors DEF VisitedBefore
<1>2. CASE Branch(j, k)
  <2>1. Below(j, j)
    BY DEF Below
  <2>2. Branch(j, h)
    BY <1>2, <2>1, BranchesBelow
  <2> QED BY <2>2 DEF VisitedBefore, Branch
<1> QED BY <1>1, <1>2 DEF VisitedBefore, Branch

\* Siblings are visited in the reverse order of their directions.
LEMMA SiblingsBranch ==
  ASSUME NEW k \in VoxelKeys, k.level < MaxLevel,
         NEW d \in Directions, NEW e \in Directions, d > e
  PROVE  Branch(Child(k, d), Child(k, e))
<1>1. k \in Keys /\ k.level \in Nat /\ MaxLevel \in Nat
  BY VoxelKeysAreKeys, OctreeAssumption DEF Keys
<1>2. \A c \in Directions :
        /\ Child(k, c) \in Keys /\ Child(k, c).level = k.level + 1
        /\ Ancestor(Child(k, c), k.level) = k
        /\ Ancestor(Child(k, c), k.level + 1) = Child(k, c)
  <2>1. ASSUME NEW c \in Directions
        PROVE  /\ Child(k, c) \in Keys /\ Child(k, c).level = k.level + 1
               /\ Ancestor(Child(k, c), k.level) = k
               /\ Ancestor(Child(k, c), k.level + 1) = Child(k, c)
    <3>1. c \in Nat
      BY OctreeAssumption, PowersOfTwo DEF Directions
    <3>2. Child(k, c) \in Keys /\ Child(k, c).level = k.level + 1
      BY <1>1, <3>1, ChildIsKey
    <3>3. k.level \in 0 .. k.level
      BY <1>1
    <3>4. Ancestor(Child(k, c), k.level) = Ancestor(k, k.level)
      BY <1>1, <3>1, <3>3, AncestorOfChild
    <3>5. Ancestor(Child(k, c), Child(k, c).level) = Child(k, c)
      BY <3>2, AncestorOfSelf
    <3> QED BY <1>1, <3>2, <3>4, <3>5, AncestorOfSelf
  <2> QED BY <2>1
<1> DEFINE l == k.level + 1
<1>3. l \in 1 .. MaxLevel /\ l - 1 = k.level /\ l <= l
  BY <1>1
<1>4. Direction(Child(k, d)) = d /\ Direction(Child(k, e)) = e
  BY <1>1, DirectionOfChild
<1>5. /\ l <= Child(k, d).level /\ l <= Child(k, e).level
      /\ Ancestor(Child(k, d), l - 1) = Ancestor(Child(k, e), l - 1)
      /\ Direction(Ancestor(Child(k, d), l)) > Direction(Ancestor(Child(k, e), l))
  BY <1>2, <1>3, <1>4
<1> HIDE DEF l
<1> QED BY <1>3, <1>5 DEF Branch

\* No two keys are visited before each other, no key before itself.
LEMMA VisitedOnce ==
  ASSUME NEW j \in Keys, NEW k \in Keys, VisitedBefore(j, k)
  PROVE  ~VisitedBefore(k, j)
<1>1. j.level \in Nat /\ k.level \in Nat
  BY DEF Keys
\* A branch does not part from what is above it.
<1>2. ASSUME NEW i \in Keys, NEW h \in Keys, i \in Ancestors(h)
      PROVE  ~Branch(h, i) /\ ~Branch(i, h) /\ i.level < h.level
  <2>1. i.level < h.level
    <3>1. PICK m \in 0 .. (h.level - 1) : i = Ancestor(h, m)
      BY <1>2 DEF Ancestors
    <3>2. i.level = m
      BY <3>1 DEF Ancestor
    <3>3. h.level \in Nat
      BY DEF Keys
    <3> QED BY <3>2, <3>3
  <2>2. /\ i.level \in Nat /\ h.level \in Nat
        /\ \A l \in 0 .. i.level : Ancestor(h, l) = Ancestor(i, l)
    BY <1>2, BelowHasAncestors DEF Below
  <2>3. SUFFICES ASSUME NEW l \in 1 .. MaxLevel, l <= i.level,
                        \/ Direction(Ancestor(h, l)) > Direction(Ancestor(i, l))
                        \/ Direction(Ancestor(i, l)) > Direction(Ancestor(h, l))
                 PROVE  FALSE
    BY <2>1 DEF Branch
  <2>4. l \in 0 .. i.level /\ l \in 1 .. i.level
    BY <2>2, <2>3
  <2>5. Ancestor(h, l) = Ancestor(i, l) /\ Direction(Ancestor(i, l)) \in Int
    BY <2>2, <2>4, DirectionIsNumber
  <2> QED BY <2>3, <2>5
<1>3. ASSUME Branch(j, k), Branch(k, j) PROVE FALSE
  <2>1. PICK l \in 1 .. MaxLevel :
          /\ l <= j.level /\ l <= k.level
          /\ Ancestor(j, l - 1) = Ancestor(k, l - 1)
          /\ Direction(Ancestor(j, l)) > Direction(Ancestor(k, l))
    BY <1>3 DEF Branch
  <2>2. PICK m \in 1 .. MaxLevel :
          /\ m <= j.level /\ m <= k.level
          /\ Ancestor(k, m - 1) = Ancestor(j, m - 1)
          /\ Direction(Ancestor(k, m)) > Direction(Ancestor(j, m))
    BY <1>3 DEF Branch
  <2>3. /\ l \in 1 .. j.level /\ l \in 1 .. k.level
        /\ m \in 1 .. j.level /\ m \in 1 .. k.level
        /\ l - 1 \in 0 .. j.level /\ m - 1 \in 0 .. j.level
        /\ l - 1 \in 0 .. k.level /\ m - 1 \in 0 .. k.level
        /\ l \in Nat /\ m \in Nat
    BY <1>1, <2>1, <2>2, OctreeAssumption
  <2>4. /\ Direction(Ancestor(j, l)) \in Int /\ Direction(Ancestor(k, l)) \in Int
        /\ Direction(Ancestor(j, m)) \in Int /\ Direction(Ancestor(k, m)) \in Int
    BY <2>3, DirectionIsNumber
  \* The upper one of the two levels lies above the lower one's parting.
  <2>5. CASE l < m
    <3>1. l \in 0 .. (m - 1)
      BY <2>3, <2>5
    <3>2. /\ Ancestor(Ancestor(j, m - 1), l) = Ancestor(j, l)
          /\ Ancestor(Ancestor(k, m - 1), l) = Ancestor(k, l)
      BY <2>3, <3>1, AncestorOfAncestor
    <3> QED BY <2>1, <2>2, <2>4, <3>2
  <2>6. CASE m < l
    <3>1. m \in 0 .. (l - 1)
      BY <2>3, <2>6
    <3>2. /\ Ancestor(Ancestor(j, l - 1), m) = Ancestor(j, m)
          /\ Ancestor(Ancestor(k, l - 1), m) = Ancestor(k, m)
      BY <2>3, <3>1, AncestorOfAncestor
    <3> QED BY <2>1, <2>2, <2>4, <3>2
  <2>7. CASE l = m
    BY <2>1, <2>2, <2>4, <2>7
  <2> QED BY <2>3, <2>5, <2>6, <2>7
<1>4. \A i, h : VisitedBefore(i, h) <=> i \in Ancestors(h) \/ Branch(i, h)
  BY DEF VisitedBefore, Branch
<1>5. ~(j \in Ancestors(k) /\ k \in Ancestors(j))
  <2>1. ASSUME j \in Ancestors(k), k \in Ancestors(j) PROVE FALSE
    BY <1>1, <1>2, <2>1
  <2> QED BY <2>1
<1> QED BY <1>2, <1>3, <1>4, <1>5

-----------------------------------------------------------------------------
(* Bounds.                                                                 *)

Boxes == [min : [Axis -> Int], max : [Axis -> Int]]

\* The side of a voxel.
Side(l) == (2 * halfsize) \div 2^l

\* The rounding error of the uppermost face is less than any voxel.
GapsAreSmall == \A a \in Axis : FaceGap[a] <= Side(MaxLevel)

LEMMA HalfsizeIsPositive == halfsize \in Nat \ {0} /\ RootBounds \in Boxes
<1> DEFINE H == { Center[a] - HeaderMin[a] : a \in Axis }
<1>1. ASSUME NEW a \in Axis
      PROVE  /\ Center[a] \in Int /\ Center[a] - HeaderMin[a] \in Nat \ {0}
  <2>1. /\ HeaderMin[a] \in Int /\ HeaderMax[a] \in Int
        /\ HeaderMin[a] < HeaderMax[a]
        /\ (HeaderMin[a] + HeaderMax[a]) % 2 = 0
    BY OctreeAssumption
  <2>2. Center[a] = (HeaderMin[a] + HeaderMax[a]) \div 2
    BY DEF Center
  <2> QED BY <2>1, <2>2
<1>2. \E h \in H : \A a \in Axis : Center[a] - HeaderMin[a] <= h
  <2>1. Axes \in {1, 2, 3}
    BY OctreeAssumption
  <2> DEFINE x(a) == Center[a] - HeaderMin[a]
  <2>2. \A a \in Axis : x(a) \in Nat
    BY <1>1
  <2> HIDE DEF x
  <2>3. \E b \in Axis : \A a \in Axis : x(a) <= x(b)
    <3>1. CASE Axes = 1
      <4>1. Axis = {1}
        BY <3>1 DEF Axis
      <4> QED BY <2>2, <4>1
    <3>2. CASE Axes = 2
      <4>1. Axis = {1, 2}
        BY <3>2 DEF Axis
      <4> QED BY <2>2, <4>1
    <3>3. CASE Axes = 3
      <4>1. Axis = {1, 2, 3}
        BY <3>3 DEF Axis
      <4> QED BY <2>2, <4>1
    <3> QED BY <2>1, <3>1, <3>2, <3>3
  <2> QED BY <2>3 DEF x
<1>3. halfsize \in H
  BY <1>2 DEF halfsize
<1>4. halfsize \in Nat \ {0}
  BY <1>1, <1>3
<1>5. RootBounds \in Boxes
  BY <1>1, <1>4 DEF RootBounds, Boxes
<1> QED BY <1>4, <1>5

\* Division without a remainder.
LEMMA Quotient ==
  ASSUME NEW x \in Int, NEW m \in Nat \ {0}
  PROVE  (m * x) \div m = x
OBVIOUS

LEMMA SidesAreHalved ==
  ASSUME NEW l \in 0 .. MaxLevel
  PROVE  /\ Side(l) \in Nat /\ 2^l * Side(l) = 2 * halfsize
         /\ Side(MaxLevel) <= Side(l)
         /\ l # MaxLevel => Side(l) = 2 * Side(l + 1)
<1> DEFINE S == 2 * halfsize
           Good(n) == /\ Side(n) \in Nat /\ 2^n * Side(n) = S
                      /\ Side(MaxLevel) <= Side(n)
           G == { n \in 0 .. MaxLevel : Good(MaxLevel - n) }
<1>1. MaxLevel \in Nat /\ S \in Nat
  BY HalfsizeIsPositive, OctreeAssumption
<1>2. 0 \in G
  <2>1. 2^MaxLevel \in Nat \ {0} /\ S % 2^MaxLevel = 0
    BY <1>1, PowersOfTwo, GridAssumption
  <2>2. Side(MaxLevel) = S \div 2^MaxLevel
    BY DEF Side
  <2> HIDE DEF S
  <2>3. \A m \in Nat \ {0} :
          S % m = 0 => m * (S \div m) = S /\ S \div m \in Nat
    BY <1>1
  <2>4. Good(MaxLevel)
    BY <2>1, <2>2, <2>3, <1>1
  <2>5. MaxLevel - 0 = MaxLevel /\ 0 \in 0 .. MaxLevel
    BY <1>1
  <2> HIDE DEF Good
  <2> QED BY <2>4, <2>5
<1>3. ASSUME NEW n \in 0 .. (MaxLevel - 1), Good(n + 1)
      PROVE  Good(n) /\ Side(n) = 2 * Side(n + 1)
  <2>1. n \in Nat
    OBVIOUS
  <2>2. 2^n \in Nat \ {0} /\ 2^(n + 1) = 2 * 2^n
    BY <2>1, PowersOfTwo
  <2> DEFINE m == 2^n
             w == Side(n + 1)
             v == Side(MaxLevel)
  <2>3. w \in Nat /\ (2 * m) * w = S /\ v <= w
    BY <1>3, <2>2
  <2>4. Side(n) = S \div m
    BY DEF Side
  <2>5. v = S \div 2^MaxLevel /\ 2^MaxLevel \in Nat \ {0}
    BY <1>1, PowersOfTwo DEF Side
  <2>6. v \in Nat
    <3> HIDE DEF S
    <3> QED BY <1>1, <2>5
  <2>7. m \in Nat \ {0}
    BY <2>2
  <2> HIDE DEF m, w, v, S
  <2>8. m * (2 * w) = S
    BY <2>3, <2>7
  <2>9. S \div m = 2 * w
    BY <2>3, <2>7, <2>8, Quotient, 2 * w \in Int
  <2>10. v <= 2 * w
    BY <2>3, <2>6
  <2> QED BY <2>3, <2>4, <2>8, <2>9, <2>10 DEF m, w, v
<1>4. ASSUME NEW n \in 0 .. (MaxLevel - 1), n \in G
      PROVE  n + 1 \in G
  <2>1. MaxLevel - (n + 1) \in 0 .. (MaxLevel - 1)
        /\ (MaxLevel - (n + 1)) + 1 = MaxLevel - n
        /\ n + 1 \in 0 .. MaxLevel
    BY <1>1
  <2>2. Good(MaxLevel - n)
    BY <1>4
  <2> HIDE DEF Good
  <2>3. Good(MaxLevel - (n + 1))
    BY <1>3, <2>1, <2>2
  <2> QED BY <2>1, <2>3
<1>5. 0 .. MaxLevel \subseteq G
  <2> HIDE DEF G
  <2> QED BY <1>1, <1>2, <1>4, UpTo
<1>6. \A n \in 0 .. MaxLevel : Good(n)
  <2> HIDE DEF Good
  <2>1. ASSUME NEW n \in 0 .. MaxLevel PROVE Good(n)
    <3>1. MaxLevel - n \in 0 .. MaxLevel /\ MaxLevel - (MaxLevel - n) = n
      BY <1>1
    <3> QED BY <1>5, <3>1
  <2> QED BY <2>1
<1>7. l # MaxLevel => Side(l) = 2 * Side(l + 1)
  <2>1. l # MaxLevel => l \in 0 .. (MaxLevel - 1) /\ l + 1 \in 0 .. MaxLevel
    BY <1>1
  <2> HIDE DEF Good
  <2> QED BY <1>3, <1>6, <2>1
<1> QED BY <1>6, <1>7

\* The bounds of a voxel that is not below the grid.
LEMMA VoxelBoundsAreBoxes ==
  ASSUME GapsAreSmall, NEW k \in Keys, k.level \in 0 .. MaxLevel
  PROVE  /\ VoxelBounds(k) \in Boxes
         /\ \A a \in Axis : VoxelBounds(k).min[a] <= VoxelBounds(k).max[a]
<1>1. k.level \in Nat /\ \A a \in Axis : k.pos[a] \in Nat
  BY DEF Keys
<1> DEFINE s == Side(k.level)
           gap(a) == IF k.pos[a] + 1 = 2^k.level THEN FaceGap[a] ELSE 0
<1>2. s \in Nat /\ Side(MaxLevel) <= s /\ Side(MaxLevel) \in Nat
  <2>1. MaxLevel \in 0 .. MaxLevel
    BY OctreeAssumption
  <2> QED BY <2>1, SidesAreHalved
<1> HIDE DEF s
<1>3. \A a \in Axis : gap(a) \in Nat /\ gap(a) <= s
  BY <1>2, OctreeAssumption DEF GapsAreSmall
<1> HIDE DEF gap
<1>4. \A a \in Axis : RootBounds.min[a] \in Int
  BY HalfsizeIsPositive DEF Boxes
<1>5. VoxelBounds(k) =
        [min |-> [a \in Axis |-> RootBounds.min[a] + k.pos[a] * s],
         max |-> [a \in Axis |-> RootBounds.min[a] + k.pos[a] * s + s - gap(a)]]
  BY DEF VoxelBounds, s, gap, Side
<1>6. \A a \in Axis : k.pos[a] * s \in Int
  BY <1>1, <1>2
<1>7. ASSUME NEW a \in Axis
      PROVE  /\ VoxelBounds(k).min[a] \in Int /\ VoxelBounds(k).max[a] \in Int
             /\ VoxelBounds(k).min[a] <= VoxelBounds(k).max[a]
  BY <1>2, <1>3, <1>4, <1>5, <1>6
<1>8. VoxelBounds(k) \in Boxes
  BY <1>2, <1>3, <1>4, <1>5, <1>6 DEF Boxes
<1> QED BY <1>7, <1>8

\* A child lies in its parent.
LEMMA ChildIsInside ==
  ASSUME GapsAreSmall, NEW k \in Keys, NEW d \in Nat,
         k.level \in 0 .. (MaxLevel - 1)
  PROVE  \A a \in Axis :
           /\ VoxelBounds(k).min[a] <= VoxelBounds(Child(k, d)).min[a]
           /\ VoxelBounds(Child(k, d)).max[a] <= VoxelBounds(k).max[a]
<1> DEFINE c == Child(k, d)
           s == Side(k.level + 1)
           P == 2^k.level
<1>1. SUFFICES ASSUME NEW a \in Axis
               PROVE  /\ VoxelBounds(k).min[a] <= VoxelBounds(c).min[a]
                      /\ VoxelBounds(c).max[a] <= VoxelBounds(k).max[a]
  OBVIOUS
<1>2. k.level \in Nat /\ k.pos[a] \in Nat
  BY DEF Keys
<1>3. PICK b \in {0, 1} : c.pos[a] = 2 * k.pos[a] + b
  BY ChildIsKey
<1>4. c.level = k.level + 1
  BY ChildIsKey
<1>5. P \in Nat \ {0} /\ 2^(k.level + 1) = 2 * P
  BY <1>2, PowersOfTwo
<1>6. /\ s \in Nat /\ Side(MaxLevel) <= s /\ Side(MaxLevel) \in Nat
      /\ Side(k.level) = 2 * s
  <2>1. /\ MaxLevel \in 0 .. MaxLevel /\ k.level \in 0 .. MaxLevel
        /\ k.level + 1 \in 0 .. MaxLevel /\ k.level # MaxLevel
    BY OctreeAssumption
  <2> QED BY <2>1, SidesAreHalved
<1> DEFINE gk == IF k.pos[a] + 1 = P THEN FaceGap[a] ELSE 0
           gc == IF 2 * k.pos[a] + b + 1 = 2 * P THEN FaceGap[a] ELSE 0
           r == RootBounds.min[a]
           p == k.pos[a]
<1>7. r \in Int /\ p \in Nat
  BY <1>2, HalfsizeIsPositive DEF Boxes
<1>8. /\ VoxelBounds(k).min[a] = r + p * (2 * s)
      /\ VoxelBounds(k).max[a] = r + p * (2 * s) + 2 * s - gk
  BY <1>6 DEF VoxelBounds, Side
<1>9. /\ VoxelBounds(c).min[a] = r + (2 * p + b) * s
      /\ VoxelBounds(c).max[a] = r + (2 * p + b) * s + s - gc
  <2> HIDE DEF c
  <2> QED BY <1>3, <1>4, <1>5 DEF VoxelBounds, Side
<1>10. /\ gk \in Nat /\ gk <= s /\ gc \in Nat
       /\ b = 1 => gc = gk
       /\ b = 0 => gc = 0
  <2>1. FaceGap[a] \in Nat /\ FaceGap[a] <= Side(MaxLevel)
    BY OctreeAssumption DEF GapsAreSmall
  <2>2. P \in Nat
    BY <1>5
  <2> HIDE DEF s, P
  <2>3. 2 * k.pos[a] + b + 1 = 2 * P <=> b = 1 /\ k.pos[a] + 1 = P
    <3>1. \A q, m \in Nat : 2 * q + 0 + 1 # 2 * m
      OBVIOUS
    <3>2. \A q, m \in Nat : 2 * q + 1 + 1 = 2 * m <=> q + 1 = m
      OBVIOUS
    <3> QED BY <1>2, <1>3, <2>2, <3>1, <3>2
  <2>4. FaceGap[a] <= s
    BY <1>6, <2>1
  <2> QED BY <1>6, <2>1, <2>3, <2>4
<1> HIDE DEF c, s, P, gk, gc, r, p
<1>11. (2 * p + b) * s = p * (2 * s) + b * s /\ p * (2 * s) \in Int
  BY <1>6, <1>7
<1>12. CASE b = 0
  BY <1>6, <1>7, <1>8, <1>9, <1>10, <1>11, <1>12
<1>13. CASE b = 1
  BY <1>6, <1>7, <1>8, <1>9, <1>10, <1>11, <1>13
<1> QED BY <1>12, <1>13

\* So does everything below it.
LEMMA VoxelIsInsideAncestors ==
  ASSUME GapsAreSmall, NEW j \in Keys, j.level \in 0 .. MaxLevel,
         NEW k \in Ancestors(j)
  PROVE  \A a \in Axis :
           /\ VoxelBounds(k).min[a] <= VoxelBounds(j).min[a]
           /\ VoxelBounds(j).max[a] <= VoxelBounds(k).max[a]
<1> DEFINE Inside(i) ==
             \A a \in Axis :
               /\ VoxelBounds(i).min[a] <= VoxelBounds(j).min[a]
               /\ VoxelBounds(j).max[a] <= VoxelBounds(i).max[a]
           n == j.level
           S == { m \in 0 .. n : Inside(Ancestor(j, n - m)) }
<1>1. n \in Nat /\ MaxLevel \in Nat /\ n <= MaxLevel
  BY OctreeAssumption DEF Keys
<1>2. Inside(j)
  <2>1. VoxelBounds(j) \in Boxes
    BY VoxelBoundsAreBoxes
  <2> QED BY <2>1 DEF Boxes
<1>3. 0 \in S
  <2>1. n - 0 = n /\ 0 \in 0 .. n
    BY <1>1
  <2> HIDE DEF Inside
  <2> QED BY <1>2, <2>1, AncestorOfSelf
<1>4. ASSUME NEW m \in 0 .. (n - 1), m \in S
      PROVE  m + 1 \in S
  <2> DEFINE l == n - (m + 1)
             i == Ancestor(j, l)
  <2>1. /\ l \in 0 .. (n - 1) /\ l + 1 = n - m /\ m + 1 \in 0 .. n
        /\ l \in 0 .. n /\ n - m \in 0 .. n /\ l \in 0 .. (MaxLevel - 1)
        /\ n - m \in 0 .. MaxLevel
    BY <1>1
  <2>2. PICK d \in Directions : Child(i, d) = Ancestor(j, l + 1)
    BY <2>1, ChildOfAncestor
  <2>3. /\ i \in Keys /\ i.level = l
        /\ Ancestor(j, n - m) \in Keys /\ Ancestor(j, n - m).level = n - m
    BY <2>1, AncestorIsKey
  <2>4. d \in Nat
    BY <2>2, OctreeAssumption, PowersOfTwo DEF Directions
  <2>5. \A a \in Axis :
           /\ VoxelBounds(i).min[a] <= VoxelBounds(Ancestor(j, n - m)).min[a]
           /\ VoxelBounds(Ancestor(j, n - m)).max[a] <= VoxelBounds(i).max[a]
    <3>1. Ancestor(j, n - m) = Child(i, d)
      BY <2>1, <2>2
    <3> HIDE DEF i
    <3> QED BY <2>1, <2>3, <2>4, <3>1, ChildIsInside
  <2>6. /\ VoxelBounds(i) \in Boxes /\ VoxelBounds(Ancestor(j, n - m)) \in Boxes
        /\ VoxelBounds(j) \in Boxes
    <3>1. l \in 0 .. MaxLevel
      <4> HIDE DEF l
      <4> QED BY <1>1, <2>1
    <3> HIDE DEF i, l
    <3> QED BY <2>1, <2>3, <3>1, VoxelBoundsAreBoxes
  <2>7. Inside(Ancestor(j, n - m))
    BY <1>4
  <2>8. Inside(i)
    <3> HIDE DEF i
    <3> QED BY <2>5, <2>6, <2>7 DEF Boxes
  <2> HIDE DEF Inside
  <2> QED BY <2>1, <2>8
<1>5. 0 .. n \subseteq S
  <2> HIDE DEF S, n
  <2> QED BY <1>1, <1>3, <1>4, UpTo
<1>6. PICK l \in 0 .. (n - 1) : k = Ancestor(j, l)
  BY DEF Ancestors
<1>7. n - l \in 0 .. n /\ n - (n - l) = l
  BY <1>1
<1>8. Inside(Ancestor(j, l))
  <2> HIDE DEF Inside
  <2> QED BY <1>5, <1>7
<1> QED BY <1>6, <1>8

\* The children of a node cover it, but for what rounding takes from the
\* uppermost faces.
LEMMA ChildrenCover ==
  ASSUME NEW k \in VoxelKeys, k.level < MaxLevel, NEW x \in [Axis -> Int],
         BoundsContainPoint(NodeBounds(k), x),
         \A a \in Axis : x[a] <= RootBounds.max[a] - FaceGap[a]
  PROVE  \E d \in Directions : BoundsContainPoint(VoxelBounds(Child(k, d)), x)
<1> DEFINE s == Side(k.level + 1)
           P == 2^k.level
           r(a) == RootBounds.min[a]
           h == [a \in Axis |-> IF x[a] <= r(a) + k.pos[a] * (2 * s) + s
                                THEN 0 ELSE 1]
<1>1. /\ k \in Keys /\ k.level \in Nat /\ k.level \in 0 .. MaxLevel
      /\ \A a \in Axis : k.pos[a] \in Nat
      /\ k.level = 0 => k = Root
  BY VoxelKeysAreKeys DEF Keys
<1>2. P \in Nat \ {0} /\ 2^(k.level + 1) = 2 * P
  BY <1>1, PowersOfTwo
<1>3. s \in Nat /\ Side(k.level) = 2 * s /\ P * (2 * s) = 2 * halfsize
  <2>1. k.level + 1 \in 0 .. MaxLevel /\ k.level # MaxLevel
    BY <1>1, OctreeAssumption
  <2> QED BY <1>1, <2>1, SidesAreHalved
<1>4. halfsize \in Nat /\ \A a \in Axis :
        /\ r(a) \in Int /\ RootBounds.max[a] = r(a) + 2 * halfsize
        /\ FaceGap[a] \in Nat /\ x[a] \in Int
  <2>1. ASSUME NEW a \in Axis PROVE Center[a] \in Int
    BY OctreeAssumption DEF Center
  <2>2. halfsize \in Nat
    BY HalfsizeIsPositive
  <2>3. \A a \in Axis : /\ RootBounds.min[a] = Center[a] - halfsize
                        /\ RootBounds.max[a] = Center[a] + halfsize
    BY DEF RootBounds
  <2> QED BY <2>1, <2>2, <2>3, OctreeAssumption
<1>5. \A a \in Axis : /\ r(a) + k.pos[a] * (2 * s) <= x[a]
                      /\ x[a] <= r(a) + k.pos[a] * (2 * s) + 2 * s
  <2>1. CASE k = Root
    <3>1. \A a \in Axis : k.pos[a] = 0
      BY <2>1 DEF Root
    <3>2. 2 * s = 2 * halfsize
      <4>1. P = 1
        BY <2>1 DEF Root
      <4> HIDE DEF P, s
      <4> QED BY <1>2, <1>3, <4>1
    <3>3. \A a \in Axis : r(a) <= x[a] /\ x[a] <= RootBounds.max[a]
      BY <2>1 DEF NodeBounds, BoundsContainPoint
    <3> HIDE DEF s, r
    <3>4. \A a \in Axis : k.pos[a] * (2 * s) = 0
      BY <1>3, <3>1
    <3> QED BY <1>3, <1>4, <3>2, <3>3, <3>4
  <2>2. CASE k # Root
    <3> DEFINE gap(a) == IF k.pos[a] + 1 = P THEN FaceGap[a] ELSE 0
    <3>1. \A a \in Axis : /\ r(a) + k.pos[a] * (2 * s) <= x[a]
                          /\ x[a] <= r(a) + k.pos[a] * (2 * s) + 2 * s - gap(a)
      BY <1>3, <2>2 DEF NodeBounds, BoundsContainPoint, VoxelBounds, Side
    <3>2. \A a \in Axis : gap(a) \in Nat
      BY <1>4
    <3> HIDE DEF gap, s, r
    <3>3. \A a \in Axis : k.pos[a] * (2 * s) \in Nat
      BY <1>1, <1>3
    <3> QED BY <1>3, <1>4, <3>1, <3>2, <3>3
  <2> QED BY <2>1, <2>2
<1>6. h \in [Axis -> {0, 1}]
  OBVIOUS
<1>7. PICK d \in Directions : \A a \in Axis : (d \div 2^(a - 1)) % 2 = h[a]
  <2> HIDE DEF h
  <2> QED BY <1>6, EveryHalfIsADirection
<1> DEFINE c == Child(k, d)
<1>8. /\ c.level = k.level + 1
      /\ \A a \in Axis : c.pos[a] = 2 * k.pos[a] + h[a]
  <2> HIDE DEF h
  <2> QED BY <1>7 DEF Child
<1>9. ASSUME NEW a \in Axis
      PROVE  /\ VoxelBounds(c).min[a] <= x[a]
             /\ x[a] <= VoxelBounds(c).max[a]
  <2> DEFINE q == k.pos[a]
             b == h[a]
             g == IF 2 * q + b + 1 = 2 * P THEN FaceGap[a] ELSE 0
             y == x[a]
             z == r(a)
  <2>0. SUFFICES /\ VoxelBounds(c).min[a] <= y
                 /\ y <= VoxelBounds(c).max[a]
    OBVIOUS
  <2>1. /\ VoxelBounds(c).min[a] = z + (2 * q + b) * s
        /\ VoxelBounds(c).max[a] = z + (2 * q + b) * s + s - g
    <3> HIDE DEF c, h
    <3> QED BY <1>2, <1>8 DEF VoxelBounds, Side
  <2>2. /\ q \in Nat /\ y \in Int /\ z \in Int /\ FaceGap[a] \in Nat
        /\ z + q * (2 * s) <= y /\ y <= z + q * (2 * s) + 2 * s
        /\ y <= z + 2 * halfsize - FaceGap[a]
        /\ q * (2 * s) \in Nat
    <3>1. q \in Nat /\ y \in Int /\ z \in Int /\ FaceGap[a] \in Nat
      BY <1>1, <1>4
    <3>2. y <= RootBounds.max[a] - FaceGap[a]
      OBVIOUS
    <3> HIDE DEF s
    <3>3. q * (2 * s) \in Nat
      BY <1>3, <3>1
    <3> QED BY <1>4, <1>5, <3>1, <3>2, <3>3
  <2>3. \/ b = 0 /\ y <= z + q * (2 * s) + s
        \/ b = 1 /\ y > z + q * (2 * s) + s
    <3>1. b = IF y <= z + q * (2 * s) + s THEN 0 ELSE 1
      OBVIOUS
    <3> HIDE DEF h, s
    <3>2. z + q * (2 * s) + s \in Int
      BY <1>3, <2>2
    <3> QED BY <2>2, <3>1, <3>2
  <2> HIDE DEF c, h, s, P, q, b, y, z, r
  <2>4. CASE b = 0 /\ y <= z + q * (2 * s) + s
    <3>1. g = 0
      <4>1. \A u, v \in Nat : 2 * u + 0 + 1 # 2 * v
        OBVIOUS
      <4> QED BY <1>2, <2>2, <2>4, <4>1
    <3>2. (2 * q + b) * s = q * (2 * s)
      BY <1>3, <2>2, <2>4
    <3> HIDE DEF g
    <3> QED BY <1>3, <2>1, <2>2, <2>4, <3>1, <3>2
  <2>5. CASE b = 1 /\ y > z + q * (2 * s) + s
    <3>1. (2 * q + b) * s = q * (2 * s) + s
      BY <1>3, <2>2, <2>5
    <3>2. CASE q + 1 = P
      <4>1. g = FaceGap[a]
        BY <1>2, <2>2, <2>5, <3>2
      <4>2. q * (2 * s) + 2 * s = 2 * halfsize
        <5>1. (q + 1) * (2 * s) = q * (2 * s) + 2 * s
          BY <1>3, <2>2
        <5> QED BY <1>3, <3>2, <5>1
      <4> HIDE DEF g
      <4> QED BY <1>3, <2>1, <2>2, <2>5, <3>1, <4>1, <4>2
    <3>3. CASE q + 1 # P
      <4>1. g = 0
        <5>1. \A u, v \in Nat : 2 * u + 1 + 1 = 2 * v => u + 1 = v
          OBVIOUS
        <5> QED BY <1>2, <2>2, <2>5, <3>3, <5>1
      <4> HIDE DEF g
      <4> QED BY <1>3, <2>1, <2>2, <2>5, <3>1, <4>1
    <3> QED BY <3>2, <3>3
  <2> QED BY <2>3, <2>4, <2>5
<1> QED BY <1>9 DEF BoundsContainPoint
=============================================================================
