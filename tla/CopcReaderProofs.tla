-------------------------- MODULE CopcReaderProofs --------------------------
(***************************************************************************)
(* Theorems about the reader, for every value of its constants: the types  *)
(* of its state, the entries it has after it was opened, and where the     *)
(* positions it computes lead.                                             *)
(*                                                                         *)
(* The inductive invariant ReaderInv says more than the types: the blocks  *)
(* of the source are those of a file, every entry stored is an entry of a  *)
(* page of that file under its own key, the nodes of an iterator have      *)
(* points and come in descending order of their offsets, and the counters  *)
(* are the sum over them, which is why they never go below zero.           *)
(***************************************************************************)
EXTENDS CopcReader, CopcOctreeProofs, SequenceTheorems

-----------------------------------------------------------------------------
(* Sums.                                                                   *)

\* The sum a fold computes, as a function of the sets to be summed up.
SumStep(s, g) ==
  IF s = {} THEN 0 ELSE LET e == CHOOSE x \in s : TRUE
                        IN  e.point_count + g[s \ {e}]

IsSum(S, g) == g = [s \in SUBSET S |-> SumStep(s, g)]

LEMMA TotalPointsIsSum ==
  ASSUME NEW S
  PROVE  TotalPoints(S) = (CHOOSE g : IsSum(S, g))[S]
  BY DEF TotalPoints, IsSum, SumStep, MapThenSumSet, MapThenFoldSet

\* Such a function exists, by the number of elements.
LEMMA SumExists ==
  ASSUME NEW S, IsFiniteSet(S)
  PROVE  \E g : IsSum(S, g)
<1> DEFINE Sums(n, g) ==
      /\ g = [s \in SUBSET S |-> g[s]]
      /\ \A s \in SUBSET S : Cardinality(s) <= n => g[s] = SumStep(s, g)
    N == { n \in Nat : \E g : Sums(n, g) }
    C == Cardinality(S)
<1>1. C \in Nat /\ \A s \in SUBSET S : /\ IsFiniteSet(s)
                                       /\ Cardinality(s) \in 0 .. C
  <2>1. C \in Nat BY FS_CardinalityType
  <2>2. \A s \in SUBSET S : IsFiniteSet(s) /\ Cardinality(s) <= C
    BY FS_Subset
  <2>3. \A s \in SUBSET S : Cardinality(s) \in Nat
    BY <2>2, FS_CardinalityType
  <2> QED BY <2>1, <2>2, <2>3
<1>2. 0 \in N
  <2> DEFINE g == [s \in SUBSET S |-> 0]
  <2>1. \A s \in SUBSET S : Cardinality(s) <= 0 => s = {}
    BY <1>1, FS_EmptySet
  <2>2. Sums(0, g)
    BY <2>1 DEF SumStep
  <2> QED BY <2>2
<1>3. ASSUME NEW n \in 0 .. (C - 1), n \in N PROVE n + 1 \in N
  <2>1. PICK g : Sums(n, g) BY <1>3
  <2>0. \A s \in SUBSET S : Cardinality(s) <= n => g[s] = SumStep(s, g)
    BY <2>1
  <2> DEFINE h == [s \in SUBSET S |->
                     IF Cardinality(s) <= n THEN g[s] ELSE SumStep(s, g)]
  <2>2. ASSUME NEW s \in SUBSET S, Cardinality(s) <= n + 1
        PROVE  h[s] = SumStep(s, h)
    <3>1. CASE s = {}
      <4>1. Cardinality(s) = 0 BY <3>1, FS_EmptySet
      <4>2. h[s] = g[s] BY <4>1, <1>3
      <4>3. g[s] = SumStep(s, g) BY <2>0, <4>1, n >= 0
      <4> QED BY <4>2, <4>3, <3>1 DEF SumStep
    <3>2. CASE s # {}
      <4> DEFINE e == CHOOSE x \in s : TRUE
      <4>1. e \in s BY <3>2
      <4>2. s \ {e} \in SUBSET S OBVIOUS
      <4>3. Cardinality(s \ {e}) = Cardinality(s) - 1
        BY <4>1, <1>1, FS_RemoveElement
      <4>4. Cardinality(s \ {e}) <= n
        BY <4>3, <2>2, <1>1
      <4>5. h[s \ {e}] = g[s \ {e}]
        BY <4>4, <4>2
      <4>6. h[s] = SumStep(s, g)
        BY <2>1
      <4> QED BY <4>5, <4>6, <3>2 DEF SumStep
    <3> QED BY <3>1, <3>2
  <2>3. Sums(n + 1, h) BY <2>2
  <2>4. n + 1 \in Nat BY <1>1
  <2> HIDE DEF h
  <2> QED BY <2>3, <2>4
<1>4. C \in N
  <2> HIDE DEF N, C
  <2>1. 0 .. C \subseteq N BY <1>1, <1>2, <1>3, UpTo
  <2> QED BY <2>1, <1>1
<1>5. PICK g : Sums(C, g) BY <1>4
<1>6. \A s \in SUBSET S : g[s] = SumStep(s, g)
  <2>1. \A s \in SUBSET S : Cardinality(s) <= C => g[s] = SumStep(s, g)
    BY <1>5
  <2>2. \A s \in SUBSET S : Cardinality(s) <= C
    BY <1>1
  <2> QED BY <2>1, <2>2
<1>7. [s \in SUBSET S |-> g[s]] = [s \in SUBSET S |-> SumStep(s, g)]
  BY <1>6
<1> QED BY <1>5, <1>7 DEF IsSum

\* A sum of a subset does not depend on what it is a subset of.
LEMMA SumsAgree ==
  ASSUME NEW S, IsFiniteSet(S), NEW T \in SUBSET S,
         NEW g, IsSum(S, g), NEW h, IsSum(T, h)
  PROVE  h[T] = g[T]
<1> DEFINE N == { n \in Nat : \A s \in SUBSET T :
                                 Cardinality(s) <= n => h[s] = g[s] }
           C == Cardinality(T)
<1>1. IsFiniteSet(T) /\ C \in Nat /\ \A s \in SUBSET T :
        IsFiniteSet(s) /\ Cardinality(s) \in Nat
  BY FS_Subset, FS_CardinalityType
<1>2. \A s \in SUBSET T : g[s] = SumStep(s, g) /\ h[s] = SumStep(s, h)
  BY DEF IsSum
<1>3. 0 \in N
  <2>1. \A s \in SUBSET T : Cardinality(s) <= 0 => s = {}
    BY <1>1, FS_EmptySet
  <2> QED BY <2>1, <1>2 DEF SumStep
<1>4. ASSUME NEW n \in 0 .. (C - 1), n \in N PROVE n + 1 \in N
  <2>1. ASSUME NEW s \in SUBSET T, Cardinality(s) <= n + 1
        PROVE  h[s] = g[s]
    <3>1. CASE s = {}
      BY <3>1, <1>2 DEF SumStep
    <3>2. CASE s # {}
      <4> DEFINE e == CHOOSE x \in s : TRUE
      <4>1. e \in s BY <3>2
      <4>2. s \ {e} \in SUBSET T OBVIOUS
      <4>3. Cardinality(s \ {e}) <= n
        <5>1. Cardinality(s \ {e}) = Cardinality(s) - 1
          BY <4>1, <1>1, FS_RemoveElement
        <5> QED BY <5>1, <2>1, <1>1
      <4>4. h[s \ {e}] = g[s \ {e}]
        BY <4>2, <4>3, <1>4
      <4> QED BY <4>4, <1>2, <3>2 DEF SumStep
    <3> QED BY <3>1, <3>2
  <2> QED BY <2>1, <1>1
<1>5. C \in N
  <2> HIDE DEF N, C
  <2> QED BY <1>1, <1>3, <1>4, UpTo
<1> QED BY <1>5, <1>1

\* The order in which a sum is formed does not matter.
LEMMA SumTakes ==
  ASSUME NEW S, IsFiniteSet(S), \A e \in S : e.point_count \in Nat,
         NEW g, IsSum(S, g)
  PROVE  /\ g[S] \in Nat
         /\ \A e \in S : g[S] = e.point_count + g[S \ {e}]
<1> DEFINE Taken(s) == /\ g[s] \in Nat
                       /\ \A e \in s : g[s] = e.point_count + g[s \ {e}]
           N == { n \in Nat : \A s \in SUBSET S :
                                 Cardinality(s) <= n => Taken(s) }
           C == Cardinality(S)
<1>1. C \in Nat /\ \A s \in SUBSET S :
        IsFiniteSet(s) /\ Cardinality(s) \in Nat
  BY FS_Subset, FS_CardinalityType
<1>2. \A s \in SUBSET S : g[s] = SumStep(s, g)
  BY DEF IsSum
<1>3. 0 \in N
  <2>1. \A s \in SUBSET S : Cardinality(s) <= 0 => s = {}
    BY <1>1, FS_EmptySet
  <2>2. g[{}] = 0
    BY <1>2 DEF SumStep
  <2>3. Taken({})
    BY <2>2
  <2>4. \A s \in SUBSET S : Cardinality(s) <= 0 => Taken(s)
    BY <2>1, <2>3
  <2> QED BY <2>4
<1>4. ASSUME NEW n \in 0 .. (C - 1), n \in N PROVE n + 1 \in N
  <2>1. ASSUME NEW s \in SUBSET S, Cardinality(s) <= n + 1
        PROVE  Taken(s)
    <3>1. CASE s = {}
      BY <3>1, <1>2 DEF SumStep
    <3>2. CASE s # {}
      <4> DEFINE c == CHOOSE x \in s : TRUE
      <4>1. c \in s BY <3>2
      <4>2. \A e \in s : s \ {e} \in SUBSET S /\ Cardinality(s \ {e}) <= n
        BY <1>1, <2>1, FS_RemoveElement
      <4>3. \A e \in s : Taken(s \ {e})
        BY <4>2, <1>4
      <4>4. g[s] = c.point_count + g[s \ {c}]
        BY <1>2, <3>2 DEF SumStep
      <4>5. c.point_count \in Nat /\ g[s \ {c}] \in Nat
        BY <4>1, <4>3
      <4>6. g[s] \in Nat
        BY <4>4, <4>5
      <4>7. ASSUME NEW e \in s PROVE g[s] = e.point_count + g[s \ {e}]
        <5>1. CASE e = c
          BY <5>1, <4>4
        <5>2. CASE e # c
          <6>1. g[s \ {c}] = e.point_count + g[(s \ {c}) \ {e}]
            BY <4>1, <4>3, <5>2
          <6>2. g[s \ {e}] = c.point_count + g[(s \ {e}) \ {c}]
            BY <4>1, <4>3, <5>2
          <6>3. (s \ {c}) \ {e} = (s \ {e}) \ {c}
            OBVIOUS
          <6>4. Taken((s \ {e}) \ {c})
            <7>1. (s \ {e}) \ {c} \in SUBSET S OBVIOUS
            <7>2. Cardinality((s \ {e}) \ {c}) <= n
              BY <4>1, <4>2, <5>2, <1>1, FS_RemoveElement
            <7> QED BY <7>1, <7>2, <1>4
          <6>5. e.point_count \in Nat /\ g[(s \ {e}) \ {c}] \in Nat
            BY <6>4
          <6> DEFINE rest == g[(s \ {e}) \ {c}]
          <6>6. g[s \ {c}] = e.point_count + rest
            BY <6>1, <6>3
          <6>7. g[s \ {e}] = c.point_count + rest
            BY <6>2
          <6>8. e.point_count \in Nat /\ rest \in Nat
            BY <6>5
          <6> HIDE DEF c, rest
          <6> QED BY <6>6, <6>7, <6>8, <4>4, <4>5
        <5> QED BY <5>1, <5>2
      <4> QED BY <4>6, <4>7
    <3> QED BY <3>1, <3>2
  <2> QED BY <2>1, <1>1
<1>5. C \in N
  <2> HIDE DEF N, C
  <2> QED BY <1>1, <1>3, <1>4, UpTo
<1>6. Taken(S)
  BY <1>5, <1>1
<1> QED BY <1>6

(***************************************************************************)
(* total_points_left of a query: the points of a set of entries are those  *)
(* of any one of them and of the others.                                   *)
(***************************************************************************)
LEMMA TotalPointsTakes ==
  ASSUME NEW S, IsFiniteSet(S), \A e \in S : e.point_count \in Nat
  PROVE  /\ TotalPoints({}) = 0
         /\ TotalPoints(S) \in Nat
         /\ \A e \in S :
              /\ TotalPoints(S) = e.point_count + TotalPoints(S \ {e})
              /\ TotalPoints(S \ {e}) \in Nat
<1> DEFINE G(T) == CHOOSE g : IsSum(T, g)
<1>1. \A T : IsFiniteSet(T) => IsSum(T, G(T))
  BY SumExists
<1>2. \A T : TotalPoints(T) = G(T)[T]
  BY TotalPointsIsSum
<1>3. \A T \in SUBSET S : IsFiniteSet(T)
  BY FS_Subset
<1> HIDE DEF G
<1>4. \A T \in SUBSET S : TotalPoints(T) = G(S)[T]
  <2>1. ASSUME NEW T \in SUBSET S PROVE G(T)[T] = G(S)[T]
    BY <1>1, <1>3, SumsAgree
  <2> QED BY <2>1, <1>2
<1>5. TotalPoints({}) = 0
  <2>1. IsSum(S, G(S)) BY <1>1
  <2>2. G(S)[{}] = 0 BY <2>1 DEF IsSum, SumStep
  <2> QED BY <2>2, <1>4
<1>6. \A T \in SUBSET S : TotalPoints(T) \in Nat
  <2>1. ASSUME NEW T \in SUBSET S PROVE G(T)[T] \in Nat
    <3>1. IsSum(T, G(T)) /\ IsFiniteSet(T) BY <1>1, <1>3
    <3> QED BY <3>1, SumTakes
  <2> QED BY <2>1, <1>2
<1>7. \A e \in S : TotalPoints(S) = e.point_count + TotalPoints(S \ {e})
  <2>1. \A e \in S : G(S)[S] = e.point_count + G(S)[S \ {e}]
    BY <1>1, SumTakes
  <2> QED BY <2>1, <1>4
<1> QED BY <1>5, <1>6, <1>7

-----------------------------------------------------------------------------
\* The end of a sequence that the code treats as a stack.
LEMMA FrontAndLast ==
  ASSUME NEW S, NEW s \in Seq(S), s # <<>>
  PROVE  /\ Last(s) \in S
         /\ Front(s) \in Seq(S)
         /\ Len(Front(s)) = Len(s) - 1
         /\ Len(s) \in Nat \ {0}
         /\ Last(s) = s[Len(s)]
         /\ \A i \in 1 .. Len(s) - 1 : Front(s)[i] = s[i]
         /\ ToSet(s) = ToSet(Front(s)) \cup {Last(s)}
<1>1. /\ Len(s) \in Nat \ {0} /\ DOMAIN s = 1 .. Len(s)
      /\ s \in [1 .. Len(s) -> S]
  BY EmptySeq, LenProperties
<1>2. \A i \in 1 .. Len(s) - 1 : s[i] \in S
  BY <1>1
<1>3. /\ Front(s) \in Seq(S)
      /\ Len(Front(s)) = Len(s) - 1
      /\ \A i \in 1 .. Len(s) - 1 : Front(s)[i] = s[i]
  <2>1. Front(s) = SubSeq(s, 1, Len(s) - 1)
    BY DEF Front
  <2>2. 1 \in Int /\ Len(s) - 1 \in Int
    BY <1>1
  <2>3. /\ SubSeq(s, 1, Len(s) - 1) \in Seq(S)
        /\ Len(SubSeq(s, 1, Len(s) - 1))
             = IF 1 <= Len(s) - 1 THEN Len(s) - 1 - 1 + 1 ELSE 0
        /\ \A i \in 1 .. Len(s) - 1 - 1 + 1 :
             SubSeq(s, 1, Len(s) - 1)[i] = s[1 + i - 1]
    BY <1>2, <2>2, SubSeqProperties
  <2>4. \A i \in 1 .. Len(s) - 1 :
          i \in 1 .. Len(s) - 1 - 1 + 1 /\ 1 + i - 1 = i
    BY <1>1
  <2> QED BY <1>1, <2>1, <2>3, <2>4
<1>4. Last(s) = s[Len(s)] /\ Last(s) \in S
  BY <1>1 DEF Last
<1>5. DOMAIN Front(s) = 1 .. Len(s) - 1
  BY <1>1, <1>3, LenProperties
<1>6. ToSet(s) = ToSet(Front(s)) \cup {Last(s)}
  <2>1. 1 .. Len(s) = (1 .. Len(s) - 1) \cup {Len(s)}
    BY <1>1
  <2> QED BY <1>1, <1>3, <1>4, <1>5, <2>1 DEF ToSet
<1> QED BY <1>1, <1>3, <1>4, <1>6

Rank(S, e) == Cardinality({ f \in S : f.offset > e.offset })

(***************************************************************************)
(* The sort of the nodes: where no two of them have the same offset, they  *)
(* come in descending order of their offsets, each of them once.           *)
(***************************************************************************)
LEMMA ByOffsetSorts ==
  ASSUME NEW S, IsFiniteSet(S), \A e \in S : e.offset \in Nat,
         \A e, f \in S : e.offset = f.offset => e = f
  PROVE  /\ ByOffset(S) \in Seq(S)
         /\ ToSet(ByOffset(S)) = S
         /\ \A i, j \in DOMAIN ByOffset(S) :
              i < j => ByOffset(S)[i].offset > ByOffset(S)[j].offset
<1> DEFINE n == Cardinality(S)
           s == ByOffset(S)
<1>1. n \in Nat
  BY FS_CardinalityType
<1>2. \A e \in S : Rank(S, e) \in 0 .. (n - 1)
  <2>1. SUFFICES ASSUME NEW e \in S PROVE Rank(S, e) \in 0 .. (n - 1)
    OBVIOUS
  <2> DEFINE A == { f \in S : f.offset > e.offset }
  <2>2. A \in SUBSET (S \ {e})
    OBVIOUS
  <2>3. IsFiniteSet(S \ {e}) /\ Cardinality(S \ {e}) = n - 1
    BY FS_RemoveElement
  <2>4. IsFiniteSet(A) /\ Cardinality(A) <= n - 1
    BY <2>2, <2>3, FS_Subset
  <2>5. Cardinality(A) \in Nat
    BY <2>4, FS_CardinalityType
  <2> HIDE DEF n
  <2> QED BY <2>4, <2>5, <1>1 DEF Rank
<1>3. \A e, f \in S : e.offset > f.offset => Rank(S, e) < Rank(S, f)
  <2>1. SUFFICES ASSUME NEW e \in S, NEW f \in S, e.offset > f.offset
                 PROVE  Rank(S, e) < Rank(S, f)
    OBVIOUS
  <2> DEFINE A == { g \in S : g.offset > e.offset }
             B == { g \in S : g.offset > f.offset }
  <2>2. A \in SUBSET (B \ {e}) /\ e \in B
    BY <2>1
  <2>3. IsFiniteSet(B)
    BY FS_Subset
  <2>4. IsFiniteSet(B \ {e}) /\ Cardinality(B \ {e}) = Cardinality(B) - 1
    BY <2>2, <2>3, FS_RemoveElement
  <2>5. Cardinality(A) <= Cardinality(B) - 1
    BY <2>2, <2>4, FS_Subset
  <2>6. Cardinality(A) \in Int /\ Cardinality(B) \in Int
    BY <1>2 DEF Rank
  <2> HIDE DEF A, B
  <2>7. Cardinality(A) < Cardinality(B)
    BY <2>5, <2>6
  <2> QED BY <2>7 DEF Rank, A, B
<1>4. \A e, f \in S : Rank(S, e) = Rank(S, f) => e = f
  <2>1. SUFFICES ASSUME NEW e \in S, NEW f \in S, Rank(S, e) = Rank(S, f)
                 PROVE  e = f
    OBVIOUS
  <2>2. ~(e.offset > f.offset) /\ ~(f.offset > e.offset)
    BY <2>1, <1>2, <1>3
  <2> QED BY <2>2
<1>5. \A m \in 0 .. (n - 1) : \E e \in S : Rank(S, e) = m
  <2> DEFINE r == [e \in S |-> Rank(S, e)]
             T == 0 .. (n - 1)
  <2>1. r \in Injection(S, T)
    BY <1>2, <1>4 DEF Injection, IsInjective
  <2>2. IsFiniteSet(T) /\ Cardinality(T) = n
    BY <1>1, FS_Interval
  <2>3. r \in Surjection(S, T)
    BY <2>1, <2>2, FS_Injection
  <2> QED BY <2>3 DEF Surjection
<1>6. ASSUME NEW i \in 1 .. n PROVE s[i] \in S /\ Rank(S, s[i]) = i - 1
  <2>1. s[i] = CHOOSE e \in S : Rank(S, e) = i - 1
    BY DEF ByOffset, Rank
  <2>2. \E e \in S : Rank(S, e) = i - 1
    BY <1>1, <1>5
  <2> QED BY <2>1, <2>2
<1>7. DOMAIN s = 1 .. n
  BY DEF ByOffset
<1>8. s \in Seq(S)
  <2> DEFINE c(i) == CHOOSE e \in S : Rank(S, e) = i - 1
  <2>1. s = [i \in 1 .. n |-> c(i)]
    BY DEF ByOffset, Rank
  <2>2. \A i \in 1 .. n : c(i) \in S
    BY <1>6, <2>1
  <2> HIDE DEF c
  <2>3. s \in [1 .. n -> S]
    BY <2>1, <2>2
  <2> HIDE DEF s, n
  <2> QED BY <2>3, <1>1, SeqDef
<1>9. ToSet(s) = S
  <2>1. ASSUME NEW e \in S PROVE e \in ToSet(s)
    <3>1. Rank(S, e) + 1 \in 1 .. n /\ (Rank(S, e) + 1) - 1 = Rank(S, e)
      BY <1>1, <1>2
    <3>2. s[Rank(S, e) + 1] = e
      BY <3>1, <1>6, <1>4
    <3> QED BY <3>1, <3>2, <1>7 DEF ToSet
  <2> QED BY <2>1, <1>6, <1>7 DEF ToSet
<1>10. ASSUME NEW i \in 1 .. n, NEW j \in 1 .. n, i < j
       PROVE  s[i].offset > s[j].offset
  <2>1. s[i] \in S /\ s[j] \in S
    BY <1>6
  <2>2. Rank(S, s[i]) = i - 1 /\ Rank(S, s[j]) = j - 1
    BY <1>6
  <2> HIDE DEF s
  <2>3. ~(s[i].offset < s[j].offset)
    BY <2>1, <2>2, <1>3, <1>10
  <2>4. s[i].offset # s[j].offset
    BY <2>1, <2>2, <1>10
  <2> QED BY <2>1, <2>3, <2>4
<1> QED BY <1>7, <1>8, <1>9, <1>10

-----------------------------------------------------------------------------
(* The inductive invariant.                                                *)

InFile == phase \in {"paging", "ready", "walking", "iterating", "next"}

Iterating == phase \in {"iterating", "next"}

\* The entries a query can select.
WithPoints == { e \in Stored : e.point_count > 0 }

\* The source keeps the blocks of its file.
SourceInv ==
  /\ IsFile(read)
  /\ start \in Nat
  /\ phase \in Phases

\* Entries are the file's, and filed under their keys.
EntriesInv ==
  /\ page \in Seq(PageEntries(read))
  /\ DOMAIN hierarchy_entries \subseteq VoxelKeys
  /\ \A k \in DOMAIN hierarchy_entries :
       /\ hierarchy_entries[k] \in PageEntries(read)
       /\ hierarchy_entries[k].key = k
  /\ InFile => /\ IsLasFile(start)
               /\ IsInfo(copc_info)

\* The nodes that a query selects and an iterator goes through have points.
WalkInv ==
  /\ satisfying_nodes \subseteq WithPoints /\ IsFiniteSet(satisfying_nodes)
  /\ nodes \in Seq(WithPoints)
  /\ phase \in {"unopened", "paging"} => satisfying_nodes = {} /\ nodes = <<>>

\* The nodes come in descending order, and the counters are sums over them.
CountInv ==
  /\ node_points_left \in Nat /\ total_points_left \in Nat
  /\ decompressor \in [start : Nat, fresh : BOOLEAN, left : SUBSET Points]
  /\ returned \in [Points -> Nat]
  /\ done \in BOOLEAN
  /\ Iterating =>
       /\ \A i, j \in DOMAIN nodes : i < j => nodes[i].offset > nodes[j].offset
       /\ total_points_left = node_points_left + TotalPoints(ToSet(nodes))
       /\ decompressor.start = start

ReaderInv == SourceInv /\ EntriesInv /\ WalkInv /\ CountInv

\* The blocks of the source never change.
LEMMA DiskStays ==
  ASSUME SourceInv, [Next]_vars
  PROVE  /\ read'.disk = read.disk
         /\ PageEntries(read)' = PageEntries(read)
<1>1. read'.disk = read.disk
  BY DEF SourceInv, IsFile, Next, Running, Failing, Open, Query, PopEntry, EndPages,
         Visit, EndWalk, NextNode, NoMoreNodes, DecodePoint, DecodeGarbage,
         OpenFails, EndWalkFails, NextPanics, CallNext, DropIter, vars
<1> QED BY <1>1 DEF PageEntries

LEMMA FileStays ==
  ASSUME read'.disk = read.disk
  PROVE  \A s : IsLasFile(s)' = IsLasFile(s)
<1>1. \A s : Headers(s)' = Headers(s)
  BY DEF Headers
<1>2. \A s : Header(s)' = Header(s)
  BY <1>1 DEF Header
<1>3. \A s : FirstEvlr(s)' = FirstEvlr(s)
  BY <1>2 DEF FirstEvlr
<1>4. \A s : Evlrs(s)' = Evlrs(s)
  BY <1>2, <1>3 DEF Evlrs
<1>5. \A s : AreEvlrs(s)' = AreEvlrs(s)
  BY <1>2, <1>3, <1>4 DEF AreEvlrs
<1> QED BY <1>1, <1>5 DEF IsLasFile

LEMMA EntriesAreTyped ==
  ASSUME SourceInv
  PROVE  /\ PageEntries(read) \subseteq Entries
         /\ IsFiniteSet(read.disk) /\ \A b \in read.disk : IsBlock(b)
         /\ \A b, c \in read.disk :
              IsChunk(b) /\ IsChunk(c) /\ b # c =>
                b.at # c.at /\ (b.at < c.at => b.at + b.len <= c.at)
         /\ Stored \subseteq PageEntries(read) =>
              \A e, f \in WithPoints : e.offset = f.offset => e = f
<1>1. IsFiniteSet(read.disk) /\ \A b \in read.disk : IsBlock(b)
  BY DEF SourceInv, IsFile
<1>2. ASSUME NEW b \in read.disk, "page" \in DOMAIN b
      PROVE ToSet(b.page) \subseteq Entries
  <2>1. b.page \in Seq(Entries)
    BY <1>1, <1>2 DEF IsBlock
  <2> QED BY <2>1, LenProperties DEF ToSet
<1>3. PageEntries(read) \subseteq Entries
  BY <1>2 DEF PageEntries
<1>4. \A b, c \in read.disk :
        IsChunk(b) /\ IsChunk(c) /\ b # c =>
          b.at # c.at /\ (b.at < c.at => b.at + b.len <= c.at)
  BY DEF SourceInv, IsFile
<1>5. \A e, g \in PageEntries(read) :
         e.point_count > 0 /\ g.point_count > 0 /\ e.offset = g.offset => e = g
  BY DEF SourceInv, IsFile
<1> QED BY <1>1, <1>3, <1>4, <1>5 DEF WithPoints

LEMMA StoredIsTyped ==
  ASSUME SourceInv, EntriesInv
  PROVE  /\ Stored \subseteq PageEntries(read) /\ Stored \subseteq Entries
         /\ WithPoints \subseteq Stored
         /\ \A e \in WithPoints :
              e.point_count \in Nat \ {0} /\ e.offset \in Nat
         /\ \A e, f \in WithPoints : e.offset = f.offset => e = f
<1>1. Stored \subseteq PageEntries(read)
  BY DEF EntriesInv, Stored
<1>2. Stored \subseteq Entries
  BY <1>1, EntriesAreTyped
<1>3. WithPoints \subseteq Stored
  BY DEF WithPoints
<1>4. \A e \in WithPoints :
        e.point_count \in Int /\ e.point_count > 0 /\ e.offset \in Nat
  BY <1>2 DEF WithPoints, Entries
<1>5. \A e \in WithPoints : e.point_count \in Nat \ {0} /\ e.offset \in Nat
  BY <1>4
<1> QED BY <1>1, <1>2, <1>3, <1>5, EntriesAreTyped

\* What lies in a page covers entries of the page.
LEMMA SlotsFit ==
  ASSUME NEW pos \in Int, NEW bytes \in Nat, NEW at \in Nat, NEW len,
         NEW n \in Nat, len = 60 + 32 * n, at + 60 <= pos,
         pos + bytes <= at + len
  PROVE  /\ (pos - at - 60) \div 32 + 1 \in Nat \ {0}
         /\ (pos - at - 60 + bytes) \div 32 \in Nat
         /\ (pos - at - 60 + bytes) \div 32 <= n
<1> DEFINE a == pos - at - 60
<1>1. a \in Nat
  OBVIOUS
<1>2. a + bytes \in Nat /\ a + bytes <= 32 * n
  OBVIOUS
<1> HIDE DEF a
<1>3. a \div 32 \in Nat /\ (a + bytes) \div 32 \in Nat
  BY <1>1, <1>2
<1>4. (a + bytes) \div 32 <= n
  BY <1>2
<1> QED BY <1>3, <1>4 DEF a

\* Where the pages of a file are, and what is in them.
LEMMA PagesAtAreTyped ==
  ASSUME SourceInv, NEW pos \in Int, NEW bytes \in Nat,
         NEW es \in PagesAt(pos, bytes)
  PROVE  es \in Seq(PageEntries(read)) /\ pos + bytes \in Nat
<1>1. PICK b \in read.disk :
        /\ "page" \in DOMAIN b
        /\ b.at + 60 <= pos
        /\ pos + bytes <= b.at + b.len
        /\ (pos - b.at - 60) % 32 = 0
        /\ es = SubSeq(b.page, (pos - b.at - 60) \div 32 + 1,
                               (pos - b.at - 60 + bytes) \div 32)
  BY DEF PagesAt
<1>2. /\ b.at \in Nat /\ b.len = 60 + 32 * Len(b.page)
      /\ b.page \in Seq(Entries)
  BY <1>1, EntriesAreTyped DEF IsBlock
<1>3. Len(b.page) \in Nat /\ DOMAIN b.page = 1 .. Len(b.page)
  BY <1>2, LenProperties
<1>4. ToSet(b.page) \subseteq PageEntries(read)
  BY <1>1 DEF PageEntries
<1> DEFINE m == (pos - b.at - 60) \div 32 + 1
           n == (pos - b.at - 60 + bytes) \div 32
<1>5. m \in Int /\ n \in Int /\ m >= 1 /\ n <= Len(b.page)
  <2>1. b.at \in Nat /\ b.at + 60 <= pos /\ b.len = 60 + 32 * Len(b.page)
        /\ pos + bytes <= b.at + b.len
    BY <1>1, <1>2
  <2>2. b.at \in Nat /\ Len(b.page) \in Nat
    BY <1>2, <1>3
  <2> HIDE DEF m, n
  <2>3. /\ (pos - b.at - 60) \div 32 + 1 \in Nat \ {0}
        /\ (pos - b.at - 60 + bytes) \div 32 \in Nat
        /\ (pos - b.at - 60 + bytes) \div 32 <= Len(b.page)
    BY <2>1, <2>2, SlotsFit
  <2> QED BY <2>3 DEF m, n
<1>6. \A i \in m .. n : b.page[i] \in PageEntries(read)
  BY <1>3, <1>4, <1>5 DEF ToSet
<1>7. es \in Seq(PageEntries(read))
  <2> HIDE DEF m, n
  <2>1. SubSeq(b.page, m, n) \in Seq(PageEntries(read))
    BY <1>5, <1>6, SubSeqProperties
  <2> QED BY <2>1, <1>1 DEF m, n
<1>8. pos + bytes \in Nat
  <2>1. b.at \in Nat /\ b.at + 60 <= pos
    BY <1>1, <1>2
  <2> QED BY <2>1
<1> QED BY <1>7, <1>8

LEMMA HeaderIsTyped ==
  ASSUME SourceInv, IsLasFile(start)
  PROVE  Header(start).offset_to_point_data + start \in Nat
<1>1. Header(start) \in Headers(start)
  BY DEF IsLasFile, Header
<1>2. Header(start).offset_to_point_data \in Nat
  BY <1>1, EntriesAreTyped DEF Headers, IsBlock
<1> QED BY <1>2 DEF SourceInv

LEMMA ChunkIsTyped ==
  ASSUME SourceInv, NEW pos, NEW b \in ChunksAt(pos)
  PROVE  /\ b.points \subseteq Points /\ IsFiniteSet(b.points)
         /\ b.at = pos /\ b.at \in Nat /\ b.len \in Nat
         /\ ChunksAt(pos) = {b}
  BY EntriesAreTyped DEF ChunksAt, IsBlock

\* The next node of an iterator.
LEMMA NextNodeIsTyped ==
  ASSUME SourceInv, EntriesInv, WalkInv, nodes # <<>>
  PROVE  /\ Last(nodes) \in WithPoints
         /\ Last(nodes).offset \in Nat /\ Last(nodes).point_count \in Nat \ {0}
         /\ Front(nodes) \in Seq(WithPoints)
<1>1. nodes \in Seq(WithPoints)
  BY DEF WalkInv
<1>2. Last(nodes) \in WithPoints /\ Front(nodes) \in Seq(WithPoints)
  BY <1>1, FrontAndLast
<1> QED BY <1>2, StoredIsTyped

LEMMA SourceInductive ==
  ASSUME ReaderInv, [Next]_vars
  PROVE  SourceInv'
<1> USE DEF ReaderInv
<1>1. /\ read'.disk = read.disk /\ PageEntries(read)' = PageEntries(read)
      /\ DOMAIN read = {"pos", "disk"} /\ read.pos \in Nat
      /\ start \in Nat /\ phase \in Phases
  BY DiskStays DEF SourceInv, IsFile
<1>2. SUFFICES /\ DOMAIN read' = {"pos", "disk"}
               /\ read'.pos \in Nat /\ start' \in Nat
               /\ phase' \in Phases
  BY <1>1 DEF SourceInv, IsFile
<1>3. CASE UNCHANGED vars
  BY <1>1, <1>3 DEF vars, openVars
<1>4. CASE Open
  BY <1>1, <1>4 DEF Open, Fail, Phases
<1>5. CASE \E q \in Queries : Query(q)
  BY <1>1, <1>5 DEF Query, Phases, openVars
<1>6. CASE PopEntry
  <2>1. CASE UNCHANGED read
    BY <1>1, <1>6, <2>1 DEF PopEntry, Phases
  <2>2. CASE ~UNCHANGED read
    <3> DEFINE entry == Last(page)
    <3>1. /\ page # <<>> /\ phase = "paging"
          /\ PagesAt(ChildPage(entry), entry.byte_size) # {}
          /\ read' = [read EXCEPT !.pos = ChildPage(entry) + entry.byte_size]
          /\ UNCHANGED <<phase, start>>
      BY <1>6, <2>2 DEF PopEntry
    <3>2. entry \in Entries
      BY <3>1, FrontAndLast, EntriesAreTyped DEF EntriesInv
    <3>3. entry.offset \in Nat /\ entry.byte_size \in Nat
      BY <3>2 DEF Entries
    <3>4. copc_info.root_hier_offset \in Nat
      BY <3>1 DEF EntriesInv, InFile, IsInfo
    <3>5. ChildPage(entry) \in Int
      BY <3>3, <3>4 DEF ChildPage
    <3>6. ChildPage(entry) + entry.byte_size \in Nat
      BY <3>1, <3>3, <3>5, PagesAtAreTyped
    <3> QED BY <1>1, <3>1, <3>6
  <2> QED BY <2>1, <2>2
<1>7. CASE EndPages
  <2>1. IsLasFile(start)
    BY <1>7 DEF EndPages, EntriesInv, InFile
  <2>2. read' = [read EXCEPT !.pos = Header(start).offset_to_point_data + start]
    BY <1>7 DEF EndPages
  <2>3. start' = start /\ phase' \in Phases
    BY <1>7 DEF EndPages, openVars, Fail, Phases
  <2> QED BY <1>1, <2>1, <2>2, <2>3, HeaderIsTyped
<1>8. CASE Visit
  BY <1>1, <1>8 DEF Visit, openVars
<1>9. CASE EndWalk
  BY <1>1, <1>9 DEF EndWalk, openVars, Phases, DataStart
<1>10. CASE NextNode
  <2>1. Last(nodes).offset \in Nat
    BY <1>10, NextNodeIsTyped DEF NextNode
  <2>2. decompressor.start \in Nat
    BY DEF CountInv
  <2>3. read' = [read EXCEPT !.pos = Last(nodes).offset + decompressor.start]
    BY <1>10 DEF NextNode
  <2> QED BY <1>1, <1>10, <2>1, <2>2, <2>3 DEF NextNode, openVars
<1>11. CASE NoMoreNodes
  BY <1>1, <1>11 DEF NoMoreNodes, openVars, Phases
<1>12. CASE DecodePoint
  <2>1. PICK pos \in BehindChunk : read' = [read EXCEPT !.pos = pos]
    BY <1>12 DEF DecodePoint
  <2>2. pos \in Nat
    <3>1. CASE decompressor.fresh
      <4>1. PICK b \in ChunksAt(read.pos) : pos = b.at + b.len
        BY <2>1, <3>1 DEF BehindChunk
      <4> QED BY <4>1, ChunkIsTyped
    <3>2. CASE ~decompressor.fresh
      BY <2>1, <3>2, <1>1 DEF BehindChunk
    <3> QED BY <3>1, <3>2
  <2>3. start' = start /\ phase' \in Phases
    BY <1>1, <1>12 DEF DecodePoint, openVars, Phases
  <2> QED BY <1>1, <2>1, <2>2, <2>3
<1>13. CASE DecodeGarbage
  BY <1>1, <1>13 DEF DecodeGarbage, openVars, Phases
<1>14. CASE OpenFails
  BY <1>1, <1>14 DEF OpenFails, openVars, Phases, Fail
<1>15. CASE EndWalkFails
  BY <1>1, <1>15 DEF EndWalkFails, openVars, Phases
<1>16. CASE NextPanics
  BY <1>1, <1>16 DEF NextPanics, openVars, Phases
<1>17. CASE CallNext
  BY <1>1, <1>17 DEF CallNext, openVars, Phases
<1>18. CASE DropIter
  BY <1>1, <1>18 DEF DropIter, openVars, Phases
<1> QED BY <1>3, <1>4, <1>5, <1>6, <1>7, <1>8, <1>9, <1>10, <1>11, <1>12,
           <1>13, <1>14, <1>15, <1>16, <1>17, <1>18 DEF Next, Running, Failing

\* A finite set of naturals has a greatest element.
LEMMA GreatestElement ==
  ASSUME NEW T \in SUBSET Nat, IsFiniteSet(T), T # {}
  PROVE  \E m \in T : \A n \in T : n <= m
<1> DEFINE N == { n \in Nat : \A s \in SUBSET T :
                    Cardinality(s) <= n /\ s # {} =>
                      \E m \in s : \A k \in s : k <= m }
           C == Cardinality(T)
<1>1. C \in Nat /\ \A s \in SUBSET T : IsFiniteSet(s) /\ Cardinality(s) \in Nat
  BY FS_Subset, FS_CardinalityType
<1>2. 0 \in N
  BY <1>1, FS_EmptySet
<1>3. ASSUME NEW n \in 0 .. (C - 1), n \in N PROVE n + 1 \in N
  <2>1. ASSUME NEW s \in SUBSET T, Cardinality(s) <= n + 1, s # {}
        PROVE  \E m \in s : \A k \in s : k <= m
    <3>1. PICK x \in s : TRUE
      BY <2>1
    <3>2. Cardinality(s \ {x}) = Cardinality(s) - 1
      BY <1>1, FS_RemoveElement
    <3>3. s \ {x} \in SUBSET T /\ Cardinality(s \ {x}) <= n
      BY <3>2, <2>1, <1>1
    <3>4. CASE s \ {x} = {}
      BY <3>4, x \in Nat
    <3>5. CASE s \ {x} # {}
      <4>1. PICK m \in s \ {x} : \A k \in s \ {x} : k <= m
        BY <3>3, <3>5, <1>3
      <4>2. x \in Nat /\ m \in Nat /\ \A k \in s : k \in Nat
        OBVIOUS
      <4>3. CASE x <= m
        BY <4>1, <4>3
      <4>4. CASE m <= x
        BY <4>1, <4>2, <4>4
      <4> QED BY <4>2, <4>3, <4>4
    <3> QED BY <3>4, <3>5
  <2> QED BY <2>1, <1>1
<1>4. C \in N
  <2> HIDE DEF N, C
  <2> QED BY <1>1, <1>2, <1>3, UpTo
<1> QED BY <1>4, <1>1

\* The last record with a field is a record with it.
LEMMA LastRecordIsThere ==
  ASSUME SourceInv, NEW s, NEW field, Records(s, field) # {}
  PROVE  /\ LastRecord(s, field) \in read.disk
         /\ LastRecord(s, field) \in Records(s, field)
         /\ field \in DOMAIN LastRecord(s, field)
<1> DEFINE R == Records(s, field)
           T == { b.at : b \in R }
<1>1. R \subseteq read.disk /\ \A b \in R : field \in DOMAIN b
  BY DEF Records, Vlrs, Evlrs
<1>2. IsFiniteSet(read.disk) /\ \A b \in R : b.at \in Nat
  BY <1>1, EntriesAreTyped DEF IsBlock
<1>3. IsFiniteSet(R)
  BY <1>1, <1>2, FS_Subset
<1>4. IsFiniteSet(T) /\ T \in SUBSET Nat /\ T # {}
  <2>1. IsFiniteSet(T)
    <3>1. [b \in R |-> b.at] \in Surjection(R, T)
      BY DEF Surjection
    <3> QED BY <3>1, <1>3, FS_Surjection
  <2> QED BY <2>1, <1>2
<1>5. \E m \in T : \A n \in T : n <= m
  BY <1>4, GreatestElement
<1>6. \E b \in R : \A c \in R : c.at <= b.at
  BY <1>5
<1>7. LastRecord(s, field) \in R
  BY <1>6 DEF LastRecord
<1> QED BY <1>1, <1>7

LEMMA OpenIsTyped ==
  ASSUME ReaderInv, Open
  PROVE  EntriesInv'
<1>1. read' = read /\ start' = read.pos
      /\ UNCHANGED <<hierarchy_entries, nodes>>
  BY DEF Open, iterVars
<1>2. \A s : IsLasFile(s)' = IsLasFile(s)
  BY <1>1, FileStays
<1>3. PageEntries(read)' = PageEntries(read)
  BY <1>1 DEF PageEntries
<1>4. CASE phase' \in {"garbage", "failed"}
  <2>1. page' \in Seq(PageEntries(read)) 
    BY <1>4 DEF Open, Fail, ReaderInv, EntriesInv
  <2> QED BY <1>1, <1>3, <1>4, <2>1 DEF ReaderInv, EntriesInv, InFile
<1>5. CASE phase' \notin {"garbage", "failed"}
  <2> DEFINE info == LastRecord(read.pos, "info").info
             entries == LastRecord(read.pos, "page").page
             n == RootEntries(info)
  <2>1. /\ IsLasFile(read.pos)
        /\ Records(read.pos, "info") # {}
        /\ copc_info' = info
        /\ Records(read.pos, "page") # {}
        /\ ~(n > Len(entries))
        /\ page' = SubSeq(entries, 1, n)
    BY <1>5 DEF Open, Fail
  <2>2. IsInfo(info)
    BY <2>1, LastRecordIsThere, EntriesAreTyped DEF IsBlock, ReaderInv
  <2>3. n \in Nat
    <3>1. info.root_hier_size \in Nat
      BY <2>2 DEF IsInfo
    <3> QED BY <3>1 DEF RootEntries
  <2>4. entries \in Seq(Entries) /\ ToSet(entries) \subseteq PageEntries(read)
    BY <2>1, LastRecordIsThere, EntriesAreTyped
    DEF IsBlock, PageEntries, ReaderInv
  <2>5. Len(entries) \in Nat /\ DOMAIN entries = 1 .. Len(entries)
    BY <2>4, LenProperties
  <2> HIDE DEF entries, n, info
  <2>6. \A i \in 1 .. n : entries[i] \in PageEntries(read)
    BY <2>1, <2>3, <2>4, <2>5 DEF ToSet
  <2>7. page' \in Seq(PageEntries(read))
    BY <2>1, <2>3, <2>6, SubSeqProperties
  <2>8. IsLasFile(start)'
    BY <2>1, <1>1, <1>2
  <2> QED BY <1>1, <1>3, <2>1, <2>2, <2>7, <2>8 DEF ReaderInv, EntriesInv
<1> QED BY <1>4, <1>5

LEMMA PopEntryIsTyped ==
  ASSUME ReaderInv, PopEntry
  PROVE  EntriesInv'
<1> DEFINE entry == Last(page)
           P == PageEntries(read)
<1> USE DEF ReaderInv
<1>1. /\ read'.disk = read.disk /\ start' = start /\ copc_info' = copc_info
      /\ phase = "paging" /\ page # <<>>
  BY DiskStays DEF PopEntry, SourceInv, Next, Running
<1>2. IsLasFile(start)' = IsLasFile(start)
  BY <1>1, FileStays
<1>3. PageEntries(read)' = P
  BY <1>1 DEF PageEntries
<1>4. entry \in P /\ Popped \in Seq(P)
  BY <1>1, FrontAndLast DEF EntriesInv, Popped
<1>5. entry \in Entries
  BY <1>4, EntriesAreTyped
<1>6. /\ entry.key \in VoxelKeys /\ entry.offset \in Nat
      /\ entry.byte_size \in Nat
  BY <1>5 DEF Entries
<1>7. copc_info.root_hier_offset \in Nat
  BY <1>1 DEF EntriesInv, InFile, IsInfo
<1>8. page' \in Seq(P)
  <2>1. CASE page' = Popped
    BY <2>1, <1>4
  <2>2. CASE page' = page
    BY <2>2 DEF EntriesInv
  <2>3. ASSUME NEW es \in PagesAt(ChildPage(entry), entry.byte_size),
               page' = Extended(es)
        PROVE  page' \in Seq(P)
    <3>1. ChildPage(entry) \in Int
      BY <1>6, <1>7 DEF ChildPage
    <3>2. es \in Seq(P)
      BY <3>1, <1>6, PagesAtAreTyped
    <3> QED BY <3>2, <2>3, <1>4, ConcatProperties DEF Extended
  <2> QED BY <2>1, <2>2, <2>3 DEF PopEntry
<1>9. /\ DOMAIN hierarchy_entries' \subseteq VoxelKeys
      /\ \A k \in DOMAIN hierarchy_entries' :
           /\ hierarchy_entries'[k] \in P
           /\ hierarchy_entries'[k].key = k
  <2>1. CASE hierarchy_entries' = hierarchy_entries
    BY <2>1 DEF EntriesInv
  <2>2. CASE hierarchy_entries' =
               [k \in DOMAIN hierarchy_entries \cup {entry.key} |->
                  IF k = entry.key THEN entry ELSE hierarchy_entries[k]]
    <3> HIDE DEF entry
    <3> QED BY <2>2, <1>4, <1>6 DEF EntriesInv
  <2> QED BY <2>1, <2>2 DEF PopEntry
<1> HIDE DEF P
<1> QED BY <1>1, <1>2, <1>3, <1>8, <1>9 DEF EntriesInv, InFile

\* All other steps leave the entries alone.
LEMMA EntriesStay ==
  ASSUME ReaderInv, [Next]_vars, ~Open, ~PopEntry
  PROVE  /\ UNCHANGED openVars
         /\ InFile' => InFile
         /\ phase' # "unopened" \/ UNCHANGED phase
         /\ phase' # "paging" \/ UNCHANGED phase
<1> USE DEF ReaderInv, SourceInv, openVars, InFile
<1>1. CASE UNCHANGED vars
  BY <1>1 DEF vars
<1>2. CASE \E q \in Queries : Query(q)
  BY <1>2 DEF Query
<1>3. CASE Running
  BY <1>3 DEF Running, EndPages, Visit, EndWalk, NextNode, NoMoreNodes,
              DecodePoint, DecodeGarbage, Fail
<1>4. CASE Failing
  BY <1>4 DEF Failing, OpenFails, EndWalkFails, NextPanics, Fail
<1>5. CASE CallNext \/ DropIter
  BY <1>5 DEF CallNext, DropIter
<1> QED BY <1>1, <1>2, <1>3, <1>4, <1>5 DEF Next

LEMMA EntriesInductive ==
  ASSUME ReaderInv, [Next]_vars
  PROVE  EntriesInv'
<1>1. CASE Open
  BY <1>1, OpenIsTyped
<1>2. CASE PopEntry
  BY <1>2, PopEntryIsTyped
<1>3. CASE ~Open /\ ~PopEntry
  <2>1. UNCHANGED openVars /\ (InFile' => InFile)
    BY <1>3, EntriesStay
  <2>2. read'.disk = read.disk /\ PageEntries(read)' = PageEntries(read)
    BY DiskStays DEF ReaderInv
  <2>3. IsLasFile(start)' = IsLasFile(start)
    BY <2>1, <2>2, FileStays DEF openVars
  <2> QED BY <2>1, <2>2, <2>3 DEF ReaderInv, EntriesInv, openVars
<1> QED BY <1>1, <1>2, <1>3

\* The nodes of an iterator, the last one taken away.
LEMMA NodesLeft ==
  ASSUME ReaderInv, Iterating, nodes # <<>>
  PROVE  /\ IsFiniteSet(ToSet(nodes)) /\ ToSet(nodes) \subseteq WithPoints
         /\ Last(nodes) \in ToSet(nodes)
         /\ ToSet(Front(nodes)) = ToSet(nodes) \ {Last(nodes)}
         /\ \A e \in ToSet(Front(nodes)) : e.offset > Last(nodes).offset
         /\ \A i, j \in DOMAIN Front(nodes) :
              i < j => Front(nodes)[i].offset > Front(nodes)[j].offset
<1> USE DEF ReaderInv
<1> DEFINE n == Len(nodes)
<1>1. nodes \in Seq(WithPoints)
  BY DEF WalkInv
<1>2. /\ n \in Nat \ {0} /\ DOMAIN nodes = 1 .. n
      /\ nodes \in [1 .. n -> WithPoints]
  BY <1>1, EmptySeq, LenProperties
<1>3. /\ Front(nodes) \in Seq(WithPoints)
      /\ Len(Front(nodes)) = n - 1
      /\ Last(nodes) = nodes[n]
      /\ \A i \in 1 .. n - 1 : Front(nodes)[i] = nodes[i]
      /\ ToSet(nodes) = ToSet(Front(nodes)) \cup {Last(nodes)}
  BY <1>1, FrontAndLast
<1>4. DOMAIN Front(nodes) = 1 .. n - 1
  BY <1>3, LenProperties
<1>5. \A i, j \in 1 .. n : i < j => nodes[i].offset > nodes[j].offset
  BY <1>2 DEF CountInv
<1>6. \A i \in 1 .. n - 1 : i \in 1 .. n /\ n \in 1 .. n /\ i < n
  BY <1>2
<1>7. \A e \in ToSet(Front(nodes)) : e.offset > Last(nodes).offset
  BY <1>3, <1>4, <1>5, <1>6 DEF ToSet
<1>8. Last(nodes).offset \in Nat
  BY <1>1, <1>3, FrontAndLast, StoredIsTyped
<1>9. Last(nodes) \notin ToSet(Front(nodes))
  BY <1>7, <1>8
<1>10. IsFiniteSet(ToSet(nodes))
  <2>1. nodes \in Surjection(1 .. n, ToSet(nodes))
    BY <1>2 DEF Surjection, ToSet
  <2>2. IsFiniteSet(1 .. n)
    BY <1>2, FS_Interval
  <2> QED BY <2>1, <2>2, FS_Surjection
<1>11. ToSet(nodes) \subseteq WithPoints
  BY <1>2 DEF ToSet
<1>12. \A i, j \in 1 .. n - 1 :
         i < j => Front(nodes)[i].offset > Front(nodes)[j].offset
  BY <1>3, <1>5, <1>6
<1> QED BY <1>3, <1>4, <1>7, <1>9, <1>10, <1>11, <1>12

LEMMA WalkInductive ==
  ASSUME ReaderInv, [Next]_vars
  PROVE  WalkInv'
<1> USE DEF ReaderInv
<1>1. CASE Open \/ PopEntry
  <2>1. satisfying_nodes = {} /\ nodes = <<>>
    BY <1>1 DEF Open, PopEntry, WalkInv
  <2>2. UNCHANGED <<satisfying_nodes, nodes>>
    BY <1>1 DEF Open, PopEntry, walkVars, iterVars
  <2>3. <<>> \in Seq(WithPoints')
    BY EmptySeq
  <2>4. IsFiniteSet({})
    BY FS_EmptySet
  <2> QED BY <2>1, <2>2, <2>3, <2>4 DEF WalkInv
<1>2. CASE ~Open /\ ~PopEntry
  <2>1. WithPoints' = WithPoints
    <3>1. hierarchy_entries' = hierarchy_entries
      BY <1>2, EntriesStay DEF openVars
    <3>2. Stored' = Stored
      BY <3>1 DEF Stored
    <3> QED BY <3>2 DEF WithPoints
  <2>2. phase' \in {"unopened", "paging"} => phase' = phase
    BY <1>2, EntriesStay
  <2>3. SUFFICES
          /\ satisfying_nodes' \subseteq WithPoints /\ IsFiniteSet(satisfying_nodes')
          /\ nodes' \in Seq(WithPoints)
          /\ phase' \in {"unopened", "paging"} =>
               satisfying_nodes' = {} /\ nodes' = <<>>
    BY <2>1 DEF WalkInv
  <2>4. CASE UNCHANGED <<satisfying_nodes, nodes>>
    BY <2>2, <2>4 DEF WalkInv
  <2>5. CASE \E q \in Queries : Query(q)
    <3>1. satisfying_nodes' = {} /\ nodes' = nodes /\ phase = "ready"
      BY <2>5 DEF Query
    <3> QED BY <2>2, <3>1, FS_EmptySet DEF WalkInv
  <2>6. CASE Visit
    <3>1. phase = "walking" /\ nodes' = nodes
      BY <2>6 DEF Visit, iterVars
    <3>2. CASE UNCHANGED satisfying_nodes
      BY <2>2, <3>1, <3>2 DEF WalkInv
    <3>3. CASE ~UNCHANGED satisfying_nodes
      <4> DEFINE k == Last(node_stack)
      <4>1. /\ Enters(k)
            /\ satisfying_nodes' = satisfying_nodes \cup
                 { e \in {hierarchy_entries[k]} : Takes(k) }
        BY <2>6, <3>3 DEF Visit
      <4>2. k \in DOMAIN hierarchy_entries
        BY <4>1 DEF Enters
      <4> HIDE DEF k
      <4>3. { e \in {hierarchy_entries[k]} : Takes(k) } \subseteq WithPoints
        BY <4>2 DEF Takes, WithPoints, Stored
      <4>4. IsFiniteSet({ e \in {hierarchy_entries[k]} : Takes(k) })
        BY FS_Singleton, FS_Subset,
           { e \in {hierarchy_entries[k]} : Takes(k) }
             \in SUBSET {hierarchy_entries[k]}
      <4>5. IsFiniteSet(satisfying_nodes')
        BY <4>1, <4>4, FS_Union DEF WalkInv
      <4> QED BY <2>2, <3>1, <4>1, <4>3, <4>5 DEF WalkInv
    <3> QED BY <3>2, <3>3
  <2>7. CASE EndWalk
    <3>1. phase = "walking" /\ satisfying_nodes' = satisfying_nodes
      BY <2>7 DEF EndWalk, walkVars
    <3>2. nodes' = nodes \/ nodes' = ByOffset(satisfying_nodes)
      BY <2>7 DEF EndWalk
    <3>3. ByOffset(satisfying_nodes) \in Seq(WithPoints)
      <4>1. satisfying_nodes \subseteq WithPoints /\ IsFiniteSet(satisfying_nodes)
        BY DEF WalkInv
      <4>2. ByOffset(satisfying_nodes) \in Seq(satisfying_nodes)
        BY <4>1, StoredIsTyped, ByOffsetSorts
      <4> QED BY <4>1, <4>2, SeqMonotonic
    <3> QED BY <2>2, <3>1, <3>2, <3>3 DEF WalkInv
  <2>8. CASE NextNode
    <3>1. /\ phase = "next" /\ satisfying_nodes' = satisfying_nodes
          /\ nodes # <<>> /\ nodes' = Front(nodes)
      BY <2>8 DEF NextNode, walkVars
    <3>2. Front(nodes) \in Seq(WithPoints)
      BY <3>1, NextNodeIsTyped
    <3> QED BY <2>2, <3>1, <3>2 DEF WalkInv
  <2> QED BY <1>2, <2>4, <2>5, <2>6, <2>7, <2>8
      DEF Next, Running, Failing, EndPages, NoMoreNodes, DecodePoint,
          DecodeGarbage, OpenFails, EndWalkFails, NextPanics, CallNext,
          DropIter, vars, walkVars, iterVars
<1> QED BY <1>1, <1>2

\* The counters at the start of an iteration, at the next node, and after a
\* point.
LEMMA EndWalkCounts ==
  ASSUME ReaderInv, EndWalk
  PROVE  CountInv'
<1> USE DEF ReaderInv
<1>1. /\ start' = start /\ UNCHANGED <<returned, done>>
      /\ phase' \in {"iterating", "ready"}
  BY DEF EndWalk, openVars
<1>2. CASE phase' = "ready"
  <2>1. UNCHANGED <<nodes, countVars, decompressor>>
    BY <1>2 DEF EndWalk
  <2> QED BY <1>1, <1>2, <2>1 DEF CountInv, countVars, Iterating
<1>3. CASE phase' = "iterating"
  <2> DEFINE S == satisfying_nodes
  <2>1. /\ nodes' = ByOffset(S)
        /\ node_points_left' = 0
        /\ total_points_left' = TotalPoints(S)
        /\ read' = [read EXCEPT !.pos = start]
        /\ decompressor' = [start |-> read'.pos, fresh |-> FALSE, left |-> {}]
    BY <1>3 DEF EndWalk, DataStart
  <2>2. S \subseteq WithPoints /\ IsFiniteSet(S)
    BY DEF WalkInv
  <2>3. /\ ToSet(nodes') = S
        /\ \A i, j \in DOMAIN nodes' :
             i < j => nodes'[i].offset > nodes'[j].offset
    BY <2>1, <2>2, StoredIsTyped, ByOffsetSorts
  <2>4. TotalPoints(S) \in Nat
    <3>1. \A e \in S : e.point_count \in Nat
      BY <2>2, StoredIsTyped
    <3> QED BY <3>1, <2>2, TotalPointsTakes
  <2>5. read'.pos = start /\ start \in Nat
    BY <2>1 DEF SourceInv
  <2>6. TotalPoints(ToSet(nodes))' = TotalPoints(S)
    BY <2>3
  <2> QED BY <1>1, <1>3, <2>1, <2>3, <2>4, <2>5, <2>6 DEF CountInv
<1> QED BY <1>1, <1>2, <1>3

LEMMA NextNodeCounts ==
  ASSUME ReaderInv, NextNode
  PROVE  CountInv'
<1> USE DEF ReaderInv
<1> DEFINE e == Last(nodes)
           S == ToSet(nodes)
<1>1. /\ phase = "next" /\ phase' = "next" /\ start' = start
      /\ UNCHANGED <<total_points_left, returned, done>>
      /\ node_points_left = 0 /\ nodes # <<>>
      /\ nodes' = Front(nodes)
      /\ node_points_left' = e.point_count
      /\ decompressor' = Reset
  BY DEF NextNode, openVars
<1>2. Iterating /\ total_points_left = TotalPoints(S)
  <2>1. total_points_left = node_points_left + TotalPoints(S)
    BY <1>1 DEF CountInv, Iterating
  <2>2. TotalPoints(S) \in Nat
    <3>1. IsFiniteSet(S) /\ S \subseteq WithPoints
      BY <1>1, NodesLeft DEF Iterating
    <3>2. \A f \in S : f.point_count \in Nat
      BY <3>1, StoredIsTyped
    <3> QED BY <3>1, <3>2, TotalPointsTakes
  <2> QED BY <1>1, <2>1, <2>2 DEF Iterating
<1>3. /\ IsFiniteSet(S) /\ S \subseteq WithPoints /\ e \in S
      /\ ToSet(nodes') = S \ {e}
      /\ \A i, j \in DOMAIN nodes' :
           i < j => nodes'[i].offset > nodes'[j].offset
  BY <1>1, <1>2, NodesLeft
<1>4. \A f \in S : f.point_count \in Nat
  BY <1>3, StoredIsTyped
<1>5. total_points_left = e.point_count + TotalPoints(S \ {e})
  BY <1>2, <1>3, <1>4, TotalPointsTakes
<1>6. decompressor' \in [start : Nat, fresh : BOOLEAN, left : SUBSET Points]
      /\ decompressor'.start = start
  <2>1. /\ decompressor \in [start : Nat, fresh : BOOLEAN, left : SUBSET Points]
        /\ decompressor.start = start
    BY <1>2 DEF CountInv
  <2>2. decompressor' = [decompressor EXCEPT !.fresh = TRUE, !.left = {}]
    BY <1>1 DEF Reset
  <2> QED BY <2>1, <2>2
<1>7. TotalPoints(ToSet(nodes))' = TotalPoints(S \ {e})
  BY <1>3
<1>8. node_points_left' \in Nat
  BY <1>1, <1>3, <1>4
<1> HIDE DEF e, S
<1> QED BY <1>1, <1>3, <1>5, <1>6, <1>7, <1>8 DEF CountInv

LEMMA DecodePointCounts ==
  ASSUME ReaderInv, DecodePoint
  PROVE  CountInv'
<1> USE DEF ReaderInv
<1>1. PICK d \in Loaded : \E p \in d.left :
        decompressor' = [d EXCEPT !.left = @ \ {p}]
        /\ (returned' = returned \/ returned' = [returned EXCEPT ![p] = @ + 1])
  BY DEF DecodePoint
<1>0. PICK p \in d.left :
        decompressor' = [d EXCEPT !.left = @ \ {p}]
        /\ (returned' = returned \/ returned' = [returned EXCEPT ![p] = @ + 1])
  BY <1>1
<1>2. /\ phase = "next" /\ phase' \in {"next", "iterating"}
      /\ node_points_left > 0
      /\ node_points_left' = node_points_left - 1
      /\ total_points_left' = total_points_left - 1
      /\ nodes' = nodes /\ start' = start /\ done' = done
  BY DEF DecodePoint, openVars
<1>3. Iterating
  BY <1>2 DEF Iterating
<1> DEFINE D == [start : Nat, fresh : BOOLEAN, left : SUBSET Points]
           T == TotalPoints(ToSet(nodes))
<1>4. d \in D /\ d.start = start
  <2>1. decompressor \in D /\ decompressor.start = start
    BY <1>3 DEF CountInv
  <2>2. CASE decompressor.fresh
    <3>1. PICK b \in ChunksAt(read.pos) :
            d = [decompressor EXCEPT !.fresh = FALSE, !.left = b.points]
      BY <2>2 DEF Loaded
    <3>2. b.points \subseteq Points
      BY ChunkIsTyped
    <3> QED BY <2>1, <3>1, <3>2
  <2>3. CASE ~decompressor.fresh
    BY <2>1, <2>3 DEF Loaded
  <2> QED BY <2>2, <2>3
<1>5. decompressor' \in D /\ decompressor'.start = start
  BY <1>0, <1>4
<1>6. returned' \in [Points -> Nat]
  <2>1. returned \in [Points -> Nat]
    BY DEF CountInv
  <2>2. p \in Points
    BY <1>0, <1>4
  <2> QED BY <1>0, <2>1, <2>2
<1>7. /\ node_points_left \in Nat /\ total_points_left \in Nat
      /\ total_points_left = node_points_left + T
  BY <1>3 DEF CountInv
<1>8. T \in Nat
  <2>1. CASE nodes = <<>>
    <3>1. ToSet(nodes) = {}
      BY <2>1 DEF ToSet
    <3> QED BY <3>1, FS_EmptySet, TotalPointsTakes
  <2>2. CASE nodes # <<>>
    <3>1. IsFiniteSet(ToSet(nodes)) /\ ToSet(nodes) \subseteq WithPoints
      BY <1>3, <2>2, NodesLeft
    <3>2. \A f \in ToSet(nodes) : f.point_count \in Nat
      BY <3>1, StoredIsTyped
    <3> QED BY <3>1, <3>2, TotalPointsTakes
  <2> QED BY <2>1, <2>2
<1>9. TotalPoints(ToSet(nodes))' = T
  BY <1>2
<1> HIDE DEF T, D
<1>10. /\ node_points_left' \in Nat /\ total_points_left' \in Nat
       /\ total_points_left' = node_points_left' + T
  BY <1>2, <1>7, <1>8
<1>11. \A i, j \in DOMAIN nodes : i < j => nodes[i].offset > nodes[j].offset
  BY <1>3 DEF CountInv
<1>12. done' \in BOOLEAN
  BY <1>2 DEF CountInv
<1> QED BY <1>2, <1>5, <1>6, <1>9, <1>10, <1>11, <1>12 DEF CountInv, D

LEMMA CountInductive ==
  ASSUME ReaderInv, [Next]_vars
  PROVE  CountInv'
<1> USE DEF ReaderInv
<1>1. CASE EndWalk
  BY <1>1, EndWalkCounts
<1>2. CASE NextNode
  BY <1>2, NextNodeCounts
<1>3. CASE DecodePoint
  BY <1>3, DecodePointCounts
<1>4. CASE \E q \in Queries : Query(q)
  <2>1. /\ UNCHANGED <<node_points_left, total_points_left, decompressor>>
        /\ done' = FALSE
        /\ returned' = [p \in Points |-> 0]
    BY <1>4 DEF Query, countVars
  <2>2. ~Iterating'
    BY <1>4 DEF Query, Iterating
  <2>3. [p \in Points |-> 0] \in [Points -> Nat]
    OBVIOUS
  <2> QED BY <2>1, <2>2, <2>3 DEF CountInv
<1>5. CASE CallNext \/ NoMoreNodes
  BY <1>5 DEF CallNext, NoMoreNodes, CountInv, countVars, openVars, Iterating
<1>6. CASE Open \/ PopEntry \/ EndPages
  <2>1. UNCHANGED iterVars
    BY <1>6 DEF Open, PopEntry, EndPages
  <2>2. ~Iterating'
    BY <1>6 DEF Open, PopEntry, EndPages, Iterating, Fail
  <2>3. UNCHANGED <<node_points_left, total_points_left, decompressor,
                    returned, done>>
    BY <2>1 DEF iterVars, countVars
  <2> QED BY <2>2, <2>3 DEF CountInv
<1>7. CASE UNCHANGED <<iterVars, start>> /\ (Iterating' => Iterating)
  <2>1. UNCHANGED <<nodes, node_points_left, total_points_left, decompressor,
                    returned, done, start>>
    BY <1>7 DEF iterVars, countVars
  <2> QED BY <1>7, <2>1 DEF CountInv
<1>8. CASE Visit \/ DecodeGarbage \/ Failing \/ DropIter \/ UNCHANGED vars
  <2>1. UNCHANGED <<iterVars, start>>
    BY <1>8 DEF Visit, DecodeGarbage, Failing, OpenFails, EndWalkFails,
                NextPanics, DropIter, vars, openVars
  <2>2. Iterating' => Iterating
    BY <1>8 DEF Visit, DecodeGarbage, Failing, OpenFails, EndWalkFails,
                NextPanics, DropIter, vars, Iterating, Fail
  <2> QED BY <1>7, <2>1, <2>2
<1> QED BY <1>1, <1>2, <1>3, <1>4, <1>5, <1>6, <1>8 DEF Next, Running

LEMMA ReaderInitially ==
  ASSUME IsFile(read), ReaderInit
  PROVE  ReaderInv
<1> USE DEF ReaderInit
<1>1. SourceInv
  BY DEF SourceInv, Phases
<1>2. EntriesInv
  BY EmptySeq DEF EntriesInv, InFile
<1>3. WalkInv
  BY EmptySeq, FS_EmptySet DEF WalkInv
<1>4. CountInv
  BY DEF CountInv, Iterating
<1> QED BY <1>1, <1>2, <1>3, <1>4 DEF ReaderInv

LEMMA ReaderInvariant == Spec => []ReaderInv
<1>1. Init => ReaderInv
  BY ReaderInitially, FilesAssumption DEF Init
<1>2. ReaderInv /\ [Next]_vars => ReaderInv'
  BY SourceInductive, EntriesInductive, WalkInductive, CountInductive
  DEF ReaderInv
<1> QED BY <1>1, <1>2, PTL DEF Spec

(***************************************************************************)
(* Every field of the reader and the iterator keeps its type, whatever is  *)
(* in the file: the two counters of points, which are unsigned (reader.rs  *)
(* 370-371), never wrap around, and an iterator has no node but those      *)
(* stored.                                                                 *)
(***************************************************************************)
THEOREM ReaderIsTyped == Spec => []ReaderTypeOK
<1>1. ReaderInv => ReaderTypeOK
  <2> SUFFICES ASSUME ReaderInv PROVE ReaderTypeOK
    OBVIOUS
  <2> USE DEF ReaderInv
  <2>1. \A i \in DOMAIN nodes : nodes[i] \in Stored
    <3>1. nodes \in Seq(WithPoints)
      BY DEF WalkInv
    <3> QED BY <3>1, LenProperties DEF WithPoints
  <2> QED BY <2>1 DEF ReaderTypeOK, SourceInv, IsFile, EntriesInv, WalkInv,
                      CountInv, WithPoints
<1> QED BY <1>1, ReaderInvariant, PTL

\* Nor do the records of the source change, or its chunks.
LEMMA RecordsStay ==
  ASSUME read'.disk = read.disk
  PROVE  /\ \A s, field : /\ Records(s, field)' = Records(s, field)
                          /\ LastRecord(s, field)' = LastRecord(s, field)
         /\ \A pos : ChunksAt(pos)' = ChunksAt(pos)
<1>1. \A s : Header(s)' = Header(s)
  BY DEF Header, Headers
<1>2. \A s : FirstEvlr(s)' = FirstEvlr(s)
  BY <1>1 DEF FirstEvlr
<1>3. \A s : Evlrs(s)' = Evlrs(s)
  BY <1>1, <1>2 DEF Evlrs
<1>4. \A s : Vlrs(s)' = Vlrs(s)
  BY <1>1 DEF Vlrs
<1>5. \A s, field : Records(s, field)' = Records(s, field)
  BY <1>3, <1>4 DEF Records
<1>6. \A s, field : LastRecord(s, field)' = LastRecord(s, field)
  BY <1>5 DEF LastRecord
<1>7. \A pos : ChunksAt(pos)' = ChunksAt(pos)
  BY DEF ChunksAt
<1> QED BY <1>5, <1>6, <1>7

LEMMA FileEntriesStay ==
  ASSUME ReaderInv, [Next]_vars, phase # "unopened"
  PROVE  /\ start' = start /\ copc_info' = copc_info
         /\ FileEntries' = FileEntries
         /\ HasChildPages' = HasChildPages
         /\ EntriesFit' = EntriesFit
         /\ IsLasFile(start)' = IsLasFile(start)
<1>1. read'.disk = read.disk
  BY DiskStays DEF ReaderInv
<1>2. start' = start /\ copc_info' = copc_info
  <2>1. CASE PopEntry
    BY <2>1 DEF PopEntry
  <2>2. CASE ~PopEntry
    <3>1. ~Open
      BY DEF Open
    <3> QED BY <2>2, <3>1, EntriesStay DEF openVars
  <2> QED BY <2>1, <2>2
<1>3. FileEntries' = FileEntries
  <2>1. LastRecord(start, "page")' = LastRecord(start, "page")
    BY <1>1, <1>2, RecordsStay
  <2> QED BY <2>1 DEF FileEntries
<1>4. HasChildPages' = HasChildPages
  BY <1>3 DEF HasChildPages
<1>5. EntriesFit' = EntriesFit
  <2>1. \A e : ChunksAt(e.offset + start)' = ChunksAt(e.offset + start)
    BY <1>1, <1>2, RecordsStay
  <2> QED BY <1>3, <2>1 DEF EntriesFit
<1>6. IsLasFile(start)' = IsLasFile(start)
  BY <1>1, <1>2, FileStays
<1> QED BY <1>2, <1>3, <1>4, <1>5, <1>6

-----------------------------------------------------------------------------
(* Opening a file.                                                         *)

\* The hierarchy is a single page, which the info vlr gives in full length,
\* with one entry for a node.
OnePage ==
  /\ ~HasChildPages
  /\ \A e, f \in FileEntries : e.key = f.key => e = f
  /\ Len(LastRecord(start, "page").page) <= RootEntries(copc_info)

\* What is stored and what is still to be stored make up the page.
PageInv ==
  /\ phase = "unopened" => DOMAIN hierarchy_entries = {}
  /\ Opened => page = <<>>
  /\ InFile /\ ~HasChildPages => Stored \cup ToSet(page) \subseteq FileEntries
  /\ InFile /\ OnePage => Stored \cup ToSet(page) = FileEntries

LEMMA OpenTakesPage ==
  ASSUME ReaderInv, PageInv, Open
  PROVE  PageInv'
<1> USE DEF ReaderInv
<1>1. read' = read /\ start' = read.pos /\ phase = "unopened"
      /\ hierarchy_entries' = hierarchy_entries
      /\ phase' \in {"garbage", "failed", "paging"}
  BY DEF Open, Fail
<1>2. CASE phase' # "paging"
  BY <1>1, <1>2 DEF PageInv, Opened, InFile
<1>3. CASE phase' = "paging"
  <2> DEFINE entries == LastRecord(read.pos, "page").page
             n == RootEntries(copc_info')
  <2>1. /\ Records(read.pos, "page") # {} /\ Records(read.pos, "info") # {}
        /\ copc_info' = LastRecord(read.pos, "info").info
        /\ ~(n > Len(entries))
        /\ page' = SubSeq(entries, 1, n)
    BY <1>3 DEF Open, Fail
  <2>2. entries \in Seq(Entries)
    BY <2>1, LastRecordIsThere, EntriesAreTyped DEF IsBlock
  <2>3. Len(entries) \in Nat /\ DOMAIN entries = 1 .. Len(entries)
    BY <2>2, LenProperties
  <2>4. n \in Nat
    <3>1. IsInfo(copc_info')
      BY <2>1, LastRecordIsThere, EntriesAreTyped DEF IsBlock
    <3>2. copc_info'.root_hier_size \in Nat
      BY <3>1 DEF IsInfo
    <3> QED BY <3>2 DEF RootEntries
  <2>5. FileEntries' = ToSet(entries)
        /\ LastRecord(start, "page")' = LastRecord(read.pos, "page")
    <3>1. LastRecord(start, "page")' = LastRecord(read.pos, "page")
      BY <1>1, RecordsStay
    <3> QED BY <3>1 DEF FileEntries
  <2>6. Stored' = {}
    BY <1>1 DEF PageInv, Stored
  <2> HIDE DEF entries, n
  <2>7. ToSet(page') \subseteq ToSet(entries)
    <3>1. \A i \in 1 .. n : entries[i] \in ToSet(entries)
      BY <2>1, <2>3, <2>4 DEF ToSet
    <3>2. page' \in Seq(ToSet(entries))
      BY <2>1, <2>4, <3>1, SubSeqProperties
    <3> QED BY <3>2, LenProperties DEF ToSet
  <2>8. ASSUME OnePage' PROVE ToSet(page') = ToSet(entries)
    <3>1. Len(entries) <= n
      BY <2>5, <2>8 DEF OnePage, entries, n
    <3>2. n = Len(entries)
      <4>1. ~(n > Len(entries))
        BY <2>1
      <4>2. Len(entries) \in Nat
        BY <2>3
      <4> DEFINE l == Len(entries)
      <4> HIDE DEF l
      <4>3. l \in Nat /\ ~(n > l) /\ l <= n
        BY <4>1, <4>2, <3>1 DEF l
      <4>4. n = l
        BY <4>3, <2>4
      <4> QED BY <4>4 DEF l
    <3>3. page' = entries
      BY <2>1, <2>2, <3>2, SubSeqFull
    <3> QED BY <3>3
  <2> QED BY <1>1, <1>3, <2>5, <2>6, <2>7, <2>8 DEF PageInv, Opened
<1> QED BY <1>2, <1>3

LEMMA PopEntryTakesPage ==
  ASSUME ReaderInv, PageInv, PopEntry
  PROVE  PageInv'
<1> USE DEF ReaderInv
<1> DEFINE entry == Last(page)
<1>1. /\ phase = "paging" /\ page # <<>> /\ phase' \in {"paging", "garbage"}
  BY DEF PopEntry
<1>2. /\ start' = start /\ copc_info' = copc_info
      /\ FileEntries' = FileEntries
      /\ HasChildPages' = HasChildPages
  BY <1>1, FileEntriesStay DEF Next, Running
<1>3. OnePage' = OnePage
  <2>1. read'.disk = read.disk
    BY DiskStays DEF Next, Running
  <2>2. LastRecord(start, "page")' = LastRecord(start, "page")
    BY <1>2, <2>1, RecordsStay
  <2> QED BY <1>2, <2>2 DEF OnePage
<1>4. ASSUME ~HasChildPages, phase' = "paging"
      PROVE  /\ Stored' \cup ToSet(page') \subseteq FileEntries
             /\ OnePage => Stored' \cup ToSet(page') = FileEntries
  <2>1. page \in Seq(PageEntries(read)) /\ ToSet(page) \subseteq FileEntries
    BY <1>1, <1>4 DEF PageInv, InFile, EntriesInv
  <2>2. ToSet(page) = ToSet(Popped) \cup {entry}
    BY <1>1, <2>1, FrontAndLast DEF Popped
  <2>3. entry \in FileEntries /\ entry.point_count # -1
    BY <1>4, <2>1, <2>2 DEF HasChildPages
  <2>4. /\ page' = Popped
        /\ hierarchy_entries' =
             [k \in DOMAIN hierarchy_entries \cup {entry.key} |->
                IF k = entry.key THEN entry ELSE hierarchy_entries[k]]
    BY <2>3 DEF PopEntry
  <2> HIDE DEF entry
  <2>5. entry \in Stored' /\ Stored' \subseteq Stored \cup {entry}
    BY <2>4 DEF Stored
  <2>6. ASSUME OnePage PROVE Stored \subseteq Stored'
    <3>1. SUFFICES ASSUME NEW k \in DOMAIN hierarchy_entries
                   PROVE  hierarchy_entries[k] \in Stored'
      BY DEF Stored
    <3>2. hierarchy_entries[k].key = k /\ hierarchy_entries[k] \in FileEntries
      BY <1>1, <1>4 DEF EntriesInv, PageInv, InFile, Stored
    <3>3. k = entry.key => hierarchy_entries[k] = entry
      BY <2>3, <2>6, <3>2 DEF OnePage
    <3>4. hierarchy_entries'[k] = hierarchy_entries[k]
      BY <2>4, <3>3
    <3> QED BY <2>4, <3>4 DEF Stored
  <2>7. Stored \cup ToSet(page) \subseteq FileEntries
        /\ (OnePage => Stored \cup ToSet(page) = FileEntries)
    BY <1>1, <1>4 DEF PageInv, InFile
  <2> QED BY <2>2, <2>3, <2>4, <2>5, <2>6, <2>7
<1>5. OnePage => ~HasChildPages
  BY DEF OnePage
<1> QED BY <1>1, <1>2, <1>3, <1>4, <1>5 DEF PageInv, InFile, Opened

LEMMA PageInductive ==
  ASSUME ReaderInv, PageInv, [Next]_vars
  PROVE  PageInv'
<1>1. CASE Open
  BY <1>1, OpenTakesPage
<1>2. CASE PopEntry
  BY <1>2, PopEntryTakesPage
<1>3. CASE ~Open /\ ~PopEntry
  <2>1. UNCHANGED openVars /\ (InFile' => InFile)
        /\ (phase' = "unopened" => phase = "unopened")
    BY <1>3, EntriesStay
  <2>2. Stored' = Stored /\ page' = page
    BY <2>1 DEF openVars, Stored
  <2>3. InFile => FileEntries' = FileEntries /\ HasChildPages' = HasChildPages
    BY FileEntriesStay DEF InFile
  <2>4. InFile => OnePage' = OnePage
    <3>1. read'.disk = read.disk
      BY DiskStays DEF ReaderInv
    <3>2. LastRecord(start, "page")' = LastRecord(start, "page")
      BY <2>1, <3>1, RecordsStay DEF openVars
    <3> QED BY <2>1, <2>3, <3>2 DEF OnePage, openVars
  <2>5. Opened' => Opened \/ EndPages
    BY <1>3 DEF Next, Running, Failing, Query, EndPages, Visit, EndWalk,
         NextNode, NoMoreNodes, DecodePoint, DecodeGarbage, OpenFails,
         EndWalkFails, NextPanics, CallNext, DropIter, vars, Opened, Fail
  <2>6. Opened' => page' = <<>>
    BY <2>2, <2>5 DEF EndPages, PageInv
  <2> QED BY <2>1, <2>2, <2>3, <2>4, <2>6 DEF PageInv, openVars
<1> QED BY <1>1, <1>2, <1>3

LEMMA PageInvariant == Spec => [](ReaderInv /\ PageInv)
<1>1. Init => PageInv
  BY DEF Init, ReaderInit, PageInv, Opened, InFile
<1>2. ReaderInv /\ PageInv /\ [Next]_vars => PageInv'
  BY PageInductive
<1> QED BY <1>1, <1>2, ReaderInvariant, PTL DEF Spec

(***************************************************************************)
(* new stores exactly the entries of a file whose hierarchy is one page.   *)
(***************************************************************************)
THEOREM OnePageIsRead == Spec => [](OnePage => EntriesComplete)
<1>1. ReaderInv /\ PageInv => (OnePage => EntriesComplete)
  <2> SUFFICES ASSUME PageInv, OnePage, Opened
               PROVE  Stored = { e \in FileEntries : e.point_count # -1 }
    BY DEF EntriesComplete
  <2>1. page = <<>> /\ InFile
    BY DEF PageInv, Opened, InFile
  <2>2. ToSet(page) = {}
    BY <2>1 DEF ToSet
  <2>3. Stored = FileEntries
    BY <2>1, <2>2 DEF PageInv
  <2> QED BY <2>3 DEF OnePage, HasChildPages
<1> QED BY <1>1, PageInvariant, PTL

-----------------------------------------------------------------------------
(* The chunk the iterator is in.                                           *)

\* The points of the current node that are still to be decoded.
Current ==
  CASE node_points_left = 0 -> {}
    [] node_points_left # 0 /\ decompressor.fresh ->
         UNION { b.points : b \in ChunksAt(read.pos) }
    [] node_points_left # 0 /\ ~decompressor.fresh -> decompressor.left

\* A chunk whose points the entry counts right, or too low.
Fits(e) == e.point_count <= Cardinality(Content(e))

\* The chunks of the nodes to come, and the current one, have enough points.
ChunkInv ==
  /\ Iterating /\ node_points_left > 0 /\ ~decompressor.fresh =>
       IsFiniteSet(decompressor.left)
  /\ Iterating /\ (\A e \in WithPoints : Fits(e)) =>
       node_points_left <= Cardinality(Current)
  /\ phase = "garbage" /\ IsLasFile(start) => HasChildPages \/ ~EntriesFit

LEMMA ContentIsTyped ==
  ASSUME ReaderInv, NEW e
  PROVE  /\ IsFiniteSet(Content(e)) /\ Content(e) \subseteq Points
         /\ \A b \in ChunksAt(e.offset + start) : Content(e) = b.points
<1>1. SourceInv
  BY DEF ReaderInv
<1>2. CASE ChunksAt(e.offset + start) = {}
  <2>1. Content(e) = {}
    BY <1>2 DEF Content
  <2> QED BY <2>1, <1>2, FS_EmptySet
<1>3. CASE ChunksAt(e.offset + start) # {}
  <2>1. PICK b \in ChunksAt(e.offset + start) : TRUE
    BY <1>3
  <2>2. ChunksAt(e.offset + start) = {b} /\ IsFiniteSet(b.points)
        /\ b.points \subseteq Points
    BY <1>1, <2>1, ChunkIsTyped
  <2>3. Content(e) = b.points
    BY <2>2 DEF Content
  <2> QED BY <2>2, <2>3
<1> QED BY <1>2, <1>3

\* What a node has in its chunk, and in which order the nodes come, does not
\* change while an iterator runs.
LEMMA ContentStays ==
  ASSUME ReaderInv, [Next]_vars, phase # "unopened"
  PROVE  \A e : Content(e)' = Content(e)
<1>1. read'.disk = read.disk /\ start' = start
  BY DiskStays, FileEntriesStay DEF ReaderInv
<1>2. \A e : ChunksAt(e.offset + start)' = ChunksAt(e.offset + start)
  BY <1>1, RecordsStay
<1> QED BY <1>2 DEF Content

\* The source is sought to a chunk.
LEMMA NextNodeIsCurrent ==
  ASSUME ReaderInv, NextNode
  PROVE  /\ Current' = Content(Last(nodes))
         /\ node_points_left' = Last(nodes).point_count
         /\ decompressor'.fresh
         /\ Last(nodes) \in WithPoints
<1> DEFINE e == Last(nodes)
<1> USE DEF ReaderInv
<1>1. /\ phase = "next" /\ nodes # <<>>
      /\ node_points_left' = e.point_count
      /\ read' = [read EXCEPT !.pos = e.offset + decompressor.start]
      /\ decompressor' = [decompressor EXCEPT !.fresh = TRUE, !.left = {}]
  BY DEF NextNode, Reset
<1>2. /\ e \in WithPoints /\ e.point_count \in Nat \ {0}
  BY <1>1, NextNodeIsTyped
<1>3. /\ decompressor \in [start : Nat, fresh : BOOLEAN, left : SUBSET Points]
      /\ decompressor.start = start
  BY <1>1 DEF CountInv, Iterating
<1>4. decompressor'.fresh = TRUE
  BY <1>1, <1>3
<1>5. read'.pos = e.offset + start /\ read'.disk = read.disk
  BY <1>1, <1>3 DEF SourceInv
<1>6. \A pos : ChunksAt(pos)' = ChunksAt(pos)
  BY <1>5, RecordsStay
<1>7. ChunksAt(read.pos)' = ChunksAt(e.offset + start)
  BY <1>5, <1>6
<1> HIDE DEF e
<1>8. node_points_left' # 0
  BY <1>1, <1>2
<1>9. Current' = UNION { b.points : b \in ChunksAt(e.offset + start) }
  BY <1>4, <1>7, <1>8 DEF Current
<1> QED BY <1>1, <1>2, <1>4, <1>9 DEF Content, e

\* A point is decoded.
LEMMA DecodePointTakes ==
  ASSUME ReaderInv, ChunkInv, DecodePoint
  PROVE  \E p \in Current :
           /\ IsFiniteSet(Current) /\ Current \subseteq Points
           /\ ~decompressor'.fresh
           /\ decompressor'.left = Current \ {p}
           /\ IF InQueryBounds(p)
              THEN /\ phase' = "iterating"
                   /\ returned' = [returned EXCEPT ![p] = @ + 1]
              ELSE UNCHANGED <<phase, returned>>
<1> USE DEF ReaderInv
<1>1. PICK d \in Loaded : \E p \in d.left :
        /\ decompressor' = [d EXCEPT !.left = @ \ {p}]
        /\ IF InQueryBounds(p)
           THEN /\ phase' = "iterating"
                /\ returned' = [returned EXCEPT ![p] = @ + 1]
           ELSE UNCHANGED <<phase, returned>>
  BY DEF DecodePoint
<1>2. PICK p \in d.left :
        /\ decompressor' = [d EXCEPT !.left = @ \ {p}]
        /\ IF InQueryBounds(p)
           THEN /\ phase' = "iterating"
                /\ returned' = [returned EXCEPT ![p] = @ + 1]
           ELSE UNCHANGED <<phase, returned>>
  BY <1>1
<1>3. /\ Iterating /\ node_points_left > 0 /\ node_points_left # 0
      /\ decompressor \in [start : Nat, fresh : BOOLEAN, left : SUBSET Points]
  BY DEF DecodePoint, CountInv, Iterating
<1>4. /\ d.left = Current /\ d.fresh = FALSE
      /\ IsFiniteSet(Current) /\ Current \subseteq Points
      /\ DOMAIN d = {"start", "fresh", "left"}
  <2>1. CASE decompressor.fresh
    <3>1. PICK b \in ChunksAt(read.pos) :
            d = [decompressor EXCEPT !.fresh = FALSE, !.left = b.points]
      BY <2>1 DEF Loaded
    <3>2. ChunksAt(read.pos) = {b} /\ IsFiniteSet(b.points)
          /\ b.points \subseteq Points
      BY ChunkIsTyped
    <3>3. Current = b.points
      BY <3>2, <2>1, <1>3 DEF Current
    <3> QED BY <3>1, <3>2, <3>3, <1>3
  <2>2. CASE ~decompressor.fresh
    <3>1. d = decompressor
      BY <2>2 DEF Loaded
    <3>2. Current = decompressor.left
      BY <2>2, <1>3 DEF Current
    <3>3. IsFiniteSet(decompressor.left)
      BY <2>2, <1>3 DEF ChunkInv
    <3> QED BY <3>1, <3>2, <3>3, <2>2, <1>3
  <2> QED BY <2>1, <2>2
<1>5. ~decompressor'.fresh /\ decompressor'.left = Current \ {p}
  BY <1>2, <1>4
<1> QED BY <1>2, <1>4, <1>5

LEMMA DecodePointCurrent ==
  ASSUME ReaderInv, ChunkInv, DecodePoint,
         node_points_left <= Cardinality(Current)
  PROVE  node_points_left' <= Cardinality(Current')
<1>1. /\ node_points_left \in Nat /\ node_points_left > 0
      /\ node_points_left' = node_points_left - 1
  BY DEF DecodePoint, ReaderInv, CountInv
<1>2. PICK p \in Current :
           /\ IsFiniteSet(Current)
           /\ ~decompressor'.fresh
           /\ decompressor'.left = Current \ {p}
  BY DecodePointTakes
<1>3. /\ Cardinality(Current \ {p}) = Cardinality(Current) - 1
      /\ Cardinality(Current) \in Nat
  BY <1>2, FS_RemoveElement, FS_CardinalityType
<1>4. CASE node_points_left' = 0
  <2>1. Current' = {}
    BY <1>4 DEF Current
  <2> QED BY <1>4, <2>1, FS_EmptySet
<1>5. CASE node_points_left' # 0
  <2>1. Current' = Current \ {p}
    BY <1>2, <1>5 DEF Current
  <2> QED BY <1>1, <1>3, <2>1
<1> QED BY <1>4, <1>5

LEMMA GarbageIsTheFiles ==
  ASSUME ReaderInv, PageInv, ChunkInv, [Next]_vars,
         phase # "garbage", phase' = "garbage",
         IsLasFile(start)'
  PROVE  HasChildPages' \/ ~EntriesFit'
<1> USE DEF ReaderInv
<1>1. Open \/ PopEntry \/ DecodeGarbage
  BY DEF Next, Running, Failing, Query, EndPages, Visit, EndWalk,
         NextNode, NoMoreNodes, DecodePoint, DecodeGarbage, OpenFails,
         EndWalkFails, NextPanics, CallNext, DropIter, vars, Fail
<1>2. CASE Open
  <2>1. ~IsLasFile(read.pos) /\ read' = read /\ start' = read.pos
    BY <1>2 DEF Open, Fail
  <2>2. IsLasFile(start)' = IsLasFile(read.pos)
    BY <2>1, FileStays
  <2> QED BY <2>1, <2>2
<1>3. CASE PopEntry
  <2> DEFINE entry == Last(page)
  <2>1. /\ phase = "paging" /\ page # <<>> /\ entry.point_count = -1
    BY <1>3 DEF PopEntry
  <2>2. page \in Seq(PageEntries(read))
    BY DEF EntriesInv
  <2>3. entry \in ToSet(page)
    BY <2>1, <2>2, FrontAndLast
  <2>4. HasChildPages
    <3>1. SUFFICES ASSUME ~HasChildPages PROVE FALSE
      OBVIOUS
    <3>2. entry \in FileEntries
      BY <2>1, <2>3, <3>1 DEF PageInv, InFile
    <3> QED BY <2>1, <3>1, <3>2 DEF HasChildPages
  <2> QED BY <2>1, <2>4, FileEntriesStay
<1>4. CASE DecodeGarbage
  <2>1. /\ phase = "next" /\ node_points_left > 0
        /\ \A d \in Loaded : d.left = {}
    BY <1>4 DEF DecodeGarbage
  <2>2. Iterating /\ InFile
    BY <2>1 DEF Iterating, InFile
  <2>3. /\ decompressor \in [start : Nat, fresh : BOOLEAN, left : SUBSET Points]
        /\ node_points_left \in Nat
    BY DEF CountInv
  <2>4. Current = {}
    <3>1. CASE decompressor.fresh
      <4>1. ASSUME NEW b \in ChunksAt(read.pos) PROVE b.points = {}
        <5>1. [decompressor EXCEPT !.fresh = FALSE, !.left = b.points] \in Loaded
          BY <3>1 DEF Loaded
        <5>2. [decompressor EXCEPT !.fresh = FALSE, !.left = b.points].left
                = b.points
          BY <2>3
        <5> QED BY <2>1, <5>1, <5>2
      <4> QED BY <2>1, <3>1, <4>1 DEF Current
    <3>2. CASE ~decompressor.fresh
      <4>1. decompressor.left = {}
        BY <2>1, <3>2 DEF Loaded
      <4> QED BY <2>1, <2>3, <3>2, <4>1 DEF Current
    <3> QED BY <3>1, <3>2
  <2>5. ~(node_points_left <= Cardinality(Current))
    BY <2>1, <2>3, <2>4, FS_EmptySet
  <2>6. PICK e \in WithPoints : ~Fits(e)
    BY <2>2, <2>5 DEF ChunkInv
  <2>7. ASSUME ~HasChildPages, EntriesFit PROVE FALSE
    <3>1. e \in FileEntries
      BY <2>2, <2>7 DEF PageInv, WithPoints
    <3>2. PICK b \in ChunksAt(e.offset + start) :
            e.point_count <= Cardinality(b.points)
      BY <2>6, <2>7, <3>1 DEF EntriesFit, WithPoints
    <3>3. Content(e) = b.points
      BY <3>2, ContentIsTyped
    <3> QED BY <2>6, <3>2, <3>3 DEF Fits
  <2> QED BY <2>1, <2>7, FileEntriesStay
<1> QED BY <1>1, <1>2, <1>3, <1>4

LEMMA ChunkInductive ==
  ASSUME ReaderInv, PageInv, ChunkInv, [Next]_vars
  PROVE  ChunkInv'
<1> USE DEF ReaderInv
<1>1. phase' = "garbage" /\ IsLasFile(start)' => HasChildPages' \/ ~EntriesFit'
  <2>1. CASE phase = "garbage" /\ phase' = "garbage"
    BY <2>1, FileEntriesStay DEF ChunkInv
  <2>2. CASE phase # "garbage" /\ phase' = "garbage"
    BY <2>2, GarbageIsTheFiles
  <2> QED BY <2>1, <2>2
<1>2. ASSUME Iterating'
      PROVE  /\ node_points_left' > 0 /\ ~decompressor'.fresh =>
                  IsFiniteSet(decompressor'.left)
             /\ (\A e \in WithPoints' : Fits(e)') =>
                  node_points_left' <= Cardinality(Current')
  <2>1. Iterating \/ EndWalk
    BY <1>2 DEF Next, Running, Failing, Query, Open, PopEntry, EndPages, Visit,
         NextNode, NoMoreNodes, DecodePoint, DecodeGarbage, OpenFails,
         EndWalkFails, NextPanics, CallNext, DropIter, vars, Fail, Iterating
  <2>2. ~Open /\ ~PopEntry /\ phase # "unopened"
    BY <2>1 DEF Open, PopEntry, EndWalk, Iterating
  <2>3. hierarchy_entries' = hierarchy_entries
    BY <2>2, EntriesStay DEF openVars
  <2>4. WithPoints' = WithPoints
    BY <2>3 DEF WithPoints, Stored
  <2>5. \A e : Fits(e)' = Fits(e)
    BY <2>2, ContentStays DEF Fits
  <2>6. CASE EndWalk
    <3>1. node_points_left' = 0
      BY <1>2, <2>6 DEF EndWalk, Iterating
    <3>2. Current' = {}
      BY <3>1 DEF Current
    <3> QED BY <3>1, <3>2, FS_EmptySet
  <2>7. CASE NextNode
    <3>1. /\ Current' = Content(Last(nodes)) /\ Last(nodes) \in WithPoints
          /\ node_points_left' = Last(nodes).point_count /\ decompressor'.fresh
      BY <2>7, NextNodeIsCurrent
    <3> QED BY <2>4, <2>5, <3>1 DEF Fits
  <2>8. CASE DecodePoint
    <3>1. IsFiniteSet(decompressor'.left)
      BY <2>8, DecodePointTakes, FS_RemoveElement
    <3>2. Iterating
      BY <2>8 DEF DecodePoint, Iterating
    <3> QED BY <2>4, <2>5, <2>8, <3>1, <3>2, DecodePointCurrent DEF ChunkInv
  <2>9. CASE Iterating /\ ~EndWalk /\ ~NextNode /\ ~DecodePoint
    <3>1. UNCHANGED <<read, countVars, decompressor>>
      BY <1>2, <2>9 DEF Next, Running, Failing, Query, Open, PopEntry, EndPages,
           Visit, NoMoreNodes, DecodeGarbage, OpenFails, EndWalkFails,
           NextPanics, CallNext, DropIter, vars, iterVars, Iterating
    <3>2. Current' = Current
      BY <3>1 DEF Current, countVars, ChunksAt
    <3> QED BY <2>4, <2>5, <2>9, <3>1, <3>2 DEF ChunkInv, countVars
  <2> QED BY <2>1, <2>6, <2>7, <2>8, <2>9
<1> QED BY <1>1, <1>2 DEF ChunkInv

LEMMA ChunkInvariant == Spec => [](ReaderInv /\ PageInv /\ ChunkInv)
<1>1. Init => ChunkInv
  BY DEF Init, ReaderInit, ChunkInv, Iterating
<1>2. ReaderInv /\ PageInv /\ ChunkInv /\ [Next]_vars => ChunkInv'
  BY ChunkInductive
<1> QED BY <1>1, <1>2, PageInvariant, PTL DEF Spec

(***************************************************************************)
(* A reader opened on a las file runs into garbage only by the fault of    *)
(* the file.                                                               *)
(***************************************************************************)
THEOREM GarbageComesFromTheFile == Spec => [](IsLasFile(start) => NoGarbage)
<1>1. ChunkInv => (IsLasFile(start) => NoGarbage)
  BY DEF ChunkInv, NoGarbage
<1> QED BY <1>1, ChunkInvariant, PTL
=============================================================================
