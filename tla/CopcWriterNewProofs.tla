------------------------- MODULE CopcWriterNewProofs ------------------------
(***************************************************************************)
(* Theorems about CopcWriterNew, for every value of its constants: what it *)
(* hands to the writer, and what an error leaves behind.                   *)
(***************************************************************************)
EXTENDS CopcWriterNew, TLAPS, FiniteSetTheorems, SequenceTheorems

(***************************************************************************)
(* As long as new runs it has not returned, and what it has checked so far *)
(* holds.                                                                  *)
(***************************************************************************)
Running == step # "end" => outcome = "none"

SizesChecked ==
  step \notin {"start", "sizes"} /\ outcome \in {"none", "Ok"} =>
    /\ 1 <= min_node_size /\ min_node_size < max_node_size

CountCleared ==
  step \in {"build", "write"} \/ outcome = "Ok" => number_of_points = 0

NothingWritten ==
  /\ step # "end" => output \in {"old", "empty"}
  /\ step = "start" => output = "old"

Checked == Running /\ SizesChecked /\ CountCleared /\ NothingWritten

(***************************************************************************)
(* A size below one asks for the default, which is at least one.           *)
(***************************************************************************)
LEMMA DefaultsAreSizes ==
  ASSUME NEW size \in Int, NEW default \in Int, 1 <= default
  PROVE  OrDefault(size, default) \in Int /\ 1 <= OrDefault(size, default)
BY DEF OrDefault

(***************************************************************************)
(* What passes the test of the sizes (writer.rs 119-133) is in order.      *)
(***************************************************************************)
LEMMA CheckSizesChecks ==
  ASSUME CheckSizes, step' # "end"
  PROVE  1 <= min_node_size' /\ min_node_size' < max_node_size'
<1>1. PICK min_size, max_size \in Sizes :
        /\ OrDefault(min_size, MIN_NODE_SIZE_DEFAULT)
             < OrDefault(max_size, MAX_NODE_SIZE_DEFAULT)
        /\ min_node_size' = OrDefault(min_size, MIN_NODE_SIZE_DEFAULT)
        /\ max_node_size' = OrDefault(max_size, MAX_NODE_SIZE_DEFAULT)
  <2>1. PICK min_size, max_size \in Sizes :
          LET min == OrDefault(min_size, MIN_NODE_SIZE_DEFAULT)
              max == OrDefault(max_size, MAX_NODE_SIZE_DEFAULT)
          IN  IF min >= max
              THEN Return("InvalidNodeSize") /\ UNCHANGED sizeVars
              ELSE /\ Go("records")
                   /\ min_node_size' = min
                   /\ max_node_size' = max
    BY DEF CheckSizes
  <2>2. /\ OrDefault(min_size, MIN_NODE_SIZE_DEFAULT) \in Int
        /\ OrDefault(max_size, MAX_NODE_SIZE_DEFAULT) \in Int
    BY NewAssumption DEF OrDefault
  <2>. QED
    BY <2>1, <2>2 DEF Return
<1>. QED
  BY <1>1, NewAssumption, DefaultsAreSizes

(***************************************************************************)
(* Every check keeps what the earlier ones have found.                     *)
(***************************************************************************)
LEMMA CheckedInductive ==
  ASSUME Checked, [Next]_vars
  PROVE  Checked'
<1>. USE DEF Checked, Running, SizesChecked, CountCleared, NothingWritten,
             sizeVars, recordVars, formatVars, Go, Return
<1>1. CASE FromPath
  BY <1>1 DEF FromPath, CreatedFor
<1>2. CASE FromPathFails
  BY <1>2 DEF FromPathFails
<1>3. CASE OnStream
  BY <1>3 DEF OnStream
<1>4. CASE CheckSizes
  BY <1>4, CheckSizesChecks DEF CheckSizes
<1>5. CASE CollectRecords
  BY <1>5 DEF CollectRecords
<1>6. CASE FindCrs
  BY <1>6 DEF FindCrs
<1>7. CASE CheckBounds
  BY <1>7 DEF CheckBounds
<1>8. CASE CheckFormat
  BY <1>8 DEF CheckFormat, CountAfter
<1>9. CASE BuildHeader \/ WriteHeader
  BY <1>9 DEF BuildHeader, WriteHeader
<1>10. CASE UNCHANGED vars
  BY <1>10 DEF vars
<1>. QED
  BY <1>1, <1>2, <1>3, <1>4, <1>5, <1>6, <1>7, <1>8, <1>9, <1>10 DEF Next

(***************************************************************************)
(* The construction never forgets what it has checked.                     *)
(***************************************************************************)
THEOREM AlwaysChecked == Spec => []Checked
<1>1. Init => Checked
  BY DEF Init, Checked, Running, SizesChecked, CountCleared, NothingWritten
<1>. QED
  BY <1>1, CheckedInductive, PTL DEF Spec

(***************************************************************************)
(* Whatever sizes a caller asks for and whatever header it passes, a       *)
(* writer that is made has limits the proofs about CopcWriter assume, and  *)
(* has counted no point (writer.rs 119-133, 271-273).                      *)
(***************************************************************************)
THEOREM NewMakesWriters == Spec => []WriterAssumptions
<1>1. Checked => WriterAssumptions
  BY DEF Checked, Running, SizesChecked, CountCleared, WriterAssumptions
<1>. QED
  BY <1>1, AlwaysChecked, PTL

-----------------------------------------------------------------------------
(* What a fold from the left computes: it goes through the prefixes.       *)

\* A set of naturals has a least element.
LEMMA LeastElement ==
  ASSUME NEW T \in SUBSET Nat, T # {}
  PROVE  \E m \in T : \A n \in T : m <= n
<1>1. IsWellFoundedOn(OpToRel(<, Nat), Nat)
  BY NatLessThanWellFounded
<1>2. PICK m \in T : \A n \in T : ~(<<n, m>> \in OpToRel(<, Nat))
  BY <1>1, WFMin
<1>3. ASSUME NEW n \in T PROVE m <= n
  <2>1. <<n, m>> \in Nat \X Nat /\ <<n, m>>[1] = n /\ <<n, m>>[2] = m
    OBVIOUS
  <2>2. ~(n < m)
    BY <1>2, <2>1 DEF OpToRel
  <2>. QED
    BY <2>2
<1>. QED
  BY <1>3

\* What holds at 0 and is handed on holds up to n.
LEMMA UpTo ==
  ASSUME NEW n \in Nat, NEW S, 0 \in S,
         \A m \in 0 .. (n - 1) : m \in S => m + 1 \in S
  PROVE  0 .. n \subseteq S
<1>. DEFINE Bad == (0 .. n) \ S
<1>1. SUFFICES ASSUME Bad # {} PROVE FALSE
  OBVIOUS
<1>2. PICK m \in Bad : \A k \in Bad : m <= k
  BY <1>1, LeastElement, Bad \in SUBSET Nat
<1>3. m - 1 \in 0 .. (n - 1) /\ m - 1 \notin Bad
  BY <1>2
<1>4. (m - 1) + 1 = m
  BY <1>2
<1>. QED
  BY <1>2, <1>3, <1>4

\* Of numbers up to m + 1, m + 1 is the greatest.
LEMMA GreatestIsMax ==
  ASSUME NEW m \in Nat, NEW s \in SUBSET (1 .. (m + 1)), m + 1 \in s
  PROVE  Max(s) = m + 1
<1>1. \A y \in s : m + 1 >= y
  OBVIOUS
<1>2. ASSUME NEW x \in s, \A y \in s : x >= y
      PROVE  x = m + 1
  <2>1. x \in 1 .. (m + 1) /\ x >= m + 1
    BY <1>2
  <2>. QED
    BY <2>1
<1>. QED
  BY <1>1, <1>2 DEF Max

(***************************************************************************)
(* A fold over the indices up to n has a value for each of their subsets.  *)
(***************************************************************************)
IsFold(n, base, next, g) ==
  \A s \in SUBSET (1 .. n) :
    g[s] = IF s = {} THEN base ELSE next[<<g[s \ {Max(s)}], Max(s)>>]

LEMMA FoldExists ==
  ASSUME NEW n \in Nat, NEW V, NEW base \in V, NEW next \in [V \X (1 .. n) -> V]
  PROVE  \E g \in [SUBSET (1 .. n) -> V] : IsFold(n, base, next, g)
<1>. DEFINE S == { m \in 0 .. n : \E g \in [SUBSET (1 .. m) -> V] :
                                    IsFold(m, base, next, g) }
<1>1. 0 \in S
  <2>. DEFINE g == [s \in SUBSET (1 .. 0) |-> base]
  <2>1. 1 .. 0 = {} /\ 0 \in 0 .. n
    OBVIOUS
  <2>2. g \in [SUBSET (1 .. 0) -> V] /\ \A s \in SUBSET (1 .. 0) : g[s] = base
    OBVIOUS
  <2>3. \A s \in SUBSET (1 .. 0) : s = {}
    BY <2>1
  <2>. HIDE DEF g
  <2>4. IsFold(0, base, next, g)
    BY <2>2, <2>3 DEF IsFold
  <2>. QED
    BY <2>1, <2>2, <2>4
<1>2. ASSUME NEW m \in 0 .. (n - 1), m \in S
      PROVE  m + 1 \in S
  <2>. DEFINE k == m + 1
  <2>1. PICK g \in [SUBSET (1 .. m) -> V] : IsFold(m, base, next, g)
    BY <1>2
  <2>. DEFINE h == [s \in SUBSET (1 .. k) |->
                      IF k \in s THEN next[<<g[s \ {k}], k>>] ELSE g[s]]
  <2>2. /\ k \in 0 .. n /\ k \in 1 .. n /\ m \in Nat
        /\ \A s \in SUBSET (1 .. k) : k \in s => s \ {k} \in SUBSET (1 .. m)
        /\ \A s \in SUBSET (1 .. k) : k \notin s => s \in SUBSET (1 .. m)
        /\ \A s \in SUBSET (1 .. m) : s \in SUBSET (1 .. k) /\ k \notin s
    OBVIOUS
  <2>3. ASSUME NEW s \in SUBSET (1 .. k), k \in s
        PROVE  h[s] = next[<<g[s \ {k}], k>>] /\ h[s] \in V /\ Max(s) = k
               /\ h[s \ {k}] = g[s \ {k}]
    <3>1. s \ {k} \in SUBSET (1 .. m)
      BY <2>2, <2>3
    <3>2. g[s \ {k}] \in V
      BY <2>1, <3>1
    <3>3. <<g[s \ {k}], k>> \in V \X (1 .. n)
      BY <2>2, <3>2
    <3>4. h[s] = next[<<g[s \ {k}], k>>]
      BY <2>3
    <3>5. h[s \ {k}] = g[s \ {k}]
      BY <2>2, <3>1
    <3>6. Max(s) = k
      BY <2>2, <2>3, GreatestIsMax
    <3>. HIDE DEF h, k
    <3>. QED
      BY <3>3, <3>4, <3>5, <3>6
  <2>4. ASSUME NEW s \in SUBSET (1 .. k), k \notin s
        PROVE  h[s] = g[s] /\ h[s] \in V /\ s \in SUBSET (1 .. m)
    BY <2>1, <2>2, <2>4
  <2>5. h = [s \in SUBSET (1 .. k) |-> h[s]]
    OBVIOUS
  <2>. HIDE DEF h, k
  <2>6. h \in [SUBSET (1 .. k) -> V]
    BY <2>3, <2>4, <2>5
  <2>7. IsFold(k, base, next, h)
    <3>. SUFFICES ASSUME NEW s \in SUBSET (1 .. k)
                  PROVE  h[s] = IF s = {} THEN base
                                ELSE next[<<h[s \ {Max(s)}], Max(s)>>]
      BY DEF IsFold
    <3>1. CASE k \in s
      BY <2>3, <3>1
    <3>2. CASE k \notin s
      <4>1. s \in SUBSET (1 .. m) /\ s \ {Max(s)} \in SUBSET (1 .. m)
        BY <2>4, <3>2
      <4>2. h[s] = g[s] /\ h[s \ {Max(s)}] = g[s \ {Max(s)}]
        BY <2>2, <2>4, <4>1
      <4>. QED
        BY <2>1, <4>1, <4>2 DEF IsFold
    <3>. QED
      BY <3>1, <3>2
  <2>. QED
    BY <2>2, <2>6, <2>7 DEF k
<1>3. n \in S
  <2>1. n \in 0 .. n
    OBVIOUS
  <2>. HIDE DEF S
  <2>. QED
    BY <1>1, <1>2, <2>1, UpTo
<1>. QED
  BY <1>3

\* The prefixes of a fold.
LEMMA FoldOfPrefix ==
  ASSUME NEW m \in Nat
  PROVE  /\ 1 .. (m + 1) # {} /\ Max(1 .. (m + 1)) = m + 1
         /\ (1 .. (m + 1)) \ {m + 1} = 1 .. m
<1>1. m + 1 \in 1 .. (m + 1) /\ (1 .. (m + 1)) \ {m + 1} = 1 .. m
  OBVIOUS
<1>. QED
  BY <1>1, GreatestIsMax

\* Any numbers up to n have a greatest one.
LEMMA MaxIsElement ==
  ASSUME NEW n \in Nat, NEW s \in SUBSET (1 .. n), s # {}
  PROVE  Max(s) \in s
<1>. DEFINE S == { m \in 0 .. n : \A t \in SUBSET (1 .. m) :
                                   t # {} => Max(t) \in t }
<1>1. 0 \in S
  <2>1. 0 \in 0 .. n /\ 1 .. 0 = {}
    OBVIOUS
  <2>. QED
    BY <2>1
<1>2. ASSUME NEW m \in 0 .. (n - 1), m \in S
      PROVE  m + 1 \in S
  <2>1. m + 1 \in 0 .. n /\ m \in Nat
    OBVIOUS
  <2>2. ASSUME NEW t \in SUBSET (1 .. (m + 1)), t # {}
        PROVE  Max(t) \in t
    <3>1. CASE m + 1 \in t
      BY <2>1, <3>1, GreatestIsMax
    <3>2. CASE m + 1 \notin t
      <4>1. t \in SUBSET (1 .. m)
        BY <2>1, <3>2
      <4>. QED
        BY <1>2, <2>2, <4>1
    <3>. QED
      BY <3>1, <3>2
  <2>. QED
    BY <2>1, <2>2
<1>3. n \in S
  <2>1. n \in 0 .. n
    OBVIOUS
  <2>. HIDE DEF S
  <2>. QED
    BY <1>1, <1>2, <2>1, UpTo
<1>. QED
  BY <1>3

LEMMA ToSetOfAppend ==
  ASSUME NEW S, NEW s \in Seq(S), NEW x \in S
  PROVE  Append(s, x) \in Seq(S) /\ ToSet(Append(s, x)) = ToSet(s) \cup {x}
<1>1. /\ Append(s, x) \in Seq(S) /\ Len(Append(s, x)) = Len(s) + 1
      /\ \A i \in 1 .. Len(s) : Append(s, x)[i] = s[i]
      /\ Append(s, x)[Len(s) + 1] = x
  BY AppendProperties
<1>2. /\ Len(s) \in Nat /\ DOMAIN s = 1 .. Len(s)
      /\ DOMAIN Append(s, x) = 1 .. (Len(s) + 1)
  BY <1>1, LenProperties
<1>3. 1 .. (Len(s) + 1) = (1 .. Len(s)) \cup {Len(s) + 1}
  BY <1>2
<1>. QED
  BY <1>1, <1>2, <1>3 DEF ToSet

-----------------------------------------------------------------------------
(* The records that are passed on.                                         *)

IsKept(passed, records, g) ==
  g = [s \in SUBSET (DOMAIN records) |->
         IF s = {} THEN <<>>
         ELSE LET i == Max(s)
              IN  IF records[i] \in passed THEN Append(g[s \ {i}], records[i])
                  ELSE g[s \ {i}]]

LEMMA KeptIsFold ==
  ASSUME NEW passed, NEW records
  PROVE  Kept(passed, records)
           = (CHOOSE g : IsKept(passed, records, g))[DOMAIN records]
BY DEF Kept, IsKept, FoldLeft, MapThenFoldSet

LEMMA KeptExists ==
  ASSUME NEW passed, NEW S, NEW records \in Seq(S)
  PROVE  \E g : IsKept(passed, records, g)
<1>. DEFINE n == Len(records)
            V == Seq(S)
            next == [x \in V \X (1 .. n) |->
                       IF records[x[2]] \in passed
                       THEN Append(x[1], records[x[2]]) ELSE x[1]]
<1>1. /\ n \in Nat /\ DOMAIN records = 1 .. n
      /\ \A i \in 1 .. n : records[i] \in S
  BY LenProperties
<1>2. <<>> \in V
  OBVIOUS
<1>3. ASSUME NEW v \in V, NEW i \in 1 .. n
      PROVE  /\ next[<<v, i>>] = IF records[i] \in passed
                                 THEN Append(v, records[i]) ELSE v
             /\ next[<<v, i>>] \in V
  <2>1. <<v, i>> \in V \X (1 .. n) /\ <<v, i>>[1] = v /\ <<v, i>>[2] = i
    OBVIOUS
  <2>2. next[<<v, i>>] = IF records[i] \in passed
                         THEN Append(v, records[i]) ELSE v
    BY <2>1
  <2>3. Append(v, records[i]) \in Seq(S)
    BY <1>1, AppendProperties
  <2>. HIDE DEF next
  <2>. QED
    BY <2>2, <2>3
<1>4. next = [x \in V \X (1 .. n) |-> next[x]]
  OBVIOUS
<1>. HIDE DEF next, V, n
<1>5. next \in [V \X (1 .. n) -> V]
  <2>1. \A x \in V \X (1 .. n) : next[x] \in V
    BY <1>3
  <2>. QED
    BY <1>4, <2>1
<1>6. PICK g \in [SUBSET (1 .. n) -> V] : IsFold(n, <<>>, next, g)
  BY <1>1, <1>2, <1>5, FoldExists
<1>. DEFINE term(s) ==
              IF s = {} THEN <<>>
              ELSE IF records[Max(s)] \in passed
              THEN Append(g[s \ {Max(s)}], records[Max(s)])
              ELSE g[s \ {Max(s)}]
<1>7. ASSUME NEW s \in SUBSET (1 .. n)
      PROVE  g[s] = term(s)
  <2>1. CASE s = {}
    BY <1>6, <2>1 DEF IsFold
  <2>2. CASE s # {}
    <3>1. g[s] = next[<<g[s \ {Max(s)}], Max(s)>>]
      BY <1>6, <2>2 DEF IsFold
    <3>2. g[s \ {Max(s)}] \in V
      BY <1>6
    <3>3. Max(s) \in s
      BY <1>1, <2>2, MaxIsElement
    <3>. QED
      BY <1>3, <2>2, <3>1, <3>2, <3>3
  <2>. QED
    BY <2>1, <2>2
<1>8. g = [s \in SUBSET (1 .. n) |-> term(s)]
  <2>. HIDE DEF term
  <2>. QED
    BY <1>6, <1>7
<1>9. IsKept(passed, records, g)
  BY <1>1, <1>8 DEF IsKept
<1>. QED
  BY <1>9

\* The records kept of a prefix.
LEMMA KeptOfPrefixes ==
  ASSUME NEW passed, NEW S, NEW records \in Seq(S)
  PROVE  \E h : /\ Kept(passed, records) = h[Len(records)]
                /\ h[0] = <<>>
                /\ \A m \in 0 .. (Len(records) - 1) :
                     h[m + 1] = IF records[m + 1] \in passed
                                THEN Append(h[m], records[m + 1]) ELSE h[m]
<1>. DEFINE n == Len(records)
            g == CHOOSE f : IsKept(passed, records, f)
            h == [m \in 0 .. n |-> g[1 .. m]]
<1>1. n \in Nat /\ DOMAIN records = 1 .. n
  BY LenProperties
<1>2. IsKept(passed, records, g)
  BY KeptExists
<1>3. Kept(passed, records) = g[1 .. n]
  BY <1>1, KeptIsFold
<1>. HIDE DEF g
<1>4. \A s \in SUBSET (1 .. n) :
        g[s] = IF s = {} THEN <<>>
               ELSE IF records[Max(s)] \in passed
               THEN Append(g[s \ {Max(s)}], records[Max(s)])
               ELSE g[s \ {Max(s)}]
  BY <1>1, <1>2 DEF IsKept
<1>5. h[n] = g[1 .. n] /\ h[0] = g[1 .. 0]
  BY <1>1
<1>6. h[0] = <<>>
  <2>1. 1 .. 0 = {} /\ 1 .. 0 \in SUBSET (1 .. n)
    OBVIOUS
  <2>. HIDE DEF h
  <2>. QED
    BY <1>4, <1>5, <2>1
<1>7. ASSUME NEW m \in 0 .. (n - 1)
      PROVE  h[m + 1] = IF records[m + 1] \in passed
                        THEN Append(h[m], records[m + 1]) ELSE h[m]
  <2>1. /\ m \in Nat /\ m \in 0 .. n /\ m + 1 \in 0 .. n
        /\ 1 .. (m + 1) \in SUBSET (1 .. n)
    BY <1>1
  <2>2. h[m] = g[1 .. m] /\ h[m + 1] = g[1 .. (m + 1)]
    BY <2>1
  <2>. HIDE DEF h, n
  <2>3. /\ 1 .. (m + 1) # {} /\ Max(1 .. (m + 1)) = m + 1
        /\ (1 .. (m + 1)) \ {m + 1} = 1 .. m
    BY <2>1, FoldOfPrefix
  <2>4. g[1 .. (m + 1)] =
          IF records[m + 1] \in passed
          THEN Append(g[1 .. m], records[m + 1]) ELSE g[1 .. m]
    BY <1>4, <2>1, <2>3
  <2>. QED
    BY <2>2, <2>4
<1>. HIDE DEF h
<1>. QED
  BY <1>3, <1>5, <1>6, <1>7

(***************************************************************************)
(* Kept are just the records that pass, each wherever it was.              *)
(***************************************************************************)
LEMMA KeptPass ==
  ASSUME NEW passed, NEW S, NEW records \in Seq(S)
  PROVE  /\ Kept(passed, records) \in Seq(passed)
         /\ ToSet(Kept(passed, records)) = ToSet(records) \cap passed
<1>. DEFINE n == Len(records)
<1>1. n \in Nat /\ DOMAIN records = 1 .. n
  BY LenProperties
<1>2. PICK h : /\ Kept(passed, records) = h[n]
               /\ h[0] = <<>>
               /\ \A m \in 0 .. (n - 1) :
                    h[m + 1] = IF records[m + 1] \in passed
                               THEN Append(h[m], records[m + 1]) ELSE h[m]
  BY KeptOfPrefixes
<1>. DEFINE Before(m) == { records[i] : i \in 1 .. m }
            Good == { m \in 0 .. n : /\ h[m] \in Seq(passed)
                                     /\ ToSet(h[m]) = Before(m) \cap passed }
<1>3. 0 \in Good
  <2>1. <<>> \in Seq(passed) /\ ToSet(<<>>) = {}
    BY DEF ToSet
  <2>2. Before(0) = {} /\ 0 \in 0 .. n
    BY <1>1
  <2>. QED
    BY <1>2, <2>1, <2>2
<1>4. ASSUME NEW m \in 0 .. (n - 1), m \in Good
      PROVE  m + 1 \in Good
  <2>. DEFINE r == records[m + 1]
  <2>1. m + 1 \in 0 .. n /\ m \in Nat
    BY <1>1
  <2>2. Before(m + 1) = Before(m) \cup {r}
    <3>1. 1 .. (m + 1) = (1 .. m) \cup {m + 1}
      BY <2>1
    <3>. QED
      BY <3>1
  <2>. HIDE DEF Before, r
  <2>3. CASE r \in passed
    <3>1. h[m + 1] = Append(h[m], r)
      BY <1>2, <2>3 DEF r
    <3>2. /\ Append(h[m], r) \in Seq(passed)
          /\ ToSet(Append(h[m], r)) = ToSet(h[m]) \cup {r}
      BY <1>4, <2>3, ToSetOfAppend
    <3>. QED
      BY <1>4, <2>1, <2>2, <2>3, <3>1, <3>2
  <2>4. CASE r \notin passed
    <3>1. h[m + 1] = h[m]
      BY <1>2, <2>4 DEF r
    <3>. QED
      BY <1>4, <2>1, <2>2, <2>4, <3>1
  <2>. QED
    BY <2>3, <2>4
<1>5. n \in Good
  <2>1. n \in 0 .. n
    BY <1>1
  <2>. HIDE DEF Good
  <2>. QED
    BY <1>1, <1>3, <1>4, <2>1, UpTo
<1>6. Before(n) = ToSet(records)
  BY <1>1 DEF ToSet
<1>. QED
  BY <1>2, <1>5, <1>6

\* A header of any length is a sequence.
LEMMA HeadersAreSequences ==
  ASSUME NEW S, NEW n \in Nat, NEW s \in BoundedSeq(S, n)
  PROVE  s \in Seq(S)
<1>1. PICK m \in 0 .. n : s \in [1 .. m -> S]
  BY DEF BoundedSeq, SeqOf
<1>. QED
  BY <1>1, SeqDef

\* Two sequences, one after the other.
Joined(u, s, k, t, l) ==
  /\ Len(u) = k + l
  /\ \A i \in 1 .. k : u[i] = s[i]
  /\ \A i \in (k + 1) .. (k + l) : u[i] = t[i - k]

LEMMA ConcatJoins ==
  ASSUME NEW T, NEW s \in Seq(T), NEW t \in Seq(T)
  PROVE  s \o t \in Seq(T) /\ Joined(s \o t, s, Len(s), t, Len(t))
<1>. DEFINE u == s \o t
            k == Len(s)
            l == Len(t)
<1>1. /\ u \in Seq(T) /\ Len(u) = k + l
      /\ \A i \in 1 .. (k + l) : u[i] = IF i <= k THEN s[i] ELSE t[i - k]
  BY ConcatProperties
<1>2. k \in Nat /\ l \in Nat
  BY LenProperties
<1>. HIDE DEF u, k, l
<1>3. /\ \A i \in 1 .. k : i \in 1 .. (k + l) /\ i <= k
      /\ \A i \in (k + 1) .. (k + l) : i \in 1 .. (k + l) /\ ~(i <= k)
  BY <1>2
<1>4. u \in Seq(T) /\ Joined(u, s, k, t, l)
  BY <1>1, <1>3 DEF Joined
<1>. QED
  BY <1>4 DEF u, k, l

(***************************************************************************)
(* The file of a writer: its own records, and those passed on.             *)
(***************************************************************************)
OwnRecordsOnce(file, v, e) ==
  /\ \A kind \in {"info", "laszip", "hierarchy"} :
       Cardinality({ i \in DOMAIN file : file[i] = kind }) = 1
  /\ ToSet(file) = {"info", "laszip", "hierarchy"} \cup ToSet(v) \cup ToSet(e)

LEMMA RecordsInOrder ==
  ASSUME NEW S, NEW v \in Seq(S), NEW e \in Seq(S),
         "info" \notin S, "laszip" \notin S, "hierarchy" \notin S
  PROVE  OwnRecordsOnce((<<"info", "laszip">> \o v) \o <<"hierarchy">> \o e, v, e)
<1>. DEFINE T == S \cup {"info", "laszip", "hierarchy"}
            a == <<"info", "laszip">>
            b == <<"hierarchy">>
            n == Len(v)
            m == Len(e)
            p == a \o v
            q == p \o b
            r == q \o e
<1>1. /\ a \in Seq(T) /\ Len(a) = 2 /\ a[1] = "info" /\ a[2] = "laszip"
      /\ b \in Seq(T) /\ Len(b) = 1 /\ b[1] = "hierarchy"
  OBVIOUS
<1>2. /\ v \in Seq(T) /\ n \in Nat /\ DOMAIN v = 1 .. n
      /\ \A i \in 1 .. n : v[i] \in S
      /\ e \in Seq(T) /\ m \in Nat /\ DOMAIN e = 1 .. m
      /\ \A i \in 1 .. m : e[i] \in S
  <2>1. /\ n \in Nat /\ DOMAIN v = 1 .. n /\ m \in Nat /\ DOMAIN e = 1 .. m
        /\ \A i \in 1 .. n : v[i] \in S
        /\ \A i \in 1 .. m : e[i] \in S
    BY LenProperties
  <2>2. v \in Seq(T) /\ e \in Seq(T)
    OBVIOUS
  <2>. QED
    BY <2>1, <2>2
<1>. HIDE DEF a, b, n, m, T
<1>3. /\ p \in Seq(T) /\ Joined(p, a, Len(a), v, Len(v))
      /\ q \in Seq(T) /\ Joined(q, p, Len(p), b, Len(b))
      /\ r \in Seq(T) /\ Joined(r, q, Len(q), e, Len(e))
  <2>1. p \in Seq(T) /\ Joined(p, a, Len(a), v, Len(v))
    BY <1>1, <1>2, ConcatJoins
  <2>. HIDE DEF p
  <2>2. q \in Seq(T) /\ Joined(q, p, Len(p), b, Len(b))
    BY <1>1, <2>1, ConcatJoins
  <2>. HIDE DEF q
  <2>3. r \in Seq(T) /\ Joined(r, q, Len(q), e, Len(e))
    BY <1>2, <2>2, ConcatJoins
  <2>. HIDE DEF r
  <2>. QED
    BY <2>1, <2>2, <2>3
<1>. HIDE DEF p, q, r
<1>4. Len(v) = n /\ Len(e) = m /\ Len(p) = n + 2 /\ Len(q) = n + 3 /\ Len(r) = n + 3 + m
  BY <1>1, <1>2, <1>3 DEF Joined, n, m
<1>5. /\ p[1] = "info" /\ p[2] = "laszip" /\ q[n + 3] = "hierarchy"
      /\ \A i \in 3 .. (n + 2) : p[i] = v[i - 2]
      /\ \A i \in 1 .. (n + 2) : q[i] = p[i]
      /\ \A i \in 1 .. (n + 3) : r[i] = q[i]
      /\ \A i \in (n + 4) .. (n + 3 + m) : r[i] = e[i - (n + 3)]
  <2>1. /\ \A i \in 1 .. 2 : p[i] = a[i]
        /\ \A i \in (2 + 1) .. (2 + n) : p[i] = v[i - 2]
        /\ \A i \in 1 .. (n + 2) : q[i] = p[i]
        /\ \A i \in ((n + 2) + 1) .. ((n + 2) + 1) : q[i] = b[i - (n + 2)]
        /\ \A i \in 1 .. (n + 3) : r[i] = q[i]
        /\ \A i \in ((n + 3) + 1) .. ((n + 3) + m) : r[i] = e[i - (n + 3)]
    BY <1>1, <1>3, <1>4 DEF Joined
  <2>2. /\ 1 \in 1 .. 2 /\ 2 \in 1 .. 2 /\ (n + 3) - (n + 2) = 1
        /\ n + 3 \in ((n + 2) + 1) .. ((n + 2) + 1)
        /\ \A i \in 3 .. (n + 2) : i \in (2 + 1) .. (2 + n)
        /\ \A i \in (n + 4) .. (n + 3 + m) : i \in ((n + 3) + 1) .. ((n + 3) + m)
    BY <1>2
  <2>. QED
    BY <1>1, <2>1, <2>2
<1>6. DOMAIN r = 1 .. (n + 3 + m)
  BY <1>3, <1>4, LenProperties
<1>7. /\ 1 \in DOMAIN r /\ 2 \in DOMAIN r /\ n + 3 \in DOMAIN r
      /\ n + 3 # 1 /\ n + 3 # 2
      /\ r[1] = "info" /\ r[2] = "laszip" /\ r[n + 3] = "hierarchy"
  <2>1. /\ 1 \in 1 .. (n + 3) /\ 2 \in 1 .. (n + 3) /\ n + 3 \in 1 .. (n + 3)
        /\ 1 \in 1 .. (n + 2) /\ 2 \in 1 .. (n + 2)
        /\ 1 \in DOMAIN r /\ 2 \in DOMAIN r /\ n + 3 \in DOMAIN r
        /\ n + 3 # 1 /\ n + 3 # 2
    BY <1>2, <1>6
  <2>. QED
    BY <1>5, <2>1
<1>8. ASSUME NEW i \in 1 .. n
      PROVE  i + 2 \in DOMAIN r /\ r[i + 2] = v[i]
  <2>1. /\ i + 2 \in 1 .. (n + 3) /\ i + 2 \in 1 .. (n + 2) /\ i + 2 \in 3 .. (n + 2)
        /\ (i + 2) - 2 = i /\ i + 2 \in DOMAIN r
    BY <1>2, <1>6
  <2>. QED
    BY <1>5, <2>1
<1>9. ASSUME NEW i \in 1 .. m
      PROVE  i + (n + 3) \in DOMAIN r /\ r[i + (n + 3)] = e[i]
  <2>1. /\ i + (n + 3) \in (n + 4) .. (n + 3 + m) /\ (i + (n + 3)) - (n + 3) = i
        /\ i + (n + 3) \in DOMAIN r
    BY <1>2, <1>6
  <2>. QED
    BY <1>5, <2>1
<1>10. ASSUME NEW j \in DOMAIN r, j # 1, j # 2, j # n + 3
       PROVE  \/ \E i \in 1 .. n : r[j] = v[i]
              \/ \E i \in 1 .. m : r[j] = e[i]
  <2>1. \/ j - 2 \in 1 .. n /\ (j - 2) + 2 = j
        \/ j - (n + 3) \in 1 .. m /\ (j - (n + 3)) + (n + 3) = j
    BY <1>2, <1>6, <1>10
  <2>. QED
    BY <1>8, <1>9, <2>1
<1>11. \A x \in S : x \notin {"info", "laszip", "hierarchy"}
  OBVIOUS
<1>12. /\ { j \in DOMAIN r : r[j] = "info" } = {1}
       /\ { j \in DOMAIN r : r[j] = "laszip" } = {2}
       /\ { j \in DOMAIN r : r[j] = "hierarchy" } = {n + 3}
  <2>1. \A j \in DOMAIN r : r[j] \in {"info", "laszip", "hierarchy"}
          => j = 1 \/ j = 2 \/ j = n + 3
    BY <1>2, <1>10, <1>11
  <2>. QED
    BY <1>7, <2>1
<1>13. \A kind \in {"info", "laszip", "hierarchy"} :
         Cardinality({ j \in DOMAIN r : r[j] = kind }) = 1
  <2>1. /\ Cardinality({1}) = 1 /\ Cardinality({2}) = 1
        /\ Cardinality({n + 3}) = 1
    BY FS_Singleton
  <2>. QED
    BY <1>12, <2>1
<1>14. ToSet(r) = {"info", "laszip", "hierarchy"} \cup ToSet(v) \cup ToSet(e)
  <2>1. ToSet(v) = { v[i] : i \in 1 .. n } /\ ToSet(e) = { e[i] : i \in 1 .. m }
        /\ ToSet(r) = { r[i] : i \in DOMAIN r }
    BY <1>2 DEF ToSet
  <2>2. ASSUME NEW x \in ToSet(r)
        PROVE  x \in {"info", "laszip", "hierarchy"} \cup ToSet(v) \cup ToSet(e)
    <3>1. PICK j \in DOMAIN r : x = r[j]
      BY <2>1, <2>2
    <3>2. CASE j = 1 \/ j = 2 \/ j = n + 3
      BY <1>7, <3>1, <3>2
    <3>3. CASE j # 1 /\ j # 2 /\ j # n + 3
      BY <1>10, <2>1, <3>1, <3>3
    <3>. QED
      BY <3>2, <3>3
  <2>3. ASSUME NEW x \in {"info", "laszip", "hierarchy"} \cup ToSet(v) \cup ToSet(e)
        PROVE  x \in ToSet(r)
    <3>1. CASE x \in {"info", "laszip", "hierarchy"}
      BY <1>7, <2>1, <3>1
    <3>2. CASE x \in ToSet(v)
      BY <1>8, <2>1, <3>2
    <3>3. CASE x \in ToSet(e)
      BY <1>9, <2>1, <3>3
    <3>. QED
      BY <2>3, <3>1, <3>2, <3>3
  <2>. QED
    BY <2>2, <2>3
<1>15. OwnRecordsOnce(r, v, e)
  BY <1>13, <1>14 DEF OwnRecordsOnce
<1>. QED
  BY <1>15 DEF r, q, p, a, b

(***************************************************************************)
(* The records while new runs: of those passed on none is a record of the  *)
(* writer's own or a geotiff CRS, from the search for a CRS on there is a  *)
(* WKT CRS among them, and the header that is built has the writer's own.  *)
(***************************************************************************)
Passed == {"wkt", "other"}

HasWkt == "wkt" \in ToSet(vlrs) \cup ToSet(evlrs)

FileIsOurs ==
  /\ \A kind \in {"info", "laszip", "hierarchy"} :
       Cardinality({ i \in DOMAIN RecordsOfFile : RecordsOfFile[i] = kind }) = 1
  /\ "wkt" \in ToSet(RecordsOfFile)
  /\ "geotiff" \notin ToSet(RecordsOfFile)

RecordsSorted ==
  /\ step \notin {"write", "end"} =>
       vlrs \in Seq(Passed) /\ evlrs \in Seq(Passed)
  /\ step = "crs" /\ "wkt" \in source => HasWkt
  /\ step \in {"bounds", "format", "build"} => HasWkt
  /\ step = "write" \/ outcome = "Ok" => FileIsOurs

LEMMA SortedInductive ==
  ASSUME Running, RecordsSorted, [Next]_vars
  PROVE  RecordsSorted'
<1>1. CASE /\ step \notin {"write", "end"} /\ step' \notin {"write", "end"}
           /\ outcome' = outcome /\ UNCHANGED recordVars
           /\ (step' = "crs" => step = "crs")
           /\ (step' \in {"bounds", "format", "build"}
                 => step \in {"bounds", "format", "build"})
  BY <1>1 DEF RecordsSorted, Running, recordVars, HasWkt
<1>2. CASE step' = "end" /\ outcome' # "Ok"
  BY <1>2 DEF RecordsSorted
<1>3. CASE FromPath \/ FromPathFails \/ OnStream \/ CheckSizes
  BY <1>1, <1>2, <1>3
  DEF FromPath, FromPathFails, OnStream, CheckSizes, Go, Return, Running
<1>4. CASE CheckBounds \/ CheckFormat
  BY <1>1, <1>2, <1>4 DEF CheckBounds, CheckFormat, Go, Return, Running
<1>5. CASE CollectRecords
  <2>1. PICK from_vlrs, from_evlrs \in BoundedSeq(Kinds, MaxRecords) :
          /\ source' = ToSet(from_vlrs) \cup ToSet(from_evlrs)
          /\ vlrs' = Kept(Passed, from_vlrs)
          /\ evlrs' = Kept(Passed, from_evlrs)
    BY <1>5 DEF CollectRecords, Forwarded, Passed
  <2>2. from_vlrs \in Seq(Kinds) /\ from_evlrs \in Seq(Kinds)
    BY NewAssumption, HeadersAreSequences
  <2>3. /\ vlrs' \in Seq(Passed) /\ evlrs' \in Seq(Passed)
        /\ ToSet(vlrs') = ToSet(from_vlrs) \cap Passed
        /\ ToSet(evlrs') = ToSet(from_evlrs) \cap Passed
    BY <2>1, <2>2, KeptPass
  <2>4. "wkt" \in source' => HasWkt'
    BY <2>1, <2>3 DEF HasWkt, Passed
  <2>5. step' = "crs" /\ outcome' = "none"
    BY <1>5 DEF CollectRecords, Go, Running
  <2>. QED
    BY <2>3, <2>4, <2>5 DEF RecordsSorted
<1>6. CASE FindCrs
  <2>1. step = "crs" /\ vlrs \in Seq(Passed) /\ evlrs \in Seq(Passed)
        /\ evlrs' = evlrs
    BY <1>6 DEF FindCrs, RecordsSorted
  <2>2. CASE Return("InvalidEPSGCode")
    BY <1>2, <2>2 DEF Return
  <2>3. CASE Go("bounds") /\ vlrs' = vlrs /\ "wkt" \in source
    BY <2>1, <2>3 DEF RecordsSorted, Running, Go, HasWkt
  <2>4. CASE Go("bounds") /\ vlrs' = Append(vlrs, "wkt")
    <3>1. vlrs' \in Seq(Passed) /\ ToSet(vlrs') = ToSet(vlrs) \cup {"wkt"}
      BY <2>1, <2>4, ToSetOfAppend DEF Passed
    <3>. QED
      BY <2>1, <2>4, <3>1 DEF RecordsSorted, Running, Go, HasWkt
  <2>. QED
    BY <1>6, <2>2, <2>3, <2>4 DEF FindCrs, WithCrs
<1>7. CASE BuildHeader
  <2>1. CASE Return("LasError")
    BY <1>2, <2>1 DEF Return
  <2>2. CASE Go("write") /\ vlrs' = <<"info", "laszip">> \o vlrs
    <3>1. vlrs \in Seq(Passed) /\ evlrs \in Seq(Passed) /\ HasWkt /\ evlrs' = evlrs
      BY <1>7 DEF BuildHeader, RecordsSorted
    <3>. DEFINE r == RecordsOfFile'
    <3>2. r = (<<"info", "laszip">> \o vlrs) \o <<"hierarchy">> \o evlrs
      BY <2>2, <3>1 DEF RecordsOfFile
    <3>3. "info" \notin Passed /\ "laszip" \notin Passed /\ "hierarchy" \notin Passed
      BY DEF Passed
    <3>4. OwnRecordsOnce((<<"info", "laszip">> \o vlrs) \o <<"hierarchy">> \o evlrs,
                         vlrs, evlrs)
      BY <3>1, <3>3, RecordsInOrder
    <3>. HIDE DEF r
    <3>5. OwnRecordsOnce(r, vlrs, evlrs)
      BY <3>2, <3>4
    <3>6. \A s \in Seq(Passed) : "geotiff" \notin ToSet(s)
      BY DEF Passed, ToSet
    <3>7. "wkt" \in ToSet(r) /\ "geotiff" \notin ToSet(r)
      BY <3>1, <3>5, <3>6 DEF HasWkt, OwnRecordsOnce
    <3>8. \A kind \in {"info", "laszip", "hierarchy"} :
            Cardinality({ i \in DOMAIN r : r[i] = kind }) = 1
      BY <3>5 DEF OwnRecordsOnce
    <3>9. FileIsOurs'
      BY <3>7, <3>8 DEF FileIsOurs, r
    <3>. QED
      BY <2>2, <3>9 DEF Go, RecordsSorted
  <2>. QED
    BY <1>7, <2>1, <2>2 DEF BuildHeader
<1>8. CASE WriteHeader
  <2>1. step = "write" /\ step' = "end" /\ vlrs' = vlrs /\ evlrs' = evlrs
    BY <1>8 DEF WriteHeader, Return, recordVars
  <2>. QED
    BY <2>1 DEF RecordsSorted, FileIsOurs, RecordsOfFile
<1>9. CASE UNCHANGED vars
  BY <1>9 DEF vars, recordVars, RecordsSorted, HasWkt, FileIsOurs, RecordsOfFile
<1>. QED
  BY <1>3, <1>4, <1>5, <1>6, <1>7, <1>8, <1>9 DEF Next

LEMMA AlwaysSorted == Spec => []RecordsSorted
<1>1. Init => RecordsSorted
  BY DEF Init, RecordsSorted
<1>2. Running /\ RecordsSorted /\ [Next]_vars => RecordsSorted'
  BY SortedInductive
<1>3. Checked => Running
  BY DEF Checked
<1>. QED
  BY <1>1, <1>2, <1>3, AlwaysChecked, PTL DEF Spec

(***************************************************************************)
(* Whatever records a header has, as vlrs and as evlrs and however many, a *)
(* reader of the file finds one info, one laszip and one hierarchy record: *)
(* the writer's (writer.rs 143-175, 283-318).                              *)
(***************************************************************************)
THEOREM ReadersFindOurRecords == Spec => []ReaderFindsOurs
<1>1. RecordsSorted => ReaderFindsOurs
  BY DEF RecordsSorted, FileIsOurs, ReaderFindsOurs
<1>. QED
  BY <1>1, AlwaysSorted, PTL

(***************************************************************************)
(* A file has a WKT CRS, from wherever the header had it, and no geotiff   *)
(* CRS (writer.rs 143-217).                                                *)
(***************************************************************************)
THEOREM FilesHaveAWktCrs == Spec => []CrsIsWkt
<1>1. RecordsSorted => CrsIsWkt
  BY DEF RecordsSorted, FileIsOurs, CrsIsWkt
<1>. QED
  BY <1>1, AlwaysSorted, PTL

-----------------------------------------------------------------------------
(* The length of a point.                                                  *)

IsTotal(items, g) ==
  g = [s \in SUBSET (DOMAIN items) |->
         IF s = {} THEN 0 ELSE g[s \ {Max(s)}] + items[Max(s)]]

LEMMA TotalIsFold ==
  ASSUME NEW items
  PROVE  Total(items) = (CHOOSE g : IsTotal(items, g))[DOMAIN items]
BY DEF Total, IsTotal, FoldLeft, MapThenFoldSet

LEMMA TotalExists ==
  ASSUME NEW items \in Seq(Int)
  PROVE  \E g : g \in [SUBSET (1 .. Len(items)) -> Int] /\ IsTotal(items, g)
<1>. DEFINE n == Len(items)
            next == [x \in Int \X (1 .. n) |-> x[1] + items[x[2]]]
<1>1. n \in Nat /\ DOMAIN items = 1 .. n /\ \A i \in 1 .. n : items[i] \in Int
  BY LenProperties
<1>2. next \in [Int \X (1 .. n) -> Int]
  <2>1. \A x \in Int \X (1 .. n) : x[1] \in Int /\ x[2] \in 1 .. n
    OBVIOUS
  <2>2. \A x \in Int \X (1 .. n) : x[1] + items[x[2]] \in Int
    BY <1>1, <2>1
  <2>. QED
    BY <2>2
<1>3. ASSUME NEW v \in Int, NEW i \in 1 .. n
      PROVE  next[<<v, i>>] = v + items[i]
  <2>1. <<v, i>> \in Int \X (1 .. n) /\ <<v, i>>[1] = v /\ <<v, i>>[2] = i
    OBVIOUS
  <2>. QED
    BY <2>1
<1>. HIDE DEF next, n
<1>4. PICK g \in [SUBSET (1 .. n) -> Int] : IsFold(n, 0, next, g)
  <2>1. 0 \in Int
    OBVIOUS
  <2>. QED
    BY <1>1, <1>2, <2>1, FoldExists, Zenon
<1>. DEFINE term(s) == IF s = {} THEN 0 ELSE g[s \ {Max(s)}] + items[Max(s)]
<1>5. ASSUME NEW s \in SUBSET (1 .. n)
      PROVE  g[s] = term(s)
  <2>1. CASE s = {}
    BY <1>4, <2>1 DEF IsFold
  <2>2. CASE s # {}
    <3>1. g[s] = next[<<g[s \ {Max(s)}], Max(s)>>]
      BY <1>4, <2>2 DEF IsFold
    <3>2. g[s \ {Max(s)}] \in Int
      BY <1>4
    <3>3. Max(s) \in 1 .. n
      BY <1>1, <2>2, MaxIsElement
    <3>4. next[<<g[s \ {Max(s)}], Max(s)>>] = g[s \ {Max(s)}] + items[Max(s)]
      BY <1>3, <3>2, <3>3
    <3>. QED
      BY <2>2, <3>1, <3>4
  <2>. QED
    BY <2>1, <2>2
<1>6. g = [s \in SUBSET (1 .. n) |-> term(s)]
  <2>. HIDE DEF term
  <2>. QED
    BY <1>4, <1>5
<1>7. IsTotal(items, g)
  BY <1>1, <1>6 DEF IsTotal
<1>. QED
  BY <1>4, <1>7 DEF n

\* The total of up to three items.
LEMMA TotalOfItems ==
  ASSUME NEW items \in Seq(Int), Len(items) \in 1 .. 3
  PROVE  Total(items) = items[1] + (IF Len(items) >= 2 THEN items[2] ELSE 0)
                                 + (IF Len(items) = 3 THEN items[3] ELSE 0)
<1>. DEFINE n == Len(items)
            g == CHOOSE f : IsTotal(items, f)
            h(m) == g[1 .. m]
<1>1. /\ n \in 1 .. 3 /\ DOMAIN items = 1 .. n
      /\ \A i \in 1 .. n : items[i] \in Int
  BY LenProperties
<1>2. IsTotal(items, g)
  BY TotalExists
<1>3. Total(items) = h(n)
  BY <1>1, TotalIsFold
<1>. HIDE DEF g, n
<1>4. \A s \in SUBSET (1 .. n) :
        g[s] = IF s = {} THEN 0 ELSE g[s \ {Max(s)}] + items[Max(s)]
  BY <1>1, <1>2 DEF IsTotal
<1>5. h(0) = 0
  <2>1. 1 .. 0 = {} /\ 1 .. 0 \in SUBSET (1 .. n)
    OBVIOUS
  <2>. QED
    BY <1>4, <2>1
<1>6. ASSUME NEW m \in Nat, m + 1 <= n
      PROVE  h(m + 1) = h(m) + items[m + 1]
  <2>1. 1 .. (m + 1) \in SUBSET (1 .. n)
    BY <1>1, <1>6
  <2>2. /\ 1 .. (m + 1) # {} /\ Max(1 .. (m + 1)) = m + 1
        /\ (1 .. (m + 1)) \ {m + 1} = 1 .. m
    BY FoldOfPrefix
  <2>. QED
    BY <1>4, <2>1, <2>2
<1>. HIDE DEF h
<1>7. /\ h(1) = items[1]
      /\ n >= 2 => h(2) = h(1) + items[2]
      /\ n = 3 => h(3) = h(2) + items[3]
  <2>1. h(0 + 1) = h(0) + items[0 + 1]
    BY <1>1, <1>6
  <2>2. n >= 2 => h(1 + 1) = h(1) + items[1 + 1]
    BY <1>1, <1>6
  <2>3. n = 3 => h(2 + 1) = h(2) + items[2 + 1]
    BY <1>1, <1>6
  <2>4. 0 + 1 = 1 /\ 1 + 1 = 2 /\ 2 + 1 = 3
    OBVIOUS
  <2>5. items[1] \in Int
    BY <1>1
  <2>6. h(1) = 0 + items[1]
    BY <1>5, <2>1, <2>4
  <2>. QED
    BY <2>2, <2>3, <2>4, <2>5, <2>6
<1>8. CASE n = 1
  BY <1>1, <1>3, <1>7, <1>8 DEF n
<1>9. CASE n = 2
  BY <1>1, <1>3, <1>7, <1>9 DEF n
<1>10. CASE n = 3
  BY <1>1, <1>3, <1>7, <1>10 DEF n
<1>. QED
  BY <1>1, <1>8, <1>9, <1>10

(***************************************************************************)
(* What the laszip vlr says a point consists of is its length.             *)
(***************************************************************************)
LEMMA ItemsOfPoint ==
  ASSUME format \in {6, 7, 8}, extra_bytes \in Nat
  PROVE  Total(LazItems) = PointLength(format) + extra_bytes
<1>. DEFINE color == IF format \in {7, 8, 10} THEN ColorItem ELSE <<>>
            extra == IF extra_bytes > 0 THEN <<extra_bytes>> ELSE <<>>
            base == <<30>>
            p == base \o color
            q == p \o extra
<1>1. /\ color \in Seq(Int)
      /\ format = 6 => Len(color) = 0
      /\ format = 7 => Len(color) = 1 /\ color[1] = 6
      /\ format = 8 => Len(color) = 1 /\ color[1] = 8
  BY DEF ColorItem
<1>2. /\ extra \in Seq(Int)
      /\ extra_bytes = 0 => Len(extra) = 0
      /\ extra_bytes > 0 => Len(extra) = 1 /\ extra[1] = extra_bytes
  OBVIOUS
<1>3. base \in Seq(Int) /\ Len(base) = 1 /\ base[1] = 30
  OBVIOUS
<1>4. /\ PointLength(6) = 30 /\ PointLength(7) = 36 /\ PointLength(8) = 38
  BY DEF PointLength
<1>5. LazItems = q
  BY DEF LazItems
<1>. HIDE DEF color, extra, base
<1>6. /\ p \in Seq(Int) /\ Joined(p, base, Len(base), color, Len(color))
      /\ q \in Seq(Int) /\ Joined(q, p, Len(p), extra, Len(extra))
  <2>1. p \in Seq(Int) /\ Joined(p, base, Len(base), color, Len(color))
    BY <1>1, <1>3, ConcatJoins
  <2>. HIDE DEF p
  <2>2. q \in Seq(Int) /\ Joined(q, p, Len(p), extra, Len(extra))
    BY <1>2, <2>1, ConcatJoins
  <2>. HIDE DEF q
  <2>. QED
    BY <2>1, <2>2
<1>. HIDE DEF p, q
<1>7. Len(p) = 1 + Len(color) /\ Len(q) = Len(p) + Len(extra)
  BY <1>3, <1>6 DEF Joined
<1>8. /\ Len(p) \in 1 .. 2 /\ Len(q) \in 1 .. 3
      /\ Len(p) = IF format = 6 THEN 1 ELSE 2
      /\ Len(q) = IF extra_bytes = 0 THEN Len(p) ELSE Len(p) + 1
  <2>1. Len(color) = IF format = 6 THEN 0 ELSE 1
    BY <1>1
  <2>2. Len(extra) = IF extra_bytes = 0 THEN 0 ELSE 1
    BY <1>2
  <2>. QED
    BY <1>7, <2>1, <2>2
<1>9. /\ p[1] = 30
      /\ format = 7 => p[2] = 6
      /\ format = 8 => p[2] = 8
  <2>1. /\ \A i \in 1 .. 1 : p[i] = base[i]
        /\ \A i \in (1 + 1) .. (1 + Len(color)) : p[i] = color[i - 1]
    BY <1>3, <1>6 DEF Joined
  <2>2. 1 \in 1 .. 1 /\ 2 - 1 = 1 /\ 2 \in (1 + 1) .. (1 + 1)
    OBVIOUS
  <2>3. p[1] = 30
    BY <1>3, <2>1, <2>2
  <2>4. format # 6 => Len(color) = 1
    BY <1>1
  <2>5. format # 6 => p[2] = color[1]
    BY <2>1, <2>2, <2>4
  <2>. QED
    BY <1>1, <2>3, <2>5
<1>10. /\ q[1] = 30
       /\ format # 6 => q[2] = p[2]
       /\ extra_bytes > 0 => q[Len(p) + 1] = extra_bytes
  <2>1. /\ \A i \in 1 .. Len(p) : q[i] = p[i]
        /\ \A i \in (Len(p) + 1) .. (Len(p) + Len(extra)) : q[i] = extra[i - Len(p)]
    BY <1>6 DEF Joined
  <2>2. 1 \in 1 .. Len(p) /\ (format # 6 => 2 \in 1 .. Len(p))
    BY <1>8
  <2>3. (Len(p) + 1) - Len(p) = 1 /\ Len(p) + 1 \in (Len(p) + 1) .. (Len(p) + 1)
    BY <1>8
  <2>4. extra_bytes > 0 => q[Len(p) + 1] = extra[1]
    BY <1>2, <2>1, <2>3
  <2>. QED
    BY <1>2, <1>9, <2>1, <2>2, <2>4
<1>11. Total(q) = q[1] + (IF Len(q) >= 2 THEN q[2] ELSE 0)
                       + (IF Len(q) = 3 THEN q[3] ELSE 0)
  BY <1>6, <1>8, TotalOfItems
<1>12. PointLength(format) = 30 + (IF Len(p) = 1 THEN 0 ELSE p[2])
  <2>1. CASE format = 6
    BY <1>4, <1>8, <2>1
  <2>2. CASE format = 7
    BY <1>4, <1>8, <1>9, <2>2
  <2>3. CASE format = 8
    BY <1>4, <1>8, <1>9, <2>3
  <2>. QED
    BY <2>1, <2>2, <2>3
<1>13. p[2] \in Int \/ Len(p) = 1
  BY <1>8, <1>9
<1>14. Total(q) = 30 + (IF Len(p) = 1 THEN 0 ELSE p[2]) + extra_bytes
  <2>1. CASE extra_bytes = 0 /\ Len(p) = 1
    <3>1. Len(q) = 1
      BY <1>8, <2>1
    <3>. QED
      BY <1>10, <1>11, <2>1, <3>1
  <2>2. CASE extra_bytes = 0 /\ Len(p) = 2
    <3>1. Len(q) = 2 /\ q[2] = p[2] /\ p[2] \in Int
      BY <1>8, <1>10, <1>13, <2>2
    <3>. QED
      BY <1>10, <1>11, <2>2, <3>1
  <2>3. CASE extra_bytes > 0 /\ Len(p) = 1
    <3>1. Len(q) = 2 /\ q[2] = extra_bytes
      BY <1>8, <1>10, <2>3
    <3>. QED
      BY <1>10, <1>11, <2>3, <3>1
  <2>4. CASE extra_bytes > 0 /\ Len(p) = 2
    <3>1. Len(q) = 3 /\ q[2] = p[2] /\ p[2] \in Int /\ q[3] = extra_bytes
      BY <1>8, <1>10, <1>13, <2>4
    <3>. QED
      BY <1>10, <1>11, <2>4, <3>1
  <2>. QED
    BY <1>8, <2>1, <2>2, <2>3, <2>4
<1>. QED
  BY <1>5, <1>12, <1>14

(***************************************************************************)
(* What is known of the lengths once the format has been checked, and once *)
(* the items of the laszip vlr are made.                                   *)
(***************************************************************************)
LengthsChecked ==
  /\ step = "build" =>
       /\ extra_bytes \in Nat
       /\ record_length = PointLength(format) + extra_bytes
  /\ step \in {"build", "write"} =>
       format \in {6, 7, 8} /\ extra_bytes = source_extra_bytes
  /\ step = "write" => record_length = Total(laz_items)
  /\ PointLengthsAgree

\* The upgrade of a format counts just the fields it adds.
LEMMA CheckFormatChecks ==
  ASSUME CheckFormat, step' # "end"
  PROVE  /\ format' \in {6, 7, 8} /\ extra_bytes' \in Nat
         /\ extra_bytes' = source_extra_bytes'
         /\ record_length' = PointLength(format') + extra_bytes'
<1>1. PICK f \in {1, 3, 6, 7, 8}, extra \in ExtraBytes :
        /\ format' = Upgraded(f)
        /\ source_extra_bytes' = extra
        /\ record_length' = PointLength(f) + extra + AddedLength(f)
        /\ extra_bytes' = record_length' - PointLength(format')
  BY DEF CheckFormat, Supported, Return
<1>2. extra \in Nat
  BY NewAssumption
<1>3. /\ Upgraded(1) = 6 /\ Upgraded(3) = 7
      /\ Upgraded(6) = 6 /\ Upgraded(7) = 7 /\ Upgraded(8) = 8
  BY DEF Upgraded
<1>4. /\ PointLength(1) = 28 /\ PointLength(3) = 34
      /\ PointLength(6) = 30 /\ PointLength(7) = 36 /\ PointLength(8) = 38
  BY DEF PointLength
<1>5. /\ AddedLength(1) = 2 /\ AddedLength(3) = 2
      /\ AddedLength(6) = 0 /\ AddedLength(7) = 0 /\ AddedLength(8) = 0
  BY DEF AddedLength
<1>6. CASE f = 1
  BY <1>1, <1>2, <1>3, <1>4, <1>5, <1>6
<1>7. CASE f = 3
  BY <1>1, <1>2, <1>3, <1>4, <1>5, <1>7
<1>8. CASE f = 6
  BY <1>1, <1>2, <1>3, <1>4, <1>5, <1>8
<1>9. CASE f = 7
  BY <1>1, <1>2, <1>3, <1>4, <1>5, <1>9
<1>10. CASE f = 8
  BY <1>1, <1>2, <1>3, <1>4, <1>5, <1>10
<1>. QED
  BY <1>1, <1>6, <1>7, <1>8, <1>9, <1>10

LEMMA LengthsInductive ==
  ASSUME Running, LengthsChecked, [Next]_vars
  PROVE  LengthsChecked'
<1>1. CASE /\ step # "end" /\ step' \notin {"build", "write", "end"}
           /\ outcome' = outcome
  BY <1>1 DEF LengthsChecked, Running, PointLengthsAgree
<1>2. CASE step' = "end" /\ outcome' # "Ok"
  BY <1>2 DEF LengthsChecked, PointLengthsAgree
<1>3. CASE FromPath \/ FromPathFails \/ OnStream
  BY <1>1, <1>2, <1>3 DEF FromPath, FromPathFails, OnStream, Go, Return
<1>4. CASE CheckSizes \/ CollectRecords
  BY <1>1, <1>2, <1>4 DEF CheckSizes, CollectRecords, Go, Return
<1>5. CASE FindCrs \/ CheckBounds
  BY <1>1, <1>2, <1>5 DEF FindCrs, CheckBounds, Go, Return
<1>6. CASE CheckFormat
  <2>1. CASE step' = "end"
    BY <1>2, <1>6, <2>1 DEF CheckFormat, Go, Return
  <2>2. CASE step' # "end"
    <3>1. step' = "build" /\ outcome' = "none"
      BY <1>6, <2>2 DEF CheckFormat, Go, Return, Running
    <3>. QED
      BY <1>6, <2>2, <3>1, CheckFormatChecks DEF LengthsChecked, PointLengthsAgree
  <2>. QED
    BY <2>1, <2>2
<1>7. CASE BuildHeader
  <2>1. CASE Return("LasError")
    BY <1>2, <2>1 DEF Return
  <2>2. CASE Go("write") /\ laz_items' = LazItems
    <3>1. /\ step' = "write" /\ outcome' = "none"
          /\ format' = format /\ extra_bytes' = extra_bytes
          /\ source_extra_bytes' = source_extra_bytes
          /\ record_length' = record_length
      BY <1>7, <2>2 DEF BuildHeader, Go, Running, formatVars
    <3>2. Total(LazItems) = record_length
      BY <1>7, ItemsOfPoint DEF BuildHeader, LengthsChecked
    <3>3. record_length' = Total(laz_items')
      BY <2>2, <3>1, <3>2
    <3>4. format \in {6, 7, 8} /\ extra_bytes = source_extra_bytes
      BY <1>7 DEF BuildHeader, LengthsChecked
    <3>. QED
      BY <3>1, <3>3, <3>4 DEF LengthsChecked, PointLengthsAgree
  <2>. QED
    BY <1>7, <2>1, <2>2 DEF BuildHeader
<1>8. CASE WriteHeader
  <2>1. /\ step' = "end" /\ laz_items' = laz_items
        /\ extra_bytes' = extra_bytes /\ source_extra_bytes' = source_extra_bytes
        /\ record_length' = record_length
    BY <1>8 DEF WriteHeader, Return, formatVars
  <2>2. extra_bytes = source_extra_bytes /\ record_length = Total(laz_items)
    BY <1>8 DEF WriteHeader, LengthsChecked
  <2>. QED
    BY <2>1, <2>2 DEF LengthsChecked, PointLengthsAgree
<1>9. CASE UNCHANGED vars
  BY <1>9 DEF vars, formatVars, LengthsChecked, PointLengthsAgree
<1>. QED
  BY <1>3, <1>4, <1>5, <1>6, <1>7, <1>8, <1>9 DEF Next

LEMMA AlwaysMeasured == Spec => []LengthsChecked
<1>1. Init => LengthsChecked
  BY DEF Init, LengthsChecked, PointLengthsAgree
<1>2. Running /\ LengthsChecked /\ [Next]_vars => LengthsChecked'
  BY LengthsInductive
<1>3. Checked => Running
  BY DEF Checked
<1>. QED
  BY <1>1, <1>2, <1>3, AlwaysChecked, PTL DEF Spec

(***************************************************************************)
(* The format with its extra bytes, the header's record length and the     *)
(* items of the laszip vlr state the same length of a point, whichever     *)
(* format the source had and however many extra bytes                      *)
(* (writer.rs 231-269, 287-307).                                           *)
(***************************************************************************)
THEOREM PointLengthsAlwaysAgree == Spec => []PointLengthsAgree
<1>1. LengthsChecked => PointLengthsAgree
  BY DEF LengthsChecked
<1>. QED
  BY <1>1, AlwaysMeasured, PTL

-----------------------------------------------------------------------------
(* What is written.                                                        *)

LEMMA BytesInductive ==
  ASSUME Checked, RecordsSorted, LengthsChecked, BytesAreChecked, [Next]_vars
  PROVE  BytesAreChecked'
<1>1. step # "end" => outcome = "none" /\ output \in {"old", "empty"}
  BY DEF Checked, Running, NothingWritten
<1>2. CASE FromPath \/ FromPathFails \/ OnStream
  <2>1. /\ output' \in {"old", "empty"}
        /\ outcome' = "WrongCopcExtension" => output' = "old"
    BY <1>1, <1>2 DEF FromPath, FromPathFails, OnStream, CreatedFor, Go, Return,
                      Checked, NothingWritten
  <2>. QED
    BY <2>1 DEF BytesAreChecked
<1>3. CASE CheckSizes \/ CollectRecords \/ FindCrs \/ CheckBounds \/ CheckFormat
           \/ BuildHeader
  <2>1. output' = output /\ output \in {"old", "empty"}
    BY <1>1, <1>3 DEF CheckSizes, CollectRecords, FindCrs, CheckBounds,
                      CheckFormat, BuildHeader
  <2>2. outcome' # "WrongCopcExtension"
    BY <1>1, <1>3 DEF CheckSizes, CollectRecords, FindCrs, CheckBounds,
                      CheckFormat, BuildHeader, Go, Return
  <2>. QED
    BY <2>1, <2>2 DEF BytesAreChecked
<1>4. CASE WriteHeader
  <2>1. /\ step = "write" /\ outcome = "none"
        /\ outcome' \in {"Ok", "Io", "LasError", "LasZipError"}
        /\ UNCHANGED <<sizeVars, recordVars, formatVars>>
    BY <1>1, <1>4 DEF WriteHeader, Return
  <2>2. 1 <= min_node_size /\ min_node_size < max_node_size
    BY <2>1 DEF Checked, SizesChecked
  <2>3. "wkt" \in ToSet(RecordsOfFile) /\ RecordsOfFile' = RecordsOfFile
    BY <2>1 DEF RecordsSorted, FileIsOurs, recordVars, RecordsOfFile
  <2>4. format \in {6, 7, 8} /\ number_of_points = 0
    BY <2>1 DEF LengthsChecked, Checked, CountCleared
  <2>. QED
    BY <2>1, <2>2, <2>3, <2>4 DEF BytesAreChecked, sizeVars, formatVars
<1>5. CASE UNCHANGED vars
  BY <1>5 DEF vars, sizeVars, recordVars, formatVars, BytesAreChecked, RecordsOfFile
<1>. QED
  BY <1>2, <1>3, <1>4, <1>5 DEF Next

(***************************************************************************)
(* Whatever new is given and wherever it ends, also when the stream or one *)
(* of the libraries fails it: the bytes it has written are of a header all *)
(* of whose arguments were checked, and an argument in error leaves none   *)
(* (writer.rs 117-350).                                                    *)
(***************************************************************************)
THEOREM OnlyCheckedBytesAreWritten == Spec => []BytesAreChecked
<1>1. Init => BytesAreChecked
  BY DEF Init, BytesAreChecked
<1>2. Checked /\ RecordsSorted /\ LengthsChecked /\ BytesAreChecked /\ [Next]_vars
        => BytesAreChecked'
  BY BytesInductive
<1>. QED
  BY <1>1, <1>2, AlwaysChecked, AlwaysSorted, AlwaysMeasured, PTL DEF Spec
=============================================================================
