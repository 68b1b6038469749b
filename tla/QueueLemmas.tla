---------------------------- MODULE QueueLemmas -----------------------------
(***************************************************************************)
(* Facts that the proofs share: about queues kept as sequences and the     *)
(* bytes their nodes occupy; and about least numbers and functions defined *)
(* along the numbers, from which the proofs by induction start.            *)
(***************************************************************************)
EXTENDS Footprint, Sequences, Integers, Functions, SequenceTheorems,
        FiniteSetTheorems, WellFoundedInduction, TLAPS

(* No node stands twice in s. *)
Distinct(s) == \A i, j \in 1 .. Len(s) : s[i] = s[j] => i = j

(* Appending x to a queue adds x to the nodes in it and nothing else. *)
LEMMA RangeAppend ==
    ASSUME NEW S, NEW s \in Seq(S), NEW x \in S
    PROVE  Range(Append(s, x)) = Range(s) \cup {x}
<1> DEFINE t == Append(s, x)
<1>1. /\ t \in Seq(S) /\ Len(t) = Len(s) + 1 /\ Len(s) \in Nat
      /\ \A i \in 1 .. Len(s) : t[i] = s[i]
      /\ t[Len(s) + 1] = x
  BY AppendProperties, LenProperties
<1>2. Range(t) = {t[i] : i \in 1 .. Len(t)} /\ Range(s) = {s[i] : i \in 1 .. Len(s)}
  BY <1>1, RangeEquality
<1> HIDE DEF t
<1>3. Range(t) \subseteq Range(s) \cup {x}
  BY <1>1, <1>2
<1>4. Range(s) \cup {x} \subseteq Range(t)
  <2>1. ASSUME NEW i \in 1 .. Len(s) PROVE s[i] \in Range(t)
    <3>1. i \in 1 .. Len(t) /\ t[i] = s[i]  BY <1>1
    <3> QED  BY <3>1, <1>2
  <2>2. x \in Range(t)
    <3>1. Len(s) + 1 \in 1 .. Len(t) /\ t[Len(s) + 1] = x  BY <1>1
    <3> QED  BY <3>1, <1>2
  <2> QED  BY <2>1, <2>2, <1>2
<1> QED  BY <1>3, <1>4 DEF t

(* Popping the head removes the head and nothing else, when no node stands *)
(* twice in the queue.                                                     *)
LEMMA RangeTail ==
    ASSUME NEW S, NEW s \in Seq(S), s # <<>>, Distinct(s)
    PROVE  /\ Head(s) \in Range(s)
           /\ Range(Tail(s)) = Range(s) \ {Head(s)}
           /\ Distinct(Tail(s))
<1> DEFINE t == Tail(s)
<1>1. /\ t \in Seq(S) /\ Len(t) = Len(s) - 1 /\ Len(s) \in Nat /\ Len(s) # 0
      /\ \A i \in 1 .. Len(t) : t[i] = s[i + 1]
      /\ Head(s) = s[1]
  BY HeadTailProperties, LenProperties, EmptySeq
<1>2. Range(t) = {t[i] : i \in 1 .. Len(t)} /\ Range(s) = {s[i] : i \in 1 .. Len(s)}
  BY <1>1, RangeEquality
<1> HIDE DEF t
<1>3. Head(s) \in Range(s)
  BY <1>1, <1>2
<1>4. ASSUME NEW i \in 1 .. Len(t) PROVE t[i] \in Range(s) \ {Head(s)}
  <2>1. i + 1 \in 1 .. Len(s) /\ 1 \in 1 .. Len(s) /\ i + 1 # 1  BY <1>1
  <2>2. s[i + 1] # s[1]  BY <2>1 DEF Distinct
  <2> QED  BY <2>1, <2>2, <1>1, <1>2
<1>5. ASSUME NEW i \in 1 .. Len(s), s[i] # Head(s) PROVE s[i] \in Range(t)
  <2>1. i # 1  BY <1>5, <1>1
  <2>2. i - 1 \in 1 .. Len(t) /\ t[i - 1] = s[i]
    <3>1. i - 1 \in 1 .. Len(t)  BY <2>1, <1>1
    <3>2. t[i - 1] = s[(i - 1) + 1]  BY <3>1, <1>1
    <3> QED  BY <3>1, <3>2
  <2> QED  BY <2>2, <1>2
<1>6. Distinct(t)
  <2> SUFFICES ASSUME NEW i \in 1 .. Len(t), NEW j \in 1 .. Len(t), t[i] = t[j]
               PROVE  i = j
    BY DEF Distinct
  <2>1. i + 1 \in 1 .. Len(s) /\ j + 1 \in 1 .. Len(s) /\ s[i + 1] = s[j + 1]
    BY <1>1
  <2>2. i + 1 = j + 1  BY <2>1 DEF Distinct
  <2> QED  BY <2>2
<1>7. Range(t) = Range(s) \ {Head(s)}
  BY <1>2, <1>4, <1>5
<1> QED  BY <1>3, <1>6, <1>7 DEF t

(* Appending a node that is not in the queue keeps every node single. *)
LEMMA DistinctAppend ==
    ASSUME NEW S, NEW s \in Seq(S), NEW x \in S, x \notin Range(s), Distinct(s)
    PROVE  Distinct(Append(s, x))
<1> DEFINE t == Append(s, x)
<1>1. /\ t \in Seq(S) /\ Len(t) = Len(s) + 1 /\ Len(s) \in Nat
      /\ \A i \in 1 .. Len(s) : t[i] = s[i]
      /\ t[Len(s) + 1] = x
  BY AppendProperties, LenProperties
<1>2. \A i \in 1 .. Len(s) : s[i] # x
  BY RangeEquality
<1> HIDE DEF t
<1>3. Distinct(t)
  <2> SUFFICES ASSUME NEW i \in 1 .. Len(t), NEW j \in 1 .. Len(t), t[i] = t[j]
               PROVE  i = j
    BY DEF Distinct
  <2>1. CASE i \in 1 .. Len(s) /\ j \in 1 .. Len(s)
    BY <2>1, <1>1 DEF Distinct
  <2>2. CASE i = Len(s) + 1 /\ j \in 1 .. Len(s)
    BY <2>2, <1>1, <1>2
  <2>3. CASE j = Len(s) + 1 /\ i \in 1 .. Len(s)
    BY <2>3, <1>1, <1>2
  <2>4. CASE i = Len(s) + 1 /\ j = Len(s) + 1
    BY <2>4
  <2> QED  BY <2>1, <2>2, <2>3, <2>4, <1>1
<1> QED  BY <1>3 DEF t

(* A finite set of nodes has a finite set of bytes. *)
LEMMA CellsFinite ==
    ASSUME NEW S, IsFiniteSet(S), NEW size \in [S -> Nat], NEW m \in Nat,
           \A x \in S : size[x] <= m,
           NEW T \in SUBSET S
    PROVE  IsFiniteSet(UNION {Cells(x, size) : x \in T})
<1>1. IsFiniteSet(S \X (1 .. m))
  <2>1. IsFiniteSet(1 .. m)
    BY FS_Interval
  <2> QED  BY <2>1, FS_Product
<1>2. UNION {Cells(x, size) : x \in T} \subseteq S \X (1 .. m)
  <2> SUFFICES ASSUME NEW x \in T, NEW c \in Cells(x, size) PROVE c \in S \X (1 .. m)
    OBVIOUS
  <2>1. PICK k \in 1 .. size[x] : c = <<x, k>>
    BY DEF Cells
  <2>2. size[x] \in Nat /\ size[x] <= m
    OBVIOUS
  <2>3. k \in 1 .. m
    BY ONLY <2>2, m \in Nat, k \in 1 .. size[x]
  <2> QED  BY <2>1, <2>3
<1> QED  BY <1>1, <1>2, FS_Subset

(* One node's bytes are as many as its size says. *)
LEMMA CellsOfOne ==
    ASSUME NEW x, NEW size, size[x] \in Nat
    PROVE  IsFiniteSet(Cells(x, size)) /\ Cardinality(Cells(x, size)) = size[x]
<1>1. IsFiniteSet({x}) /\ Cardinality({x}) = 1
  BY FS_Singleton
<1>2. IsFiniteSet(1 .. size[x]) /\ Cardinality(1 .. size[x]) = size[x]
  <2>1. PICK k \in Nat : k = size[x]
    OBVIOUS
  <2>2. Cardinality(1 .. k) = IF 1 > k THEN 0 ELSE k - 1 + 1
    BY FS_Interval
  <2>3. IsFiniteSet(1 .. k)
    BY FS_Interval
  <2>4. (IF 1 > k THEN 0 ELSE k - 1 + 1) = k
    OBVIOUS
  <2> QED  BY ONLY <2>1, <2>2, <2>3, <2>4
<1> DEFINE n == size[x]
<1>3. Cardinality({x} \X (1 .. n)) = Cardinality({x}) * Cardinality(1 .. n)
      /\ IsFiniteSet({x} \X (1 .. n))
  BY <1>1, <1>2, FS_Product
<1> QED  BY <1>1, <1>2, <1>3 DEF Cells

(* A node that joins a set adds exactly its size to the set's bytes. *)
LEMMA BytesAdd ==
    ASSUME NEW S, IsFiniteSet(S), NEW size \in [S -> Nat], NEW m \in Nat,
           \A x \in S : size[x] <= m,
           NEW T \in SUBSET S, NEW y \in S \ T
    PROVE  /\ Bytes(T \cup {y}, size) = Bytes(T, size) + size[y]
           /\ Bytes(T, size) \in Nat
<1> DEFINE A == UNION {Cells(x, size) : x \in T}
           B == Cells(y, size)
<1>1. UNION {Cells(x, size) : x \in T \cup {y}} = A \cup B
  OBVIOUS
<1>2. A \cap B = {}
  BY DEF Cells
<1>3. IsFiniteSet(A)
  BY CellsFinite
<1>4. IsFiniteSet(B) /\ Cardinality(B) = size[y]
  BY CellsOfOne
<1>5. Cardinality(A \cup B) = Cardinality(A) + Cardinality(B) - Cardinality(A \cap B)
  BY <1>3, <1>4, FS_Union
<1>6. Cardinality(A) \in Nat
  BY <1>3, FS_CardinalityType
<1>7. Cardinality({}) = 0
  BY FS_EmptySet
<1>8. Bytes(T \cup {y}, size) = Cardinality(A \cup B) /\ Bytes(T, size) = Cardinality(A)
  BY <1>1 DEF Bytes
<1>9. Cardinality(A \cup B) = Cardinality(A) + size[y]
  <2> HIDE DEF A, B
  <2>1. Cardinality(A \cap B) = 0
    BY <1>2, <1>7
  <2> QED  BY <2>1, <1>4, <1>5, <1>6
<1> QED  BY <1>6, <1>8, <1>9

(* A node that leaves a set takes exactly its size away. *)
LEMMA BytesRemove ==
    ASSUME NEW S, IsFiniteSet(S), NEW size \in [S -> Nat], NEW m \in Nat,
           \A x \in S : size[x] <= m,
           NEW T \in SUBSET S, NEW y \in T
    PROVE  /\ Bytes(T, size) = Bytes(T \ {y}, size) + size[y]
           /\ Bytes(T \ {y}, size) \in Nat
<1>1. y \in S \ (T \ {y}) /\ T \ {y} \in SUBSET S
  OBVIOUS
<1>2. (T \ {y}) \cup {y} = T
  OBVIOUS
<1> QED  BY <1>1, <1>2, BytesAdd

(* The empty set occupies nothing. *)
LEMMA BytesEmpty == ASSUME NEW size PROVE Bytes({}, size) = 0
<1>1. UNION {Cells(x, size) : x \in {}} = {}
  OBVIOUS
<1> QED  BY <1>1, FS_EmptySet DEF Bytes

(* A budget of c is kept when m bytes move between what is free (f) and    *)
(* what is in use (b).                                                     *)
LEMMA BudgetKept ==
    ASSUME NEW f \in Nat, NEW b \in Nat, NEW m \in Nat, NEW c \in Nat
    PROVE  /\ f + (b + m) = c => (f + m) + b = c /\ f + m \in 0 .. c
           /\ f + b = c /\ f >= m => (f - m) + (b + m) = c /\ f - m \in 0 .. c
OBVIOUS

(* A node that is taken out of its place and put at the tail stays in the  *)
(* queue, once, and so do the others.                                      *)
LEMMA MovedToTail ==
    ASSUME NEW S, NEW s \in Seq(S), Distinct(s), NEW k \in 1 .. Len(s),
           NEW t \in [1 .. Len(s) -> S],
           \A i \in 1 .. Len(s) : t[i] = IF i < k THEN s[i]
                                         ELSE IF i < Len(s) THEN s[i + 1] ELSE s[k]
    PROVE  t \in Seq(S) /\ Range(t) = Range(s) /\ Distinct(t)
<1>1. Len(s) \in Nat /\ \A i \in 1 .. Len(s) : s[i] \in S
  BY LenProperties, ElementOfSeq
<1>2. t \in [1 .. Len(s) -> S]
  OBVIOUS
<1>3. t \in Seq(S) /\ Len(t) = Len(s)
  BY <1>1, <1>2, IsASeq, LenProperties
<1>4. Range(t) = {t[i] : i \in 1 .. Len(t)} /\ Range(s) = {s[i] : i \in 1 .. Len(s)}
  BY <1>3, RangeEquality
<1> DEFINE from == [i \in 1 .. Len(s) |-> IF i < k THEN i ELSE IF i < Len(s) THEN i + 1 ELSE k]
<1>5. \A i \in 1 .. Len(s) : from[i] \in 1 .. Len(s) /\ t[i] = s[from[i]]
  BY <1>1
<1>6. \A i, j \in 1 .. Len(s) : from[i] = from[j] => i = j
  BY <1>1
<1>7. \A j \in 1 .. Len(s) : \E i \in 1 .. Len(s) : from[i] = j
  <2> SUFFICES ASSUME NEW j \in 1 .. Len(s) PROVE \E i \in 1 .. Len(s) : from[i] = j
    OBVIOUS
  <2>1. CASE j < k
    BY <2>1, <1>1
  <2>2. CASE j = k
    <3>1. Len(s) \in 1 .. Len(s) /\ from[Len(s)] = k
      BY <1>1
    <3> QED  BY <3>1, <2>2
  <2>3. CASE j > k
    <3>1. j - 1 \in 1 .. Len(s) /\ from[j - 1] = j
      BY <2>3, <1>1
    <3> QED  BY <3>1
  <2> QED  BY <2>1, <2>2, <2>3, <1>1
<1> HIDE DEF from
<1>8. Distinct(t)
  BY <1>3, <1>5, <1>6 DEF Distinct
<1>9. Range(t) = Range(s)
  <2>1. ASSUME NEW i \in 1 .. Len(t) PROVE t[i] \in Range(s)
    <3>1. from[i] \in 1 .. Len(s) /\ t[i] = s[from[i]]
      BY <1>3, <1>5
    <3> QED  BY <3>1, <1>4
  <2>2. ASSUME NEW j \in 1 .. Len(s) PROVE s[j] \in Range(t)
    <3>1. PICK i \in 1 .. Len(s) : from[i] = j
      BY <1>7
    <3>2. i \in 1 .. Len(t) /\ t[i] = s[j]
      BY <1>3, <1>5, <3>1
    <3> QED  BY <3>2, <1>4
  <2>3. ASSUME NEW y \in Range(t) PROVE y \in Range(s)
    <3>1. PICK i \in 1 .. Len(t) : y = t[i]
      BY <1>4
    <3> QED  BY <3>1, <2>1
  <2>4. ASSUME NEW y \in Range(s) PROVE y \in Range(t)
    <3>1. PICK j \in 1 .. Len(s) : y = s[j]
      BY <1>4
    <3> QED  BY <3>1, <2>2
  <2> QED  BY <2>3, <2>4
<1> QED  BY <1>3, <1>8, <1>9

(* x is a then b. *)
Joins(x, a, b) ==
    /\ Len(x) = Len(a) + Len(b)
    /\ \A i \in 1 .. Len(x) : x[i] = IF i <= Len(a) THEN a[i] ELSE b[i - Len(a)]

(* What \o makes of two sequences.                                         *)
LEMMA Joining ==
    ASSUME NEW S, NEW a \in Seq(S), NEW b \in Seq(S), NEW x, x = a \o b
    PROVE  x \in Seq(S) /\ Joins(x, a, b)
<1>1. /\ a \o b \in Seq(S) /\ Len(a \o b) = Len(a) + Len(b)
      /\ \A i \in 1 .. Len(a) + Len(b) :
            (a \o b)[i] = IF i <= Len(a) THEN a[i] ELSE b[i - Len(a)]
  BY ConcatProperties
<1> QED  BY <1>1 DEF Joins

-----------------------------------------------------------------------------
(* A set of naturals has a least member; the proofs by induction over the  *)
(* length of a sequence or a round number start from the least exception.  *)
LEMMA Least ==
    ASSUME NEW S, S \subseteq Nat, S # {}
    PROVE  \E m \in S : \A k \in S : m <= k
<1>1. \E m \in S : \A k \in S : <<k, m>> \notin OpToRel(<, Nat)
  BY NatLessThanWellFounded, WFMin
<1>2. PICK m \in S : \A k \in S : <<k, m>> \notin OpToRel(<, Nat)
  BY <1>1
<1>3. \A k \in S : ~(k < m)
  BY <1>2 DEF OpToRel
<1> QED  BY <1>3

(* A set of naturals below n has a greatest member. *)
LEMMA Greatest ==
    ASSUME NEW n \in Nat, NEW S, S \subseteq 0 .. n, S # {}
    PROVE  \E m \in S : \A k \in S : k <= m
<1> DEFINE T == {n - k : k \in S}
<1>1. T \subseteq Nat /\ T # {}
  <2>1. \A k \in S : k \in Int /\ 0 <= k /\ k <= n
    OBVIOUS
  <2>2. \A k \in S : n - k \in Nat
    BY <2>1
  <2> QED  BY <2>2
<1>2. PICK t \in T : \A k \in T : t <= k
  <2> HIDE DEF T
  <2> QED  BY <1>1, Least
<1>3. PICK m \in S : t = n - m
  BY <1>2
<1>4. ASSUME NEW k \in S PROVE k <= m
  <2>1. n - m <= n - k
    BY <1>2, <1>3
  <2>2. k \in 0 .. n /\ m \in 0 .. n
    OBVIOUS
  <2> QED  BY <2>1, <2>2
<1> QED  BY <1>4

(* What holds of 0, and of a number when of the one before, holds up to n. *)
LEMMA InductionTo ==
    ASSUME NEW n \in Nat, NEW S, 0 \in S, \A k \in 1 .. n : k - 1 \in S => k \in S
    PROVE  \A k \in 0 .. n : k \in S
<1> DEFINE Bad == {k \in 0 .. n : k \notin S}
<1> SUFFICES ASSUME Bad # {} PROVE FALSE
  OBVIOUS
<1>1. PICK m \in Bad : \A k \in Bad : m <= k
  <2>1. Bad \subseteq Nat
    OBVIOUS
  <2> HIDE DEF Bad
  <2> QED  BY <2>1, Least
<1>2. m \in 0 .. n /\ m \notin S
  OBVIOUS
<1>3. m \in 1 .. n /\ m - 1 \in 0 .. n /\ ~(m <= m - 1)
  BY <1>2
<1>4. m - 1 \in S
  BY <1>1, <1>3
<1> QED  BY <1>2, <1>3, <1>4

(* f starts at a and goes on as h says, with the number of each step.      *)
Follows(f, n, S, a, h) ==
    /\ f \in [0 .. n -> S]
    /\ f[0] = a
    /\ \A i \in 1 .. n : f[i] = h[<<f[i - 1], i>>]

(* A function defined along the numbers up to n exists.                    *)
LEMMA Recursion ==
    ASSUME NEW n \in Nat, NEW S, NEW a \in S, NEW h \in [S \X (1 .. n) -> S]
    PROVE  \E f : Follows(f, n, S, a, h)
<1> DEFINE Bad == {m \in 0 .. n : ~ \E f : Follows(f, m, S, a, h)}
<1>1. Bad = {}
  <2> SUFFICES ASSUME Bad # {} PROVE FALSE
    OBVIOUS
  <2>1. PICK m \in Bad : \A k \in Bad : m <= k
    <3>1. Bad \subseteq Nat
      OBVIOUS
    <3> HIDE DEF Bad
    <3> QED  BY <3>1, Least
  <2>2. CASE m = 0
    <3> DEFINE f == [i \in 0 .. 0 |-> a]
    <3>1. Follows(f, 0, S, a, h)
      BY DEF Follows
    <3> QED  BY <3>1, <2>2
  <2>3. CASE m # 0
    <3>1. m - 1 \in 0 .. n /\ m - 1 \notin Bad /\ m \in 1 .. n
      <4>1. m \in 0 .. n
        OBVIOUS
      <4>2. m - 1 \in 0 .. n /\ m \in 1 .. n /\ ~(m <= m - 1)
        BY <4>1, <2>3
      <4> HIDE DEF Bad
      <4> QED  BY <4>2, <2>1
    <3>2. PICK g : Follows(g, m - 1, S, a, h)
      BY <3>1
    <3> DEFINE f == [i \in 0 .. m |-> IF i = m THEN h[<<g[m - 1], m>>] ELSE g[i]]
    <3>3. g[m - 1] \in S /\ h[<<g[m - 1], m>>] \in S
      BY <3>1, <3>2 DEF Follows
    <3>4. f \in [0 .. m -> S]
      BY <3>1, <3>2, <3>3 DEF Follows
    <3>5. f[0] = a
      BY <3>1, <3>2 DEF Follows
    <3>6. ASSUME NEW i \in 1 .. m PROVE f[i] = h[<<f[i - 1], i>>]
      <4>1. CASE i = m
        <5>1. f[i] = h[<<g[m - 1], m>>] /\ f[i - 1] = g[m - 1]
          BY <4>1, <3>1
        <5> QED  BY <5>1, <4>1
      <4>2. CASE i # m
        <5>1. i \in 1 .. m - 1 /\ f[i] = g[i] /\ f[i - 1] = g[i - 1]
          BY <4>2, <3>1
        <5> QED  BY <5>1, <3>2 DEF Follows
      <4> QED  BY <4>1, <4>2
    <3> HIDE DEF f
    <3>7. Follows(f, m, S, a, h)
      BY <3>4, <3>5, <3>6 DEF Follows
    <3> QED  BY <3>7, <2>1
  <2> QED  BY <2>2, <2>3
<1>2. n \in 0 .. n
  OBVIOUS
<1> QED  BY <1>1, <1>2
=============================================================================
