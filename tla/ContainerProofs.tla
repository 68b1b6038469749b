-------------------------- MODULE ContainerProofs ---------------------------
(***************************************************************************)
(* Proofs about the container (Container): no byte handed to write_cache   *)
(* is lost, repeated or moved behind a later one of the same writer,       *)
(* however the flushes of the writers fall; and with one writer every      *)
(* record that is in the file as a whole reads back as it was written.     *)
(*                                                                         *)
(* The invariant Inv adds to OwnBytesInOrder what keeps the writers apart: *)
(* a record is taken by one of them, a writer holds bytes of its own       *)
(* records only, the file holds bytes of records taken, and a writer that  *)
(* is inside a record is at a field of the last one it took.               *)
(***************************************************************************)
EXTENDS Container, QueueLemmas

(* g joins the parts of ss one after another. *)
Gathers(g, ss, S) == /\ g \in [0 .. Len(ss) -> Seq(S)]
                     /\ g[0] = <<>>
                     /\ \A i \in 1 .. Len(ss) : g[i] = g[i - 1] \o ss[i]

(* Sequences can be joined, one after another. *)
LEMMA GathersExists ==
    ASSUME NEW S, NEW ss \in Seq(Seq(S))
    PROVE  \E g : Gathers(g, ss, S)
<1> DEFINE h == [y \in Seq(S) \X (1 .. Len(ss)) |-> y[1] \o ss[y[2]]]
<1>1. Len(ss) \in Nat /\ \A i \in 1 .. Len(ss) : ss[i] \in Seq(S)
  BY LenProperties, ElementOfSeq
<1>2. <<>> \in Seq(S)
  BY EmptySeq
<1>3. h \in [Seq(S) \X (1 .. Len(ss)) -> Seq(S)]
  BY <1>1, ConcatProperties
<1>4. PICK g : Follows(g, Len(ss), Seq(S), <<>>, h)
  <2> HIDE DEF h
  <2> QED  BY <1>1, <1>2, <1>3, Recursion
<1>5. \A i \in 1 .. Len(ss) : g[i] = g[i - 1] \o ss[i]
  <2> TAKE i \in 1 .. Len(ss)
  <2>1. i - 1 \in 0 .. Len(ss)
    BY <1>1
  <2>2. g[i - 1] \in Seq(S)
    BY <1>4, <2>1 DEF Follows
  <2>3. g[i] = h[<<g[i - 1], i>>]
    BY <1>4 DEF Follows
  <2> QED  BY <2>2, <2>3
<1> QED  BY <1>4, <1>5 DEF Follows, Gathers

(* FlattenSeq joins the parts. *)
LEMMA FlattenGathers ==
    ASSUME NEW S, NEW ss \in Seq(Seq(S)), NEW g, Gathers(g, ss, S)
    PROVE  FlattenSeq(ss) = g[Len(ss)] /\ FlattenSeq(ss) \in Seq(S)
<1>1. Len(ss) \in Nat /\ (Len(ss) = 0 => ss = <<>>)
      /\ \A i \in 1 .. Len(ss) : ss[i] \in Seq(S)
  BY LenProperties, ElementOfSeq, EmptySeq
<1>2. g[Len(ss)] \in Seq(S)
  BY <1>1 DEF Gathers
<1>3. CASE Len(ss) = 0
  BY <1>1, <1>2, <1>3 DEF FlattenSeq, Gathers
<1>4. CASE Len(ss) # 0
  <2> DEFINE Is(f) == f = [i \in 1 .. Len(ss) |-> IF i = 1 THEN ss[i] ELSE f[i - 1] \o ss[i]]
             e == [i \in 1 .. Len(ss) |-> g[i]]
             flatten == CHOOSE f : Is(f)
  <2>1. Is(e)
    <3>1. ASSUME NEW i \in 1 .. Len(ss)
          PROVE  g[i] = IF i = 1 THEN ss[i] ELSE e[i - 1] \o ss[i]
      <4>1. g[i] = g[i - 1] \o ss[i]
        BY DEF Gathers
      <4>2. CASE i = 1
        <5>1. g[i - 1] = <<>>
          BY <4>2 DEF Gathers
        <5> QED  BY <1>1, <4>1, <4>2, <5>1, ConcatEmptySeq
      <4>3. CASE i # 1
        <5>1. i - 1 \in 1 .. Len(ss)
          BY <1>1, <4>3
        <5> QED  BY <4>1, <4>3, <5>1
      <4> QED  BY <4>2, <4>3
    <3> QED  BY <3>1
  <2>2. Is(flatten)
    <3> HIDE DEF Is
    <3> QED  BY <2>1
  <2>3. FlattenSeq(ss) = flatten[Len(ss)]
    BY <1>4 DEF FlattenSeq
  <2> HIDE DEF flatten
  <2> DEFINE Bad == {i \in 1 .. Len(ss) : flatten[i] # g[i]}
  <2>4. Bad = {}
    <3> SUFFICES ASSUME Bad # {} PROVE FALSE
      OBVIOUS
    <3>1. PICK m \in Bad : \A k \in Bad : m <= k
      <4>1. Bad \subseteq Nat
        OBVIOUS
      <4> HIDE DEF Bad
      <4> QED  BY <4>1, Least
    <3>2. m \in 1 .. Len(ss)
      OBVIOUS
    <3>3. flatten[m] = IF m = 1 THEN ss[m] ELSE flatten[m - 1] \o ss[m]
      BY <2>2, <3>2
    <3>4. g[m] = g[m - 1] \o ss[m]
      BY <3>2 DEF Gathers
    <3>5. CASE m = 1
      <4>1. g[m - 1] = <<>>
        BY <3>5 DEF Gathers
      <4>2. g[m] = ss[m]
        BY <1>1, <3>2, <3>4, <4>1, ConcatEmptySeq
      <4> QED  BY <3>3, <3>5, <4>2
    <3>6. CASE m # 1
      <4>1. m - 1 \in 1 .. Len(ss) /\ m - 1 < m
        BY <1>1, <3>2, <3>6
      <4>2. flatten[m - 1] = g[m - 1]
        BY <3>1, <4>1
      <4> QED  BY <3>3, <3>4, <3>6, <4>2
    <3> QED  BY <3>5, <3>6
  <2>5. Len(ss) \in 1 .. Len(ss)
    BY <1>1, <1>4
  <2> QED  BY <1>2, <2>3, <2>4, <2>5
<1> QED  BY <1>3, <1>4

(* What is joined up to one part is the parts up to there. *)
LEMMA FlattenPrefix ==
    ASSUME NEW S, NEW ss \in Seq(Seq(S)), NEW g, Gathers(g, ss, S), NEW n \in 0 .. Len(ss)
    PROVE  FlattenSeq([i \in 1 .. n |-> ss[i]]) = g[n]
<1> DEFINE tt == [i \in 1 .. n |-> ss[i]]
<1>1. Len(ss) \in Nat /\ \A i \in 1 .. Len(ss) : ss[i] \in Seq(S)
  BY LenProperties, ElementOfSeq
<1>2. tt \in Seq(Seq(S)) /\ Len(tt) = n
  <2>1. n \in Nat /\ tt \in [1 .. n -> Seq(S)]
    BY <1>1
  <2> QED  BY <2>1, IsASeq, LenProperties
<1>3. Gathers([i \in 0 .. n |-> g[i]], tt, S)
  <2>1. \A i \in 0 .. n : i \in 0 .. Len(ss)
    BY <1>1
  <2>2. \A i \in 1 .. n : i \in 1 .. Len(ss) /\ i \in 0 .. n /\ i - 1 \in 0 .. n
    BY <1>1
  <2> DEFINE e == [i \in 0 .. n |-> g[i]]
  <2>3. e \in [0 .. n -> Seq(S)]
    BY <2>1 DEF Gathers
  <2>4. e[0] = <<>>
    BY <1>1 DEF Gathers
  <2>5. \A i \in 1 .. n : e[i] = e[i - 1] \o tt[i]
    BY <2>2 DEF Gathers
  <2> HIDE DEF e, tt
  <2> QED  BY <1>2, <2>3, <2>4, <2>5 DEF Gathers, e
<1>4. n \in 0 .. n
  BY <1>1
<1> HIDE DEF tt
<1>5. FlattenSeq(tt) = [i \in 0 .. n |-> g[i]][n]
  BY <1>2, <1>3, FlattenGathers
<1> QED  BY <1>4, <1>5 DEF tt

(* s holds the parts of ss and one more. *)
Extends(s, ss, x) == /\ Len(s) = Len(ss) + 1
                     /\ \A i \in 1 .. Len(ss) : s[i] = ss[i]
                     /\ s[Len(s)] = x

(* FlattenSeq of one more part puts it behind what the others make. *)
LEMMA FlattenExtended ==
    ASSUME NEW S, NEW ss \in Seq(Seq(S)), NEW tt \in Seq(Seq(S)), NEW x \in Seq(S),
           Extends(tt, ss, x)
    PROVE  FlattenSeq(tt) = FlattenSeq(ss) \o x
<1>1. Len(ss) \in Nat /\ Len(tt) = Len(ss) + 1 /\ tt[Len(tt)] = x
  BY LenProperties DEF Extends
<1>2. PICK g : Gathers(g, tt, S)
  BY GathersExists
<1>3. FlattenSeq(tt) = g[Len(tt)]
  BY <1>2, FlattenGathers
<1>4. g[Len(tt)] = g[Len(ss)] \o x
  <2>1. Len(tt) \in 1 .. Len(tt) /\ Len(tt) - 1 = Len(ss)
    BY <1>1
  <2> QED  BY <1>1, <1>2, <2>1 DEF Gathers
<1>5. Gathers([i \in 0 .. Len(ss) |-> g[i]], ss, S)
  <2>1. \A i \in 0 .. Len(ss) : i \in 0 .. Len(tt)
    BY <1>1
  <2>2. \A i \in 1 .. Len(ss) : i \in 1 .. Len(tt) /\ i \in 0 .. Len(ss) /\ i - 1 \in 0 .. Len(ss)
    BY <1>1
  <2>3. \A i \in 1 .. Len(ss) : tt[i] = ss[i]
    BY DEF Extends
  <2> DEFINE e == [i \in 0 .. Len(ss) |-> g[i]]
  <2>4. e \in [0 .. Len(ss) -> Seq(S)]
    BY <1>2, <2>1 DEF Gathers
  <2>5. e[0] = <<>>
    BY <1>1, <1>2 DEF Gathers
  <2>6. \A i \in 1 .. Len(ss) : e[i] = e[i - 1] \o ss[i]
    BY <1>2, <2>2, <2>3 DEF Gathers
  <2> HIDE DEF e
  <2> QED  BY <2>4, <2>5, <2>6 DEF Gathers, e
<1>6. FlattenSeq(ss) = [i \in 0 .. Len(ss) |-> g[i]][Len(ss)]
  BY <1>5, FlattenGathers
<1>7. FlattenSeq(ss) = g[Len(ss)]
  BY <1>1, <1>6
<1> QED  BY <1>3, <1>4, <1>7

(* Nothing joined is nothing. *)
LEMMA FlattenEmpty == FlattenSeq(<<>>) = <<>>
BY DEF FlattenSeq

(* What is joined has the elements of the parts. *)
LEMMA FlattenType ==
    ASSUME NEW S, NEW ss \in Seq(Seq(S)) PROVE FlattenSeq(ss) \in Seq(S)
BY GathersExists, FlattenGathers

(* g picks the bytes of records of R out of s. *)
Picks(g, s, R, S) ==
    /\ g \in [0 .. Len(s) -> Seq(S)]
    /\ g[0] = <<>>
    /\ \A k \in 1 .. Len(s) : g[k] = IF s[k].rec \in R THEN Append(g[k - 1], s[k]) ELSE g[k - 1]

(* The bytes of some records can be picked out of any others. *)
LEMMA PicksExists ==
    ASSUME NEW S, NEW s \in Seq(S), NEW R
    PROVE  \E g : Picks(g, s, R, S)
<1> DEFINE h == [y \in Seq(S) \X (1 .. Len(s)) |->
                   IF s[y[2]].rec \in R THEN Append(y[1], s[y[2]]) ELSE y[1]]
<1>1. Len(s) \in Nat /\ \A i \in 1 .. Len(s) : s[i] \in S
  BY LenProperties, ElementOfSeq
<1>2. <<>> \in Seq(S)
  BY EmptySeq
<1>3. h \in [Seq(S) \X (1 .. Len(s)) -> Seq(S)]
  BY <1>1, AppendProperties
<1>4. PICK g : Follows(g, Len(s), Seq(S), <<>>, h)
  <2> HIDE DEF h
  <2> QED  BY <1>1, <1>2, <1>3, Recursion
<1>5. \A i \in 1 .. Len(s) : g[i] = IF s[i].rec \in R THEN Append(g[i - 1], s[i]) ELSE g[i - 1]
  <2> TAKE i \in 1 .. Len(s)
  <2>1. i - 1 \in 0 .. Len(s)
    BY <1>1
  <2>2. g[i - 1] \in Seq(S)
    BY <1>4, <2>1 DEF Follows
  <2>3. g[i] = h[<<g[i - 1], i>>]
    BY <1>4 DEF Follows
  <2> QED  BY <2>2, <2>3
<1> QED  BY <1>4, <1>5 DEF Follows, Picks

(* Of picks them out. *)
LEMMA OfPicks ==
    ASSUME NEW S, NEW s \in Seq(S), NEW R, NEW g, Picks(g, s, R, S)
    PROVE  Of(s, R) = g[Len(s)] /\ Of(s, R) \in Seq(S)
<1>1. Len(s) \in Nat
  BY LenProperties
<1> DEFINE Is(f) == f = [k \in 0 .. Len(s) |-> IF k = 0 THEN <<>>
                                ELSE IF s[k].rec \in R THEN Append(f[k - 1], s[k])
                                ELSE f[k - 1]]
           of == CHOOSE f : Is(f)
           e == [i \in 0 .. Len(s) |-> g[i]]
<1>2. Is(e)
  <2>1. ASSUME NEW i \in 0 .. Len(s)
        PROVE  g[i] = IF i = 0 THEN <<>> ELSE IF s[i].rec \in R THEN Append(e[i - 1], s[i])
                                         ELSE e[i - 1]
    <3>1. CASE i = 0
      BY <3>1 DEF Picks
    <3>2. CASE i # 0
      <4>1. i \in 1 .. Len(s) /\ i - 1 \in 0 .. Len(s)
        BY <1>1, <3>2
      <4> QED  BY <3>2, <4>1 DEF Picks
    <3> QED  BY <3>1, <3>2
  <2> QED  BY <2>1
<1>3. Is(of)
  <2> HIDE DEF Is
  <2> QED  BY <1>2
<1>4. Of(s, R) = of[Len(s)]
  BY DEF Of
<1> HIDE DEF of
<1> DEFINE Bad == {i \in 0 .. Len(s) : of[i] # g[i]}
<1>5. Bad = {}
  <2> SUFFICES ASSUME Bad # {} PROVE FALSE
    OBVIOUS
  <2>1. PICK m \in Bad : \A k \in Bad : m <= k
    <3>1. Bad \subseteq Nat
      OBVIOUS
    <3> HIDE DEF Bad
    <3> QED  BY <3>1, Least
  <2>2. m \in 0 .. Len(s)
    OBVIOUS
  <2>3. of[m] = IF m = 0 THEN <<>> ELSE IF s[m].rec \in R THEN Append(of[m - 1], s[m])
                ELSE of[m - 1]
    BY <1>3, <2>2
  <2>4. CASE m = 0
    BY <2>3, <2>4 DEF Picks
  <2>5. CASE m # 0
    <3>1. m \in 1 .. Len(s) /\ m - 1 \in 0 .. Len(s) /\ m - 1 < m
      BY <1>1, <2>2, <2>5
    <3>2. of[m - 1] = g[m - 1]
      BY <2>1, <3>1
    <3>3. g[m] = IF s[m].rec \in R THEN Append(g[m - 1], s[m]) ELSE g[m - 1]
      BY <3>1 DEF Picks
    <3> QED  BY <2>3, <2>5, <3>2, <3>3
  <2> QED  BY <2>4, <2>5
<1>6. Len(s) \in 0 .. Len(s)
  BY <1>1
<1>7. g[Len(s)] \in Seq(S)
  BY <1>6 DEF Picks
<1> QED  BY <1>4, <1>5, <1>6, <1>7

(* What Of picks are bytes. *)
LEMMA OfType ==
    ASSUME NEW S, NEW s \in Seq(S), NEW R PROVE Of(s, R) \in Seq(S)
BY PicksExists, OfPicks

(* No byte is picked where no record is asked for. *)
LEMMA OfNone ==
    ASSUME NEW S, NEW s \in Seq(S), NEW R, \A k \in 1 .. Len(s) : s[k].rec \notin R
    PROVE  Of(s, R) = <<>>
<1>1. PICK n : n = Len(s)
  OBVIOUS
<1>2. n \in Nat
  BY <1>1, LenProperties
<1> DEFINE e == [i \in 0 .. n |-> <<>>]
<1>3. Picks(e, s, R, S)
  <2>1. <<>> \in Seq(S)
    BY EmptySeq
  <2>2. \A i \in 1 .. n : i \in 0 .. n /\ i - 1 \in 0 .. n
    BY <1>2
  <2>3. 0 \in 0 .. n
    BY <1>2
  <2> QED  BY <1>1, <2>1, <2>2, <2>3 DEF Picks
<1>4. e[n] = <<>>
  BY <1>2
<1> HIDE DEF e
<1> QED  BY <1>1, <1>3, <1>4, OfPicks

(* What is picked depends only on the records that are there. *)
LEMMA OfSame ==
    ASSUME NEW S, NEW s \in Seq(S), NEW R, NEW Q,
           \A k \in 1 .. Len(s) : s[k].rec \in R <=> s[k].rec \in Q
    PROVE  Of(s, R) = Of(s, Q)
<1>1. PICK g : Picks(g, s, R, S)
  BY PicksExists
<1>2. Picks(g, s, Q, S)
  BY <1>1 DEF Picks
<1>3. Of(s, R) = g[Len(s)]
  BY <1>1, OfPicks
<1>4. Of(s, Q) = g[Len(s)]
  BY <1>2, OfPicks
<1> QED  BY <1>3, <1>4

(* All is picked where all are of records asked for. *)
LEMMA OfAll ==
    ASSUME NEW S, NEW s \in Seq(S), NEW R, \A k \in 1 .. Len(s) : s[k].rec \in R
    PROVE  Of(s, R) = s
<1>1. PICK n : n = Len(s)
  OBVIOUS
<1>2. n \in Nat
  BY <1>1, LenProperties
<1> DEFINE e == [i \in 0 .. n |-> SubSeq(s, 1, i)]
<1>3. \A i \in 0 .. n : /\ e[i] = SubSeq(s, 1, i) /\ e[i] \in Seq(S) /\ Len(e[i]) = i
                        /\ \A k \in 1 .. i : e[i][k] = s[k]
  <2> TAKE i \in 0 .. n
  <2>1. i <= n /\ i \in Nat
    BY <1>2
  <2>2. SubSeq(s, 1, i) \in Seq(S) /\ Len(SubSeq(s, 1, i)) = i
        /\ \A k \in 1 .. i : SubSeq(s, 1, i)[k] = s[k]
    BY <1>1, <1>2, <2>1, SubSeqProperties
  <2> QED  BY <2>2
<1>4. \A i \in 1 .. n : e[i] = Append(e[i - 1], s[i])
  <2> TAKE i \in 1 .. n
  <2> DEFINE t == Append(e[i - 1], s[i])
  <2>1. i \in 0 .. n /\ i - 1 \in 0 .. n /\ i \in Nat /\ i - 1 + 1 = i
    BY <1>2
  <2>2. s[i] \in S
    BY <1>1, ElementOfSeq
  <2>3. e[i - 1] \in Seq(S) /\ Len(e[i - 1]) = i - 1
    BY <1>3, <2>1
  <2>4. t \in Seq(S) /\ Len(t) = i /\ t[i] = s[i] /\ \A k \in 1 .. i - 1 : t[k] = e[i - 1][k]
    BY <2>1, <2>2, <2>3, AppendProperties
  <2>5. e[i] \in Seq(S) /\ Len(e[i]) = i
    BY <1>3, <2>1
  <2>6. \A k \in 1 .. i : e[i][k] = t[k]
    <3> TAKE k \in 1 .. i
    <3>1. e[i][k] = s[k]
      BY <1>3, <2>1
    <3>2. k \in 1 .. i - 1 \/ k = i
      BY <2>1
    <3>3. k \in 1 .. i - 1 => e[i - 1][k] = s[k]
      BY <1>3, <2>1
    <3> HIDE DEF e, t
    <3> QED  BY <2>4, <3>1, <3>2, <3>3
  <2> HIDE DEF e, t
  <2>7. e[i] = t
    BY <2>4, <2>5, <2>6, SeqEqual
  <2> QED  BY <2>7 DEF t
<1>5. e[n] = s
  <2>1. n \in 0 .. n
    BY <1>2
  <2> HIDE DEF e
  <2>2. e[n] \in Seq(S) /\ Len(e[n]) = Len(s) /\ \A k \in 1 .. n : e[n][k] = s[k]
    BY <1>1, <1>3, <2>1
  <2> QED  BY <1>1, <2>2, SeqEqual
<1>6. e[0] = <<>>
  <2>1. 0 \in 0 .. n
    BY <1>2
  <2> HIDE DEF e
  <2>2. e[0] \in Seq(S) /\ Len(e[0]) = 0
    BY <1>3, <2>1
  <2> QED  BY <2>2, EmptySeq
<1>7. Picks(e, s, R, S)
  <2>1. e \in [0 .. n -> Seq(S)]
    BY <1>3
  <2> HIDE DEF e
  <2> QED  BY <1>1, <1>4, <1>6, <2>1 DEF Picks
<1> HIDE DEF e
<1> QED  BY <1>1, <1>5, <1>7, OfPicks

(* Picking from two sequences one after the other picks from both. *)
LEMMA OfConcat ==
    ASSUME NEW S, NEW s \in Seq(S), NEW t \in Seq(S), NEW R,
           NEW u \in Seq(S), Joins(u, s, t)
    PROVE  Of(u, R) = Of(s, R) \o Of(t, R)
<1>1. PICK g : Picks(g, s, R, S)
  BY PicksExists
<1>2. PICK h : Picks(h, t, R, S)
  BY PicksExists
<1>3. PICK m, n : m = Len(s) /\ n = Len(t)
  OBVIOUS
<1>4. m \in Nat /\ n \in Nat
  BY <1>3, LenProperties
<1>6. /\ u \in Seq(S) /\ Len(u) = m + n
      /\ \A k \in 1 .. m : u[k] = s[k]
      /\ \A k \in m + 1 .. m + n : u[k] = t[k - m]
  <2>1. /\ u \in Seq(S) /\ Len(u) = m + n
        /\ \A k \in 1 .. m + n : u[k] = IF k <= m THEN s[k] ELSE t[k - m]
    BY <1>3 DEF Joins
  <2>2. \A k \in 1 .. m : k \in 1 .. m + n /\ k <= m
    BY <1>4
  <2>3. \A k \in m + 1 .. m + n : k \in 1 .. m + n /\ ~(k <= m)
    BY <1>4
  <2> QED  BY <2>1, <2>2, <2>3
<1> DEFINE e == [k \in 0 .. m + n |-> IF k <= m THEN g[k] ELSE g[m] \o h[k - m]]
<1>7. \A k \in 0 .. m : e[k] = g[k] /\ e[k] \in Seq(S)
  <2>1. \A k \in 0 .. m : k \in 0 .. m + n /\ k <= m
    BY <1>4
  <2>2. \A k \in 0 .. m : g[k] \in Seq(S)
    BY <1>1, <1>3 DEF Picks
  <2> QED  BY <2>1, <2>2
<1>8. \A k \in 0 .. n : e[m + k] = g[m] \o h[k] /\ e[m + k] \in Seq(S)
  <2> TAKE k \in 0 .. n
  <2>1. k \in Nat /\ m + k \in 0 .. m + n /\ (m + k) - m = k /\ (m + k <= m => k = 0) /\ m \in 0 .. m
    BY <1>4
  <2>2. g[m] \in Seq(S) /\ h[k] \in Seq(S)
    BY <1>1, <1>2, <1>3, <2>1 DEF Picks
  <2>3. g[m] \o h[k] \in Seq(S)
    BY <2>2, ConcatProperties
  <2>4. CASE k = 0
    <3>1. h[k] = <<>> /\ m + k = m
      BY <1>2, <1>4, <2>4 DEF Picks
    <3>2. g[m] \o h[k] = g[m]
      BY <2>2, <3>1, ConcatEmptySeq
    <3>3. e[m + k] = g[m]
      BY <1>7, <2>1, <3>1
    <3> QED  BY <2>3, <3>2, <3>3
  <2>5. CASE k # 0
    <3>1. ~(m + k <= m)
      BY <2>1, <2>5
    <3>2. e[m + k] = g[m] \o h[(m + k) - m]
      BY <2>1, <3>1
    <3> QED  BY <2>1, <2>3, <3>2
  <2> QED  BY <2>4, <2>5
<1> DEFINE Step(k) == e[k] = IF u[k].rec \in R THEN Append(e[k - 1], u[k]) ELSE e[k - 1]
<1>9. \A k \in 1 .. m : Step(k)
  <2> TAKE k \in 1 .. m
  <2>1. k \in 0 .. m /\ k - 1 \in 0 .. m
    BY <1>4
  <2>2. e[k] = g[k] /\ e[k - 1] = g[k - 1] /\ u[k] = s[k]
    BY <1>6, <1>7, <2>1
  <2> HIDE DEF e
  <2> QED  BY <1>1, <1>3, <2>2 DEF Picks
<1>10. \A k \in m + 1 .. m + n : Step(k)
  <2> TAKE k \in m + 1 .. m + n
  <2>1. PICK i : i = k - m
    OBVIOUS
  <2>2. /\ i \in 1 .. n /\ i \in 0 .. n /\ i - 1 \in 0 .. n /\ k = m + i
        /\ k - 1 = m + (i - 1) /\ m \in 0 .. m
    BY <1>4, <2>1
  <2>3. e[k] = g[m] \o h[i] /\ e[k - 1] = g[m] \o h[i - 1]
    <3> HIDE DEF e
    <3> QED  BY <1>8, <2>2
  <2>4. u[k] = t[i]
    BY <1>6, <2>1
  <2>5. h[i] = IF t[i].rec \in R THEN Append(h[i - 1], t[i]) ELSE h[i - 1]
    BY <1>2, <1>3, <2>2 DEF Picks
  <2>6. g[m] \in Seq(S) /\ h[i - 1] \in Seq(S) /\ t[i] \in S
    BY <1>1, <1>2, <1>3, <2>2, ElementOfSeq DEF Picks
  <2>7. g[m] \o Append(h[i - 1], t[i]) = Append(g[m] \o h[i - 1], t[i])
    <3>1. PICK a, b, x : a = g[m] /\ b = h[i - 1] /\ x = t[i]
      OBVIOUS
    <3>2. a \in Seq(S) /\ b \in Seq(S) /\ x \in S /\ <<x>> \in Seq(S) /\ a \o b \in Seq(S)
      BY <2>6, <3>1, ConcatProperties
    <3>3. Append(b, x) = b \o <<x>> /\ Append(a \o b, x) = (a \o b) \o <<x>>
      BY <3>2, AppendIsConcat
    <3>4. (a \o b) \o <<x>> = a \o (b \o <<x>>)
      BY ONLY <3>2, ConcatAssociative, SMTT(30)
    <3> QED  BY <3>1, <3>3, <3>4
  <2> HIDE DEF e
  <2>8. CASE t[i].rec \in R
    BY <2>3, <2>4, <2>5, <2>7, <2>8
  <2>9. CASE t[i].rec \notin R
    BY <2>3, <2>4, <2>5, <2>9
  <2> QED  BY <2>8, <2>9
<1>11. e[0] = <<>>
  <2>1. 0 \in 0 .. m
    BY <1>4
  <2> QED  BY <1>1, <1>7, <2>1 DEF Picks
<1>12. e \in [0 .. m + n -> Seq(S)]
  <2>1. \A k \in 0 .. m + n : e[k] \in Seq(S)
    <3> TAKE k \in 0 .. m + n
    <3>1. k \in 0 .. m \/ (k - m \in 0 .. n /\ k = m + (k - m))
      BY <1>4
    <3> HIDE DEF e
    <3> QED  BY <1>7, <1>8, <3>1
  <2> QED  BY <2>1
<1>13. Picks(e, u, R, S)
  <2>1. \A k \in 1 .. m + n : k \in 1 .. m \/ k \in m + 1 .. m + n
    BY <1>4
  <2>2. \A k \in 1 .. m + n : Step(k)
    <3> HIDE DEF Step
    <3> QED  BY <1>9, <1>10, <2>1
  <2> HIDE DEF e
  <2> QED  BY <1>6, <1>11, <1>12, <2>2 DEF Picks
<1>14. e[m + n] = g[m] \o h[n]
  <2>1. n \in 0 .. n
    BY <1>4
  <2> HIDE DEF e
  <2> QED  BY <1>8, <2>1
<1> HIDE DEF e
<1>15. Of(u, R) = e[m + n]
  <2>1. Of(u, R) = e[Len(u)] /\ Len(u) = m + n
    BY <1>6, <1>13, OfPicks
  <2> QED  BY <2>1
<1>16. Of(s, R) = g[m] /\ Of(t, R) = h[n]
  BY <1>1, <1>2, <1>3, OfPicks
<1> QED  BY <1>14, <1>15, <1>16

(* A byte of a record. *)
Names == {"name", "sizes", "ffxx", "xx", "header", "flag", "cpx", "cpy", "cpl", "inl", "res"}
Byte == [rec : Records, field : Names, pos : Nat]

Knows == shape \in Shapes /\ method \in {"idelta", "xdelta"}

(* Sequences of six, as the layout of xdelta. *)
LEMMA OfSix ==
    ASSUME NEW T, NEW a \in T, NEW b \in T, NEW c \in T, NEW d \in T, NEW e \in T, NEW f \in T,
           NEW s, s = <<a, b, c, d, e, f>>
    PROVE  s \in Seq(T) /\ Len(s) = 6
OBVIOUS

(* Sequences of eleven, as the layout of idelta. *)
LEMMA OfEleven ==
    ASSUME NEW T, NEW a \in T, NEW b \in T, NEW c \in T, NEW d \in T, NEW e \in T, NEW f \in T,
           NEW g \in T, NEW h \in T, NEW i \in T, NEW j \in T, NEW k \in T,
           NEW s, s = <<a, b, c, d, e, f, g, h, i, j, k>>
    PROVE  s \in Seq(T) /\ Len(s) = 11
OBVIOUS

(* A field of a record has a length, and there is at least one. *)
LEMMA LayoutShape ==
    ASSUME Knows, NEW r \in Records
    PROVE  /\ Len(Layout(r)) \in Nat \ {0}
           /\ \A i \in 1 .. Len(Layout(r)) : Layout(r)[i][1] \in Names /\ Layout(r)[i][2] \in Nat
<1>1. shape[r] \in Lengths /\ SizesLen \in Nat
  BY LengthsAssumption DEF Knows
<1>2. \A a \in Arrays : SubSize(r, a) \in Nat
  BY <1>1 DEF SubSize, Packed, Lengths
<1>3. /\ SubSize(r, "cpx") \in Nat /\ SubSize(r, "cpy") \in Nat /\ SubSize(r, "cpl") \in Nat
      /\ SubSize(r, "inl") \in Nat /\ shape[r].name \in Nat /\ shape[r].header \in Nat
      /\ shape[r].res \in Nat
  BY <1>1, <1>2 DEF Arrays, Lengths
<1> DEFINE T == Names \X Nat
<1>4. /\ <<"name", shape[r].name>> \in T /\ <<"sizes", SizesLen>> \in T /\ <<"ffxx", 1>> \in T
      /\ <<"xx", 1>> \in T /\ <<"header", shape[r].header>> \in T /\ <<"flag", 1>> \in T
      /\ <<"cpx", SubSize(r, "cpx")>> \in T /\ <<"cpy", SubSize(r, "cpy")>> \in T
      /\ <<"cpl", SubSize(r, "cpl")>> \in T /\ <<"inl", SubSize(r, "inl")>> \in T
      /\ <<"res", shape[r].res>> \in T
  <2>1. /\ "name" \in Names /\ "sizes" \in Names /\ "ffxx" \in Names /\ "xx" \in Names
        /\ "header" \in Names /\ "flag" \in Names /\ "cpx" \in Names /\ "cpy" \in Names
        /\ "cpl" \in Names /\ "inl" \in Names /\ "res" \in Names
    BY DEF Names
  <2>2. 1 \in Nat
    OBVIOUS
  <2>3. \A a \in Names, n \in Nat : <<a, n>> \in T
    OBVIOUS
  <2> HIDE DEF T
  <2> QED  BY <1>1, <1>3, <2>1, <2>2, <2>3
<1>5. Layout(r) \in Seq(T) /\ (Len(Layout(r)) = 11 \/ Len(Layout(r)) = 6)
  <2> HIDE DEF T
  <2>1. CASE method = "idelta"
    BY <1>4, <2>1, OfEleven DEF Layout
  <2>2. CASE method # "idelta"
    BY <1>4, <2>2, OfSix DEF Layout
  <2> QED  BY <2>1, <2>2
<1>6. \A i \in 1 .. Len(Layout(r)) : Layout(r)[i] \in T
  <2> HIDE DEF T
  <2> QED  BY <1>5, ElementOfSeq
<1>7. \A x \in T : x[1] \in Names /\ x[2] \in Nat
  OBVIOUS
<1>8. Len(Layout(r)) \in Nat \ {0}
  <2>1. 11 \in Nat \ {0} /\ 6 \in Nat \ {0}
    OBVIOUS
  <2>2. Len(Layout(r)) = 11 \/ Len(Layout(r)) = 6
    BY <1>5
  <2> HIDE DEF T
  <2> QED  BY ONLY <2>1, <2>2
<1> HIDE DEF T
<1> QED  BY <1>6, <1>7, <1>8

(* c is a field of n bytes. *)
Spells(c, r, name, n) ==
    /\ c \in Seq(Byte) /\ Len(c) = n
    /\ \A k \in 1 .. n : c[k] = [rec |-> r, field |-> name, pos |-> k]

(* What a field of n bytes is made of. *)
LEMMA ContentIs ==
    ASSUME NEW r \in Records, NEW name \in Names, NEW n \in Nat, NEW c, c = Content(r, name, n)
    PROVE  Spells(c, r, name, n)
<1>1. c \in [1 .. n -> Byte]
  BY DEF Content, Byte
<1>2. c \in Seq(Byte) /\ Len(c) = n
  <2>1. \A k \in 1 .. n : [rec |-> r, field |-> name, pos |-> k] \in Byte
    BY DEF Byte
  <2>2. c = [k \in 1 .. n |-> [rec |-> r, field |-> name, pos |-> k]]
    BY DEF Content
  <2> HIDE DEF Byte
  <2>3. [k \in 1 .. n |-> [rec |-> r, field |-> name, pos |-> k]] \in Seq(Byte)
        /\ Len([k \in 1 .. n |-> [rec |-> r, field |-> name, pos |-> k]]) = n
    BY ONLY <2>1, n \in Nat, IsASeq
  <2> QED  BY <2>2, <2>3
<1>3. \A k \in 1 .. n : c[k] = [rec |-> r, field |-> name, pos |-> k]
  BY DEF Content
<1> QED  BY <1>2, <1>3 DEF Spells

(* A field of a record has bytes of that record. *)
LEMMA FieldBytesIs ==
    ASSUME Knows, NEW r \in Records, NEW i \in 1 .. Len(Layout(r))
    PROVE  /\ FieldBytes(r, i) \in Seq(Byte)
           /\ \A k \in 1 .. Len(FieldBytes(r, i)) : FieldBytes(r, i)[k].rec = r
<1>1. Layout(r)[i][1] \in Names /\ Layout(r)[i][2] \in Nat
  BY LayoutShape
<1>2. PICK c, name, n : name = Layout(r)[i][1] /\ n = Layout(r)[i][2] /\ c = Content(r, name, n)
  OBVIOUS
<1>3. name \in Names /\ n \in Nat
  BY <1>1, <1>2
<1>4. Spells(c, r, name, n)
  BY <1>2, <1>3, ContentIs
<1>5. \A k \in 1 .. n : c[k].rec = r
  BY <1>4 DEF Spells
<1> QED  BY <1>2, <1>4, <1>5 DEF FieldBytes, Spells

(* The first n fields are n sequences of bytes. *)
LEMMA FieldsSeq ==
    ASSUME Knows, NEW r \in Records, NEW n \in 0 .. Len(Layout(r))
    PROVE  /\ [i \in 1 .. n |-> FieldBytes(r, i)] \in Seq(Seq(Byte))
           /\ Len([i \in 1 .. n |-> FieldBytes(r, i)]) = n
<1>1. Len(Layout(r)) \in Nat
  BY LayoutShape
<1>2. \A i \in 1 .. n : FieldBytes(r, i) \in Seq(Byte)
  <2> TAKE i \in 1 .. n
  <2>1. i \in 1 .. Len(Layout(r))
    BY <1>1
  <2> QED  BY <2>1, FieldBytesIs
<1>3. n \in Nat /\ [i \in 1 .. n |-> FieldBytes(r, i)] \in [1 .. n -> Seq(Byte)]
  BY <1>1, <1>2
<1> QED  BY <1>3, IsASeq, LenProperties

(* The fields handed over so far grow by one. *)
LEMMA BegunStep ==
    ASSUME Knows, NEW r \in Records
    PROVE  /\ Begun(r, 0) = <<>>
           /\ \A n \in 0 .. Len(Layout(r)) : Begun(r, n) \in Seq(Byte)
           /\ \A n \in 1 .. Len(Layout(r)) : Begun(r, n) = Begun(r, n - 1) \o FieldBytes(r, n)
<1>1. Len(Layout(r)) \in Nat
  BY LayoutShape
<1>2. Begun(r, 0) = <<>>
  <2>1. 0 \in 0 .. Len(Layout(r))
    BY <1>1
  <2>2. [i \in 1 .. 0 |-> FieldBytes(r, i)] = <<>>
    BY <2>1, FieldsSeq, EmptySeq
  <2> QED  BY <2>2, FlattenEmpty DEF Begun
<1>3. \A n \in 0 .. Len(Layout(r)) : Begun(r, n) \in Seq(Byte)
  BY FieldsSeq, FlattenType DEF Begun
<1>4. ASSUME NEW n \in 1 .. Len(Layout(r))
      PROVE  Begun(r, n) = Begun(r, n - 1) \o FieldBytes(r, n)
  <2>1. n \in 0 .. Len(Layout(r)) /\ n - 1 \in 0 .. Len(Layout(r)) /\ n \in 1 .. n
        /\ (n - 1) + 1 = n /\ \A i \in 1 .. n - 1 : i \in 1 .. n
    BY <1>1
  <2>2. PICK s, t : s = [i \in 1 .. n |-> FieldBytes(r, i)] /\ t = [i \in 1 .. n - 1 |-> FieldBytes(r, i)]
    OBVIOUS
  <2>3. s \in Seq(Seq(Byte)) /\ Len(s) = n /\ t \in Seq(Seq(Byte)) /\ Len(t) = n - 1
    BY <2>1, <2>2, FieldsSeq
  <2>4. s[n] = FieldBytes(r, n)
    BY <2>1, <2>2
  <2>5. \A i \in 1 .. n - 1 : s[i] = t[i]
    BY <2>1, <2>2
  <2>6. Extends(s, t, FieldBytes(r, n))
    BY <2>1, <2>3, <2>4, <2>5 DEF Extends
  <2>7. FlattenSeq(s) = FlattenSeq(t) \o FieldBytes(r, n)
    BY <2>3, <2>6, FieldBytesIs, FlattenExtended
  <2> QED  BY <2>2, <2>7 DEF Begun
<1> QED  BY <1>2, <1>3, <1>4

(* Every record is a sequence of bytes. *)
LEMMA WholeSeq ==
    ASSUME Knows, NEW s \in Seq(Records)
    PROVE  /\ [i \in DOMAIN s |-> RecordBytes(s[i])] \in Seq(Seq(Byte))
           /\ Len([i \in DOMAIN s |-> RecordBytes(s[i])]) = Len(s)
<1>1. Len(s) \in Nat /\ DOMAIN s = 1 .. Len(s)
  BY LenProperties
<1>2. \A i \in 1 .. Len(s) : RecordBytes(s[i]) \in Seq(Byte)
  <2> TAKE i \in 1 .. Len(s)
  <2>1. s[i] \in Records
    BY ElementOfSeq
  <2>2. Len(Layout(s[i])) \in 0 .. Len(Layout(s[i]))
    BY <2>1, LayoutShape
  <2> QED  BY <2>1, <2>2, BegunStep DEF RecordBytes
<1>3. [i \in DOMAIN s |-> RecordBytes(s[i])] \in [1 .. Len(s) -> Seq(Byte)]
  BY <1>1, <1>2
<1> QED  BY <1>1, <1>3, IsASeq, LenProperties

(* Records one after another. *)
LEMMA WholeStep ==
    ASSUME Knows
    PROVE  /\ Whole(<<>>) = <<>>
           /\ \A s \in Seq(Records) : Whole(s) \in Seq(Byte)
           /\ \A s \in Seq(Records), r \in Records : Whole(Append(s, r)) = Whole(s) \o RecordBytes(r)
<1>1. Whole(<<>>) = <<>>
  <2>1. [i \in DOMAIN <<>> |-> RecordBytes(<<>>[i])] = <<>>
    <3>1. <<>> \in Seq(Records) /\ Len(<<>>) = 0
      BY EmptySeq
    <3> QED  BY <3>1, WholeSeq, EmptySeq
  <2> QED  BY <2>1, FlattenEmpty DEF Whole
<1>2. \A s \in Seq(Records) : Whole(s) \in Seq(Byte)
  BY WholeSeq, FlattenType DEF Whole
<1>3. ASSUME NEW s \in Seq(Records), NEW r \in Records
      PROVE  Whole(Append(s, r)) = Whole(s) \o RecordBytes(r)
  <2>1. PICK z : z = Append(s, r)
    OBVIOUS
  <2>2. /\ z \in Seq(Records) /\ Len(z) = Len(s) + 1 /\ Len(s) \in Nat
        /\ DOMAIN z = 1 .. Len(z) /\ DOMAIN s = 1 .. Len(s)
        /\ \A i \in 1 .. Len(s) : z[i] = s[i]
        /\ z[Len(z)] = r
    BY <2>1, AppendProperties, LenProperties
  <2>3. PICK zz, ss : zz = [i \in DOMAIN z |-> RecordBytes(z[i])] /\ ss = [i \in DOMAIN s |-> RecordBytes(s[i])]
    OBVIOUS
  <2>4. zz \in Seq(Seq(Byte)) /\ Len(zz) = Len(z) /\ ss \in Seq(Seq(Byte)) /\ Len(ss) = Len(s)
    BY <2>2, <2>3, WholeSeq
  <2>5. \A i \in 1 .. Len(s) : i \in 1 .. Len(z)
    BY <2>2
  <2>6. Len(z) \in 1 .. Len(z)
    BY <2>2
  <2>7. zz[Len(z)] = RecordBytes(r)
    BY <2>2, <2>3, <2>6
  <2>8. \A i \in 1 .. Len(s) : zz[i] = ss[i]
    BY <2>2, <2>3, <2>5
  <2>9. Extends(zz, ss, RecordBytes(r))
    BY <2>2, <2>4, <2>7, <2>8 DEF Extends
  <2>10. RecordBytes(r) \in Seq(Byte)
    <3>1. Len(Layout(r)) \in 0 .. Len(Layout(r))
      BY LayoutShape
    <3> QED  BY <3>1, BegunStep DEF RecordBytes
  <2>11. FlattenSeq(zz) = FlattenSeq(ss) \o RecordBytes(r)
    BY <2>4, <2>9, <2>10, FlattenExtended
  <2> QED  BY <2>1, <2>3, <2>11 DEF Whole
<1> QED  BY <1>1, <1>2, <1>3

(* All that was handed over of the records s, the last of which is x and   *)
(* at field n of it, or is finished.                                       *)
Handed(x, s, n) == IF x = None THEN Whole(s) ELSE Whole(Front(s)) \o Begun(x, n - 1)

(* The layout of a record depends on the method and the lengths only. *)
LEMMA LayoutSame ==
    ASSUME UNCHANGED <<method, shape>>, NEW r
    PROVE  Layout(r)' = Layout(r) 
<1>1. method' = method /\ shape' = shape
  OBVIOUS
<1>2. \A a : SubSize(r, a)' = SubSize(r, a)
  BY <1>1 DEF SubSize, Packed
<1> QED  BY <1>1, <1>2 DEF Layout

(* So does all that is handed over of given records. *)
LEMMA HandedSame ==
    ASSUME UNCHANGED <<method, shape>>
    PROVE  \A x, s, n : Handed(x, s, n)' = Handed(x, s, n)
<1>1. \A r : Layout(r)' = Layout(r)
  BY LayoutSame
<1>2. \A r, i : FieldBytes(r, i)' = FieldBytes(r, i)
  BY <1>1 DEF FieldBytes
<1>3. \A r, n : Begun(r, n)' = Begun(r, n)
  BY <1>2 DEF Begun
<1>4. \A r : RecordBytes(r)' = RecordBytes(r)
  BY <1>1, <1>3 DEF RecordBytes
<1>5. \A s : Whole(s)' = Whole(s)
  BY <1>4 DEF Whole
<1> QED  BY <1>3, <1>5 DEF Handed

(* Front takes the last element off again. *)
LEMMA FrontAppend ==
    ASSUME NEW S, NEW z \in Seq(S), NEW x \in S
    PROVE  Front(Append(z, x)) = z
<1>1. PICK s : s = Append(z, x)
  OBVIOUS
<1>2. s \in Seq(S) /\ Len(s) = Len(z) + 1 /\ Len(z) \in Nat /\ \A i \in 1 .. Len(z) : s[i] = z[i]
  BY <1>1, AppendProperties, LenProperties
<1>3. PICK n : n = Len(z)
  OBVIOUS
<1>4. Len(s) - 1 = n /\ n \in Nat
  BY <1>2, <1>3
<1>5. \A i \in 1 .. n : s[i] \in S
  BY <1>2, <1>3, ElementOfSeq
<1>6. /\ SubSeq(s, 1, n) \in Seq(S)
      /\ Len(SubSeq(s, 1, n)) = n
      /\ \A i \in 1 .. n : SubSeq(s, 1, n)[i] = s[i]
  BY <1>4, <1>5, SubSeqProperties
<1>7. SubSeq(s, 1, n) = z
  <2>1. \A i \in 1 .. n : SubSeq(s, 1, n)[i] = z[i]
    BY <1>2, <1>3, <1>6
  <2> HIDE <1>1, <1>2
  <2> QED  BY <1>3, <1>6, <2>1, SeqEqual
<1> QED  BY <1>1, <1>4, <1>7 DEF Front

(* Popping a record hands nothing over. *)
LEMMA HandedPop ==
    ASSUME Knows, NEW z \in Seq(Records), NEW r \in Records, NEW n
    PROVE  Handed(r, Append(z, r), 1) = Handed(None, z, n)
<1>1. r # None
  BY RecordsAssumption
<1>2. Whole(z) \in Seq(Byte) /\ Begun(r, 1 - 1) = <<>>
  BY WholeStep, BegunStep
<1> QED  BY <1>1, <1>2, FrontAppend, ConcatEmptySeq DEF Handed

(* Copying a field into the cache hands that field over. *)
Passes(r, s, n) ==
    /\ Handed(r, s, n) \in Seq(Byte)
    /\ Handed(r, s, n + 1) = Handed(r, s, n) \o FieldBytes(r, n)
    /\ n = Len(Layout(r)) => Handed(None, s, 1) = Handed(r, s, n) \o FieldBytes(r, n)

(* Passes is what happens to what was handed over. *)
LEMMA HandedCopy ==
    ASSUME Knows, NEW z \in Seq(Records), NEW r \in Records, NEW n \in 1 .. Len(Layout(r)),
           NEW s, s = Append(z, r)
    PROVE  Passes(r, s, n)
<1>1. r # None /\ Len(Layout(r)) \in Nat
  BY RecordsAssumption, LayoutShape
<1>2. PICK a, b, c, d : a = Whole(z) /\ b = Begun(r, n - 1) /\ c = FieldBytes(r, n) /\ d = Begun(r, n)
  OBVIOUS
<1>3. n - 1 \in 0 .. Len(Layout(r)) /\ n + 1 - 1 = n
  BY <1>1
<1>4. a \in Seq(Byte) /\ b \in Seq(Byte) /\ c \in Seq(Byte)
  BY <1>2, <1>3, WholeStep, BegunStep, FieldBytesIs
<1>5. d = b \o c
  BY <1>2, BegunStep
<1>6. Front(s) = z
  BY FrontAppend
<1>7. Handed(r, s, n) = a \o b /\ Handed(r, s, n + 1) = a \o d
  BY <1>1, <1>2, <1>3, <1>6 DEF Handed
<1>8. a \o d = (a \o b) \o c /\ a \o b \in Seq(Byte)
  <2>1. (a \o b) \o c = a \o (b \o c)
    BY ONLY <1>4, ConcatAssociative, SMTT(30)
  <2> QED  BY <1>4, <1>5, <2>1, ConcatProperties
<1>9. ASSUME n = Len(Layout(r))
      PROVE  Handed(None, s, 1) = a \o d
  BY <1>2, <1>9, WholeStep DEF Handed, RecordBytes
<1>10. Handed(r, s, n + 1) = Handed(r, s, n) \o FieldBytes(r, n)
  BY <1>2, <1>7, <1>8
<1>11. n = Len(Layout(r)) => Handed(None, s, 1) = Handed(r, s, n) \o FieldBytes(r, n)
  BY <1>2, <1>7, <1>8, <1>9
<1> QED  BY <1>7, <1>8, <1>10, <1>11 DEF Passes

(* All bytes of s are of records of R. *)
Within(s, R) == \A k \in 1 .. Len(s) : s[k].rec \in R

(* u is s and t glued together.                                            *)
Glued(u, s, t) == u = s \o t

(* Two parts are of the records of R if what they make is. *)
LEMMA WithinGlued ==
    ASSUME NEW S, NEW s \in Seq(S), NEW t \in Seq(S), NEW R, NEW u, Glued(u, s, t)
    PROVE  Within(u, R) <=> Within(s, R) /\ Within(t, R)
<1>1. u = s \o t
  BY DEF Glued
<1>2. PICK m, n : m = Len(s) /\ n = Len(t)
  OBVIOUS
<1>3. /\ m \in Nat /\ n \in Nat /\ Len(u) = m + n
      /\ \A k \in 1 .. m + n : u[k] = IF k <= m THEN s[k] ELSE t[k - m]
  BY <1>1, <1>2, ConcatProperties, LenProperties
<1>4. ASSUME Within(s, R), Within(t, R) PROVE Within(u, R)
  <2>1. ASSUME NEW k \in 1 .. m + n PROVE u[k].rec \in R
    <3>1. k \in 1 .. m \/ (k - m \in 1 .. n /\ ~(k <= m))
      BY <1>3
    <3>2. k \in 1 .. m => k <= m
      BY <1>3
    <3> QED  BY <1>2, <1>3, <1>4, <3>1, <3>2 DEF Within
  <2> QED  BY <1>3, <2>1 DEF Within
<1>5. ASSUME Within(u, R) PROVE Within(s, R) /\ Within(t, R)
  <2>1. ASSUME NEW k \in 1 .. m PROVE s[k].rec \in R
    <3>1. k \in 1 .. m + n /\ k <= m
      BY <1>3
    <3> QED  BY <1>3, <1>5, <3>1 DEF Within
  <2>2. ASSUME NEW k \in 1 .. n PROVE t[k].rec \in R
    <3>1. m + k \in 1 .. m + n /\ ~(m + k <= m) /\ (m + k) - m = k
      BY <1>3
    <3> QED  BY <1>3, <1>5, <3>1 DEF Within
  <2> QED  BY <1>2, <2>1, <2>2 DEF Within
<1> QED  BY <1>1, <1>4, <1>5

(* Bytes of the records of R are bytes of more records. *)
LEMMA WithinMore ==
    ASSUME NEW s, NEW R, NEW Q, R \subseteq Q, Within(s, R) PROVE Within(s, Q)
BY DEF Within

(* No byte is of another record. *)
LEMMA WithinEmpty == \A R : Within(<<>>, R)
<1>1. Len(<<>>) = 0
  OBVIOUS
<1> QED  BY <1>1 DEF Within

(* What the file holds of a writer, what is on its way and what is in the  *)
(* cache, together.                                                        *)
Own(f, R, p, c) == Of(f, R) \o p \o c

(* Taking a record of which the file holds nothing changes nothing. *)
LEMMA OwnPop ==
    ASSUME NEW f \in Seq(Byte), NEW R, NEW Q, NEW T, NEW p, NEW c,
           Within(f, T), Q \cap T = R \cap T
    PROVE  Own(f, Q, p, c) = Own(f, R, p, c)
<1>1. \A k \in 1 .. Len(f) : f[k].rec \in Q <=> f[k].rec \in R
  BY DEF Within
<1>2. Of(f, Q) = Of(f, R)
  BY <1>1, OfSame
<1> QED  BY <1>2 DEF Own

(* A flush moves the cache to what is on its way. *)
LEMMA OwnFlush ==
    ASSUME NEW f \in Seq(Byte), NEW R, NEW c \in Seq(Byte)
    PROVE  Own(f, R, c, <<>>) = Own(f, R, <<>>, c)
<1>1. PICK o : o = Of(f, R)
  OBVIOUS
<1>2. o \in Seq(Byte) /\ o \o c \in Seq(Byte)
  BY <1>1, OfType, ConcatProperties
<1> QED  BY <1>1, <1>2, ConcatEmptySeq DEF Own

(* A write moves bytes from there to the end of the file. *)
LEMMA OwnWrite ==
    ASSUME NEW f \in Seq(Byte), NEW R, NEW a \in Seq(Byte), NEW b \in Seq(Byte), NEW c \in Seq(Byte),
           Within(a, R), NEW g, Glued(g, f, a), NEW p, Glued(p, a, b)
    PROVE  Own(g, R, b, c) = Own(f, R, p, c)
<1>1. PICK o : o = Of(f, R)
  OBVIOUS
<1>2. Of(a, R) = a
  BY OfAll DEF Within
<1>3. Of(f \o a, R) = o \o a
  <2>1. PICK u : u = f \o a
    OBVIOUS
  <2>2. Of(u, R) = Of(f, R) \o Of(a, R)
    <3>1. u \in Seq(Byte) /\ Joins(u, f, a)
      BY <2>1, Joining
    <3> QED  BY ONLY f \in Seq(Byte), a \in Seq(Byte), <3>1, OfConcat
  <2> QED  BY <1>1, <1>2, <2>1, <2>2
<1>4. o \in Seq(Byte)
  BY <1>1, OfType
<1>5. (o \o a) \o b = o \o (a \o b)
  BY ONLY <1>4, a \in Seq(Byte), b \in Seq(Byte), ConcatAssociative, SMTT(30)
<1> QED  BY <1>1, <1>3, <1>5 DEF Own, Glued

(* A write of another writer changes nothing. *)
LEMMA OwnOther ==
    ASSUME NEW f \in Seq(Byte), NEW R, NEW Q, NEW a \in Seq(Byte), NEW p, NEW c,
           Within(a, Q), R \cap Q = {}, NEW g, Glued(g, f, a)
    PROVE  Own(g, R, p, c) = Own(f, R, p, c)
<1>1. \A k \in 1 .. Len(a) : a[k].rec \notin R
  BY DEF Within
<1>2. Of(a, R) = <<>>
  BY <1>1, OfNone
<1>3. Of(f, R) \in Seq(Byte)
  BY OfType
<1>4. Of(f \o a, R) = Of(f, R)
  <2>1. PICK u : u = f \o a
    OBVIOUS
  <2>2. Of(u, R) = Of(f, R) \o Of(a, R)
    <3>1. u \in Seq(Byte) /\ Joins(u, f, a)
      BY <2>1, Joining
    <3> QED  BY ONLY f \in Seq(Byte), a \in Seq(Byte), <3>1, OfConcat
  <2> QED  BY <1>2, <1>3, <2>1, <2>2, ConcatEmptySeq
<1> QED  BY <1>4 DEF Own, Glued

(* A copied field comes last. *)
LEMMA OwnCopy ==
    ASSUME NEW f \in Seq(Byte), NEW R, NEW p \in Seq(Byte), NEW c \in Seq(Byte), NEW x \in Seq(Byte),
           NEW y, Glued(y, c, x)
    PROVE  Glued(Own(f, R, p, y), Own(f, R, p, c), x)
<1>1. PICK o : o = Of(f, R)
  OBVIOUS
<1>2. o \in Seq(Byte) /\ o \o p \in Seq(Byte)
  BY <1>1, OfType, ConcatProperties
<1>3. PICK z : z = o \o p
  OBVIOUS
<1>4. z \in Seq(Byte)
  BY <1>2, <1>3
<1>5. (z \o c) \o x = z \o (c \o x)
  BY ONLY <1>4, c \in Seq(Byte), x \in Seq(Byte), ConcatAssociative, SMTT(30)
<1> QED  BY <1>1, <1>3, <1>5 DEF Own, Glued

-----------------------------------------------------------------------------
(* The types of all variables. *)
TypeInv ==
    /\ Knows
    /\ crew \in SUBSET Writers
    /\ todo \in SUBSET Records
    /\ step \in [Writers -> {"idle", "field", "flush", "last", "ended"}]
    /\ work \in [Writers -> Records \cup {None}]
    /\ field \in [Writers -> Nat]
    /\ cache \in [Writers -> Seq(Byte)]
    /\ pending \in [Writers -> Seq(Byte)]
    /\ taken \in [Writers -> Seq(Records)]
    /\ file \in Seq(Byte)
    /\ overrun \in BOOLEAN

(* A writer that is at a record is at a field of the last one it took. *)
AtRecord(w) ==
    /\ work[w] = None => step[w] \in {"idle", "last", "ended"}
    /\ work[w] # None => /\ step[w] \in {"field", "flush"}
                         /\ \E z \in Seq(Records) : taken[w] = Append(z, work[w])
                         /\ field[w] \in 1 .. Len(Layout(work[w]))

(* Nothing is on its way but during a flush. *)
Emptied(w) == step[w] \in {"idle", "field", "ended"} => pending[w] = <<>>

(* A writer holds bytes of its own records only. *)
OwnOnly(w) == Within(cache[w], Range(taken[w])) /\ Within(pending[w], Range(taken[w]))

(* Only writers that were started take records. *)
Started(w) == w \notin crew => taken[w] = <<>>

Local(w) == AtRecord(w) /\ Emptied(w) /\ OwnOnly(w) /\ Started(w)

(* No record is taken twice, and the file is made of records taken. *)
Apart == /\ \A w \in Writers : Range(taken[w]) \cap todo = {}
         /\ \A v, w \in Writers : v # w => Range(taken[v]) \cap Range(taken[w]) = {}

(* The records that some writer has taken. *)
Taken == UNION {Range(taken[w]) : w \in Writers}

(* The inductive invariant. *)
Inv == /\ TypeInv
       /\ \A w \in Writers : Local(w)
       /\ Apart
       /\ Within(file, Taken)
       /\ OwnBytesInOrder

(* What was handed over, after a step, in the words of the lemmas. *)
LEMMA Keeps ==
    ASSUME UNCHANGED <<method, shape>>
    PROVE  \A v : Given(v)' = Handed(work'[v], taken'[v], field'[v])
BY HandedSame DEF Given, Handed

(* And before it. *)
LEMMA GivenHanded == \A v : Given(v) = Handed(work[v], taken[v], field[v])
BY DEF Given, Handed

(* What a step leaves of a writer. *)
Untouched(v) ==
    /\ step'[v] = step[v] /\ work'[v] = work[v] /\ field'[v] = field[v]
    /\ cache'[v] = cache[v] /\ pending'[v] = pending[v] /\ taken'[v] = taken[v]

(* A step that leaves a writer alone keeps what holds for it. *)
LEMMA UntouchedKeeps ==
    ASSUME UNCHANGED <<method, shape, crew>>, NEW v, Untouched(v), Local(v)
    PROVE  Local(v)'
<1>1. \A r : Layout(r)' = Layout(r)
  BY LayoutSame
<1>2. AtRecord(v)'
  BY <1>1 DEF AtRecord, Local, Untouched
<1>3. Emptied(v)' /\ OwnOnly(v)' /\ Started(v)'
  BY DEF Emptied, OwnOnly, Started, Local, Untouched
<1> QED  BY <1>2, <1>3 DEF Local

(* The invariant holds when the writers start. *)
LEMMA InitInv == Init => Inv
<1> SUFFICES ASSUME Init PROVE Inv
  OBVIOUS
<1>1. <<>> \in Seq(Byte) /\ <<>> \in Seq(Records) /\ Len(<<>>) = 0
  BY EmptySeq
<1>2. \A w \in Writers : /\ cache[w] = <<>> /\ pending[w] = <<>> /\ taken[w] = <<>>
                         /\ work[w] = None /\ step[w] = "idle"
  BY DEF Init
<1>3. TypeInv
  <2>1. crew \in SUBSET Writers
    BY CrewsAssumption DEF Init
  <2> QED  BY <1>1, <2>1 DEF Init, TypeInv, Knows
<1>4. \A w \in Writers : Local(w)
  BY <1>2, WithinEmpty DEF Local, AtRecord, Emptied, OwnOnly, Started
<1>5. \A w \in Writers : Range(taken[w]) = {}
  BY <1>1, <1>2 DEF Range
<1>6. Apart
  BY <1>5 DEF Apart
<1>7. Within(file, Taken)
  BY WithinEmpty DEF Init
<1>8. OwnBytesInOrder
  <2>1. ASSUME NEW w \in Writers
        PROVE  Of(file, Range(taken[w])) \o pending[w] \o cache[w] = Given(w)
    <3>1. Of(<<>>, Range(taken[w])) = <<>>
      <4>1. PICK e, R : e = <<>> /\ R = Range(taken[w])
        OBVIOUS
      <4>2. e \in Seq(Byte) /\ \A k \in 1 .. Len(e) : e[k].rec \notin R
        BY <1>1, <4>1
      <4>3. Of(e, R) = <<>>
        BY <4>2, OfNone
      <4> QED  BY <4>1, <4>3
    <3>2. <<>> \o <<>> = <<>>
      BY <1>1, ConcatEmptySeq
    <3>3. Given(w) = <<>>
      BY <1>2, <1>3, WholeStep DEF Given, TypeInv
    <3> QED  BY <1>2, <3>1, <3>2, <3>3 DEF Init
  <2> QED  BY <2>1 DEF OwnBytesInOrder
<1> QED  BY <1>3, <1>4, <1>6, <1>7, <1>8 DEF Inv

(* The bytes of each writer, in the words of the lemmas. *)
LEMMA OwnBytes ==
    OwnBytesInOrder <=> \A w \in Writers :
        Own(file, Range(taken[w]), pending[w], cache[w]) = Handed(work[w], taken[w], field[w])
BY GivenHanded DEF OwnBytesInOrder, Own

(* And after a step. *)
LEMMA OwnBytesNext ==
    ASSUME UNCHANGED <<method, shape>>,
           \A w \in Writers :
               Own(file', Range(taken'[w]), pending'[w], cache'[w]) = Handed(work'[w], taken'[w], field'[w])
    PROVE  OwnBytesInOrder'
BY Keeps DEF OwnBytesInOrder, Own

(* Taking a record keeps the invariant: the file has nothing of it yet. *)
LEMMA PopInv ==
    ASSUME Inv, NEW w \in Writers, NEW r \in Records, Pop(w, r)
    PROVE  Inv'
<1>1. TypeInv /\ UNCHANGED <<method, crew, shape>> /\ Knows /\ Knows'
  BY DEF Inv, Pop, TypeInv, Knows
<1>2. /\ step[w] = "idle" /\ work[w] = None /\ r \in todo /\ pending[w] = <<>> /\ w \in crew
      /\ taken[w] \in Seq(Records)
  BY <1>1 DEF Pop, At, Inv, Local, AtRecord, Emptied, TypeInv
<1>3. /\ todo' = todo \ {r} /\ file' = file /\ cache' = cache /\ pending' = pending
      /\ work'[w] = r /\ field'[w] = 1 /\ taken'[w] = Append(taken[w], r) /\ step'[w] = "field"
  BY <1>1 DEF Pop, Goto, TypeInv
<1>4. \A v \in Writers : v # w => Untouched(v)
  BY <1>1 DEF Pop, Goto, Untouched, TypeInv
<1>5. TypeInv'
  <2>1. Append(taken[w], r) \in Seq(Records)
    BY <1>2, AppendProperties
  <2> QED  BY <1>1, <2>1 DEF Pop, Goto, TypeInv
<1>6. Range(taken'[w]) = Range(taken[w]) \cup {r}
  BY <1>2, <1>3, RangeAppend
<1>7. Local(w)'
  <2>1. r # None /\ 1 \in 1 .. Len(Layout(r))' /\ Layout(r)' = Layout(r)
    BY <1>1, RecordsAssumption, LayoutShape, LayoutSame
  <2>2. AtRecord(w)'
    BY <1>2, <1>3, <2>1 DEF AtRecord
  <2>3. OwnOnly(w)'
    <3>1. Range(taken[w]) \subseteq Range(taken'[w])
      BY <1>6
    <3>2. Within(cache[w], Range(taken[w])) /\ Within(pending[w], Range(taken[w]))
      BY DEF Inv, Local, OwnOnly
    <3> QED  BY <1>3, <3>1, <3>2, WithinMore DEF OwnOnly
  <2> QED  BY <1>1, <1>2, <1>3, <2>2, <2>3 DEF Local, Emptied, Started
<1>8. \A v \in Writers : Local(v)'
  <2>1. \A v \in Writers : v # w => Local(v)'
    BY <1>1, <1>4, UntouchedKeeps DEF Inv
  <2> QED  BY <1>7, <2>1
<1>9. \A v \in Writers : v # w => Range(taken'[v]) = Range(taken[v])
  BY <1>4 DEF Untouched
<1>10. Apart'
  <2>1. \A v \in Writers : Range(taken[v]) \cap todo = {}
    BY DEF Inv, Apart
  <2>2. \A u, v \in Writers : u # v => Range(taken[u]) \cap Range(taken[v]) = {}
    BY DEF Inv, Apart
  <2>3. \A v \in Writers : Range(taken'[v]) \cap todo' = {}
    BY <1>2, <1>3, <1>6, <1>9, <2>1
  <2>4. \A v \in Writers : r \notin Range(taken[v])
    BY <1>2, <2>1
  <2>5. \A u, v \in Writers : u # v => Range(taken'[u]) \cap Range(taken'[v]) = {}
    <3> SUFFICES ASSUME NEW u \in Writers, NEW v \in Writers, u # v
                 PROVE  Range(taken'[u]) \cap Range(taken'[v]) = {}
      OBVIOUS
    <3>1. Range(taken[u]) \cap Range(taken[v]) = {}
      BY <2>2
    <3>2. CASE u = w
      BY <1>6, <1>9, <2>4, <3>1, <3>2
    <3>3. CASE v = w
      BY <1>6, <1>9, <2>4, <3>1, <3>3
    <3>4. CASE u # w /\ v # w
      BY <1>9, <3>1, <3>4
    <3> QED  BY <3>2, <3>3, <3>4
  <2> QED  BY <2>3, <2>5 DEF Apart
<1>11. Within(file, Taken)'
  <2>1. Taken \subseteq Taken'
    BY <1>6, <1>9 DEF Taken
  <2> QED  BY <1>3, <2>1, WithinMore DEF Inv
<1>12. OwnBytesInOrder'
  <2>1. Own(file, Range(taken'[w]), pending[w], cache[w]) = Own(file, Range(taken[w]), pending[w], cache[w])
    <3>1. r \notin Taken
      BY <1>2 DEF Inv, Apart, Taken
    <3>2. Range(taken'[w]) \cap Taken = Range(taken[w]) \cap Taken
      BY <1>6, <3>1
    <3>3. Within(file, Taken) /\ file \in Seq(Byte)
      BY <1>1 DEF Inv, TypeInv
    <3> QED  BY <3>2, <3>3, OwnPop
  <2>2. Handed(work'[w], taken'[w], field'[w]) = Handed(work[w], taken[w], field[w])
    BY <1>1, <1>2, <1>3, HandedPop
  <2>3. \A v \in Writers : v # w =>
           /\ Own(file', Range(taken'[v]), pending'[v], cache'[v])
              = Own(file, Range(taken[v]), pending[v], cache[v])
           /\ Handed(work'[v], taken'[v], field'[v]) = Handed(work[v], taken[v], field[v])
    BY <1>3, <1>4 DEF Untouched
  <2>4. \A v \in Writers : Own(file', Range(taken'[v]), pending'[v], cache'[v])
                           = Handed(work'[v], taken'[v], field'[v])
    BY <1>3, <2>1, <2>2, <2>3, OwnBytes DEF Inv
  <2> QED  BY <1>1, <2>4, OwnBytesNext
<1> QED  BY <1>5, <1>8, <1>10, <1>11, <1>12 DEF Inv

(* What all steps but Pop leave. *)
LEMMA SameTaken ==
    ASSUME Inv, UNCHANGED <<taken, todo>>
    PROVE  Apart' /\ Taken' = Taken
BY DEF Inv, Apart, Taken

(* Writing the cache out keeps it, in write_cache and at the end. *)
LEMMA FlushInv ==
    ASSUME Inv, NEW w \in Writers, Flush(w) \/ Leave(w)
    PROVE  Inv'
<1>1. /\ TypeInv /\ UNCHANGED <<method, crew, shape>> /\ UNCHANGED <<taken, todo>>
      /\ UNCHANGED <<work, field>> /\ file' = file /\ overrun' = overrun
  BY DEF Inv, Flush, Leave
<1>2. /\ \/ step[w] = "field" /\ step'[w] = "flush"
         \/ step[w] = "idle" /\ step'[w] = "last"
      /\ pending'[w] = cache[w] /\ cache'[w] = <<>>
  BY <1>1 DEF Flush, Leave, At, Goto, TypeInv
<1>3. pending[w] = <<>>
  BY <1>2 DEF Inv, Local, Emptied
<1>4. \A v \in Writers : v # w => Untouched(v)
  BY <1>1 DEF Flush, Leave, Goto, Untouched, TypeInv
<1>5. TypeInv'
  <2>1. <<>> \in Seq(Byte) /\ cache[w] \in Seq(Byte)
    BY <1>1, EmptySeq DEF TypeInv
  <2>2. Knows'
    BY <1>1 DEF TypeInv, Knows
  <2>3. /\ pending' \in [Writers -> Seq(Byte)] /\ cache' \in [Writers -> Seq(Byte)]
        /\ step' \in [Writers -> {"idle", "field", "flush", "last", "ended"}]
    BY <1>1, <2>1 DEF Flush, Leave, Goto, TypeInv
  <2> QED  BY <1>1, <2>2, <2>3 DEF TypeInv
<1>6. Local(w)'
  <2>1. Local(w) /\ \A r : Layout(r)' = Layout(r)
    BY <1>1, LayoutSame DEF Inv
  <2>2. AtRecord(w)'
    BY <1>1, <1>2, <2>1 DEF AtRecord, Local
  <2>3. OwnOnly(w)'
    BY <1>1, <1>2, <2>1, WithinEmpty DEF OwnOnly, Local
  <2> QED  BY <1>1, <1>2, <2>1, <2>2, <2>3 DEF Local, Emptied, Started
<1>7. \A v \in Writers : Local(v)'
  <2>1. \A v \in Writers : v # w => Local(v)'
    BY <1>1, <1>4, UntouchedKeeps DEF Inv
  <2> QED  BY <1>6, <2>1
<1>8. Apart' /\ Within(file, Taken)'
  BY <1>1, SameTaken DEF Inv
<1>9. OwnBytesInOrder'
  <2>1. Own(file, Range(taken[w]), cache[w], <<>>) = Own(file, Range(taken[w]), <<>>, cache[w])
    BY <1>1, OwnFlush DEF TypeInv
  <2>2. \A v \in Writers : v # w => Own(file', Range(taken'[v]), pending'[v], cache'[v])
                                   = Own(file, Range(taken[v]), pending[v], cache[v])
    BY <1>1, <1>4 DEF Untouched
  <2>3. \A v \in Writers : Own(file', Range(taken'[v]), pending'[v], cache'[v])
                           = Handed(work'[v], taken'[v], field'[v])
    BY <1>1, <1>2, <1>3, <2>1, <2>2, OwnBytes DEF Inv
  <2> QED  BY <1>1, <2>3, OwnBytesNext
<1> QED  BY <1>5, <1>7, <1>8, <1>9 DEF Inv

(* Ending keeps it. *)
LEMMA CloseInv ==
    ASSUME Inv, NEW w \in Writers, Close(w)
    PROVE  Inv'
<1>1. /\ TypeInv /\ UNCHANGED <<method, crew, shape>> /\ UNCHANGED <<taken, todo>>
      /\ UNCHANGED <<work, field, cache, pending>> /\ file' = file /\ overrun' = overrun
  BY DEF Inv, Close
<1>2. step[w] = "last" /\ step'[w] = "ended" /\ pending[w] = <<>>
  BY <1>1 DEF Close, At, Goto, TypeInv
<1>3. \A v \in Writers : v # w => Untouched(v)
  BY <1>1 DEF Close, Goto, Untouched, TypeInv
<1>4. TypeInv'
  <2>1. Knows' /\ step' \in [Writers -> {"idle", "field", "flush", "last", "ended"}]
    BY <1>1 DEF TypeInv, Knows, Close, Goto
  <2> QED  BY <1>1, <2>1 DEF TypeInv
<1>5. Local(w)'
  <2>1. Local(w) /\ \A r : Layout(r)' = Layout(r)
    BY <1>1, LayoutSame DEF Inv
  <2>2. AtRecord(w)'
    BY <1>1, <1>2, <2>1 DEF AtRecord, Local
  <2> QED  BY <1>1, <1>2, <2>1, <2>2 DEF Local, Emptied, OwnOnly, Started
<1>6. \A v \in Writers : Local(v)'
  <2>1. \A v \in Writers : v # w => Local(v)'
    BY <1>1, <1>3, UntouchedKeeps DEF Inv
  <2> QED  BY <1>5, <2>1
<1>7. Apart' /\ Within(file, Taken)'
  BY <1>1, SameTaken DEF Inv
<1>8. OwnBytesInOrder'
  BY <1>1, OwnBytes, OwnBytesNext DEF Inv
<1> QED  BY <1>4, <1>6, <1>7, <1>8 DEF Inv

(* A write passes some of the bytes on and leaves the others.              *)
LEMMA PartOf ==
    ASSUME NEW s \in Seq(Byte), NEW n, n = Part(s), NEW R, Within(s, R)
    PROVE  \E a, b \in Seq(Byte) : /\ a = SubSeq(s, 1, n) /\ b = SubSeq(s, n + 1, Len(s))
                                   /\ a \o b = s /\ Within(a, R) /\ Within(b, R)
<1>1. PICK l : l = Len(s)
  OBVIOUS
<1>2. l \in Nat /\ n \in 0 .. l
  <2>1. l \in Nat /\ Block \in Nat /\ Block > 0
    BY <1>1, LenProperties, LengthsAssumption
  <2>2. l % Block \in 0 .. Block - 1
    BY <2>1
  <2>3. n = IF l < Block THEN l ELSE l - (l % Block)
    BY <1>1 DEF Part
  <2> QED  BY <2>1, <2>2, <2>3
<1>3. PICK a, b : a = SubSeq(s, 1, n) /\ b = SubSeq(s, n + 1, l)
  OBVIOUS
<1>4. \A i \in 1 .. l : s[i] \in Byte
  BY <1>1, ElementOfSeq
<1>5. a \in Seq(Byte)
  <2>1. \A i \in 1 .. n : s[i] \in Byte
    BY <1>2, <1>4
  <2> QED  BY <1>2, <1>3, <2>1, SubSeqProperties
<1>6. b \in Seq(Byte)
  <2>1. \A i \in n + 1 .. l : s[i] \in Byte
    BY <1>2, <1>4
  <2>2. n + 1 \in Int /\ l \in Int
    BY <1>2
  <2> QED  BY <1>3, <2>1, <2>2, SubSeqProperties
<1>7. a \o b = s
  <2>1. 1 \in 1 .. Len(s) + 1 /\ n \in 1 - 1 .. Len(s) /\ l \in n .. Len(s)
    BY <1>1, <1>2
  <2>2. SubSeq(s, 1, n) \o SubSeq(s, n + 1, l) = SubSeq(s, 1, l)
    BY ONLY s \in Seq(Byte), <2>1, ConcatAdjacentSubSeq
  <2>3. SubSeq(s, 1, l) = s
    BY <1>1, SubSeqFull
  <2> QED  BY <1>3, <2>2, <2>3
<1>8. Within(a, R) /\ Within(b, R)
  <2>1. Glued(s, a, b)
    BY <1>7 DEF Glued
  <2> QED  BY <1>5, <1>6, <2>1, WithinGlued
<1> QED  BY <1>1, <1>3, <1>5, <1>6, <1>7, <1>8

(* A write to the file keeps it, for the writer and for the others. *)
LEMMA WriteInv ==
    ASSUME Inv, NEW w \in Writers, Write(w)
    PROVE  Inv'
<1>1. /\ TypeInv /\ UNCHANGED <<method, crew, shape>> /\ UNCHANGED <<taken, todo>>
      /\ UNCHANGED <<work, field, step, cache>> /\ overrun' = overrun
  BY DEF Inv, Write
<1>2. step[w] \in {"flush", "last"} /\ Local(w) /\ pending[w] \in Seq(Byte) /\ file \in Seq(Byte)
  BY <1>1 DEF Inv, Write, At, TypeInv
<1>3. PICK a \in Seq(Byte), b \in Seq(Byte) :
         /\ a = SubSeq(pending[w], 1, Part(pending[w]))
         /\ b = SubSeq(pending[w], Part(pending[w]) + 1, Len(pending[w]))
         /\ a \o b = pending[w] /\ Within(a, Range(taken[w])) /\ Within(b, Range(taken[w]))
  <2>1. PICK s, R, n : s = pending[w] /\ R = Range(taken[w]) /\ n = Part(s)
    OBVIOUS
  <2>2. s \in Seq(Byte) /\ Within(s, R)
    BY <1>2, <2>1 DEF Local, OwnOnly
  <2>3. \E a, b \in Seq(Byte) : /\ a = SubSeq(s, 1, n) /\ b = SubSeq(s, n + 1, Len(s))
                                /\ a \o b = s /\ Within(a, R) /\ Within(b, R)
    BY <2>1, <2>2, PartOf
  <2> QED  BY <2>1, <2>3
<1>4. file' = file \o a /\ pending'[w] = b
  BY <1>1, <1>3 DEF Write, TypeInv
<1>5. \A v \in Writers : v # w => Untouched(v)
  BY <1>1 DEF Write, Untouched, TypeInv
<1>6. TypeInv'
  <2>1. Knows'
    BY <1>1 DEF TypeInv, Knows
  <2>2. file' \in Seq(Byte)
    BY <1>2, <1>3, <1>4, ConcatProperties
  <2>3. pending' \in [Writers -> Seq(Byte)]
    <3>1. pending' = [pending EXCEPT ![w] = b]
      BY <1>3 DEF Write
    <3> QED  BY <1>1, <1>3, <3>1 DEF TypeInv
  <2> QED  BY <1>1, <2>1, <2>2, <2>3 DEF TypeInv
<1>7. Local(w)'
  <2>1. \A r : Layout(r)' = Layout(r)
    BY <1>1, LayoutSame
  <2>2. AtRecord(w)'
    BY <1>1, <1>2, <2>1 DEF AtRecord, Local
  <2>3. OwnOnly(w)'
    BY <1>1, <1>2, <1>3, <1>4 DEF OwnOnly, Local
  <2> QED  BY <1>1, <1>2, <2>2, <2>3 DEF Local, Emptied, Started
<1>8. \A v \in Writers : Local(v)'
  <2>1. \A v \in Writers : v # w => Local(v)'
    BY <1>1, <1>5, UntouchedKeeps DEF Inv
  <2> QED  BY <1>7, <2>1
<1>9. Apart' /\ Within(file, Taken)'
  <2>1. Within(a, Taken)
    <3>1. Range(taken[w]) \subseteq Taken
      BY DEF Taken
    <3> QED  BY <1>3, <3>1, WithinMore
  <2>2. Within(file \o a, Taken)
    <3>1. PICK t : t = Taken
      OBVIOUS
    <3>2. Within(file, t) /\ Within(a, t)
      BY <2>1, <3>1 DEF Inv
    <3>3. PICK g : Glued(g, file, a)
      BY DEF Glued
    <3>4. file \in Seq(Byte) /\ a \in Seq(Byte)
      BY <1>2
    <3>5. Within(g, t)
      BY ONLY <3>2, <3>3, <3>4, WithinGlued
    <3> QED  BY <3>1, <3>3, <3>5 DEF Glued
  <2> QED  BY <1>1, <1>4, <2>2, SameTaken
<1>10. OwnBytesInOrder'
  <2>1. Own(file', Range(taken'[w]), pending'[w], cache'[w])
        = Own(file, Range(taken[w]), pending[w], cache[w])
    <3>1. PICK R, c : R = Range(taken[w]) /\ c = cache[w]
      OBVIOUS
    <3>2. c \in Seq(Byte) /\ Within(a, R)
      BY <1>1, <1>3, <3>1 DEF TypeInv
    <3>3. PICK g, p : g = file' /\ p = pending[w]
      OBVIOUS
    <3>4. Glued(g, file, a) /\ Glued(p, a, b)
      BY <1>3, <1>4, <3>3 DEF Glued
    <3>5. file \in Seq(Byte) /\ a \in Seq(Byte) /\ b \in Seq(Byte)
      BY <1>2
    <3>6. Own(g, R, b, c) = Own(file, R, p, c)
      BY ONLY <3>2, <3>4, <3>5, OwnWrite
    <3> QED  BY <1>1, <1>4, <3>1, <3>3, <3>6
  <2>2. ASSUME NEW v \in Writers, v # w
        PROVE  Own(file', Range(taken'[v]), pending'[v], cache'[v])
               = Own(file, Range(taken[v]), pending[v], cache[v])
    <3>1. PICK R, Q, p, c : R = Range(taken[v]) /\ Q = Range(taken[w]) /\ p = pending[v] /\ c = cache[v]
      OBVIOUS
    <3>2. R \cap Q = {} /\ Within(a, Q)
      BY <1>3, <2>2, <3>1 DEF Inv, Apart
    <3>3. PICK g : g = file' /\ Glued(g, file, a)
      BY <1>4 DEF Glued
    <3>4. file \in Seq(Byte) /\ a \in Seq(Byte)
      BY <1>2
    <3>5. Own(g, R, p, c) = Own(file, R, p, c)
      BY ONLY <3>2, <3>3, <3>4, OwnOther
    <3> QED  BY <1>1, <1>5, <2>2, <3>1, <3>3, <3>5 DEF Untouched
  <2>3. \A v \in Writers : Own(file', Range(taken'[v]), pending'[v], cache'[v])
                           = Handed(work'[v], taken'[v], field'[v])
    BY <1>1, <2>1, <2>2, OwnBytes DEF Inv
  <2> QED  BY <1>1, <2>3, OwnBytesNext
<1> QED  BY <1>6, <1>8, <1>9, <1>10 DEF Inv

(* Copying a field, the last one or another, keeps it. *)
LEMMA CopyInv ==
    ASSUME Inv, NEW w \in Writers, Copy(w)
    PROVE  Inv'
<1>1. /\ TypeInv /\ UNCHANGED <<method, crew, shape>> /\ UNCHANGED <<taken, todo>>
      /\ pending' = pending /\ file' = file /\ Knows /\ Knows'
  BY DEF Inv, Copy, TypeInv, Knows
<1>2. /\ step[w] \in {"field", "flush"} /\ Local(w) /\ pending[w] = <<>>
      /\ cache[w] \in Seq(Byte) /\ file \in Seq(Byte)
  BY <1>1 DEF Inv, Copy, At, TypeInv, Local, Emptied
<1>3. PICK r, n, z : /\ r = work[w] /\ n = field[w] /\ r \in Records /\ z \in Seq(Records)
                     /\ taken[w] = Append(z, r) /\ n \in 1 .. Len(Layout(r))
  <2>1. work[w] # None
    BY <1>2 DEF Local, AtRecord
  <2>2. work[w] \in Records
    BY <1>1, <2>1 DEF TypeInv
  <2> QED  BY <1>2, <2>1, <2>2 DEF Local, AtRecord
<1>4. PICK x : x = FieldBytes(r, n)
  OBVIOUS
<1>5. x \in Seq(Byte) /\ Within(x, Range(taken[w]))
  <2>1. x \in Seq(Byte) /\ \A k \in 1 .. Len(x) : x[k].rec = r
    BY <1>1, <1>3, <1>4, FieldBytesIs
  <2>2. r \in Range(taken[w])
    BY <1>3, RangeAppend
  <2> QED  BY <2>1, <2>2 DEF Within
<1>6. cache'[w] = cache[w] \o x /\ cache' = [cache EXCEPT ![w] = cache[w] \o x]
  BY <1>1, <1>3, <1>4 DEF Copy, TypeInv
<1>7. /\ n = Len(Layout(r)) => field'[w] = 1 /\ work'[w] = None /\ step'[w] = "idle"
      /\ n # Len(Layout(r)) => field'[w] = n + 1 /\ work'[w] = r /\ step'[w] = "field"
  BY <1>1, <1>3 DEF Copy, Goto, TypeInv
<1>8. \A v \in Writers : v # w => Untouched(v)
  BY <1>1 DEF Copy, Goto, Untouched, TypeInv
<1>9. TypeInv'
  <2>1. cache[w] \o x \in Seq(Byte)
    BY <1>2, <1>5, ConcatProperties
  <2>2. cache' \in [Writers -> Seq(Byte)]
    BY <1>1, <1>6, <2>1 DEF TypeInv
  <2>3. field' \in [Writers -> Nat]
    BY <1>1 DEF Copy, TypeInv
  <2>4. work' \in [Writers -> Records \cup {None}]
    BY <1>1 DEF Copy, TypeInv
  <2>5. step' \in [Writers -> {"idle", "field", "flush", "last", "ended"}]
    BY <1>1 DEF Copy, Goto, TypeInv
  <2>6. overrun' \in BOOLEAN
    BY DEF Copy
  <2> QED  BY <1>1, <2>2, <2>3, <2>4, <2>5, <2>6 DEF TypeInv
<1>10. Local(w)'
  <2>1. Layout(r)' = Layout(r) /\ Len(Layout(r)) \in Nat /\ r # None
    BY <1>1, <1>3, LayoutSame, LayoutShape, RecordsAssumption
  <2>2. AtRecord(w)'
    <3>1. n # Len(Layout(r)) => n + 1 \in 1 .. Len(Layout(r))
      BY <1>3, <2>1
    <3>2. CASE n = Len(Layout(r))
      BY <1>7, <3>2 DEF AtRecord
    <3>3. CASE n # Len(Layout(r))
      <4>1. field'[w] \in 1 .. Len(Layout(r)')
        BY <1>7, <2>1, <3>1, <3>3
      <4> QED  BY <1>1, <1>3, <1>7, <2>1, <3>3, <4>1 DEF AtRecord
    <3> QED  BY <3>2, <3>3
  <2>3. Emptied(w)'
    BY <1>1, <1>2 DEF Emptied
  <2>4. OwnOnly(w)'
    <3>1. PICK R, c : R = Range(taken[w]) /\ c = cache[w]
      OBVIOUS
    <3>2. Within(c, R) /\ c \in Seq(Byte) /\ Within(x, R)
      BY <1>2, <1>5, <3>1 DEF Local, OwnOnly
    <3>3. PICK y : y = cache'[w] /\ Glued(y, c, x)
      BY <1>6, <3>1 DEF Glued
    <3>4. Within(y, R)
      BY <1>5, <3>2, <3>3, WithinGlued
    <3> QED  BY <1>1, <1>2, <3>1, <3>3, <3>4 DEF Local, OwnOnly
  <2> QED  BY <1>1, <1>2, <2>2, <2>3, <2>4 DEF Local, Started
<1>11. \A v \in Writers : Local(v)'
  <2>1. \A v \in Writers : v # w => Local(v)'
    BY <1>1, <1>8, UntouchedKeeps DEF Inv
  <2> QED  BY <1>10, <2>1
<1>12. Apart' /\ Within(file, Taken)'
  BY <1>1, SameTaken DEF Inv
<1>13. OwnBytesInOrder'
  <2>1. Own(file, Range(taken[w]), pending[w], cache[w] \o x) = Handed(r, taken[w], n) \o x
    <3>1. PICK R, p, c : R = Range(taken[w]) /\ p = pending[w] /\ c = cache[w]
      OBVIOUS
    <3>2. c \in Seq(Byte) /\ p \in Seq(Byte)
      BY <1>1, <3>1 DEF TypeInv
    <3>3. PICK y : y = c \o x /\ Glued(y, c, x)
      BY DEF Glued
    <3>4. Glued(Own(file, R, p, y), Own(file, R, p, c), x)
      BY <1>2, <1>5, <3>2, <3>3, OwnCopy
    <3>5. Own(file, R, p, c) = Handed(r, taken[w], n)
      BY <1>3, <3>1, OwnBytes DEF Inv
    <3> QED  BY <3>1, <3>3, <3>4, <3>5 DEF Glued
  <2>2. Handed(work'[w], taken'[w], field'[w]) = Handed(r, taken[w], n) \o x
    <3>1. Passes(r, taken[w], n)
      BY <1>1, <1>3, HandedCopy
    <3>2. CASE n = Len(Layout(r))
      BY <1>1, <1>4, <1>7, <3>1, <3>2 DEF Passes
    <3>3. CASE n # Len(Layout(r))
      BY <1>1, <1>4, <1>7, <3>1, <3>3 DEF Passes
    <3> QED  BY <3>2, <3>3
  <2>3. \A v \in Writers : v # w =>
           /\ Own(file', Range(taken'[v]), pending'[v], cache'[v])
              = Own(file, Range(taken[v]), pending[v], cache[v])
           /\ Handed(work'[v], taken'[v], field'[v]) = Handed(work[v], taken[v], field[v])
    BY <1>1, <1>8 DEF Untouched
  <2>4. \A v \in Writers : Own(file', Range(taken'[v]), pending'[v], cache'[v])
                           = Handed(work'[v], taken'[v], field'[v])
    BY <1>1, <1>6, <2>1, <2>2, <2>3, OwnBytes DEF Inv
  <2> QED  BY <1>1, <2>4, OwnBytesNext
<1> QED  BY <1>9, <1>11, <1>12, <1>13 DEF Inv

(* Every step keeps the invariant. *)
LEMMA StepInv == Inv /\ [Next]_vars => Inv'
<1> SUFFICES ASSUME Inv, [Next]_vars PROVE Inv'
  OBVIOUS
<1>1. ASSUME NEW w \in Writers, NEW r \in Records, Pop(w, r) PROVE Inv'
  BY <1>1, PopInv
<1>2. ASSUME NEW w \in Writers, Flush(w) \/ Leave(w) PROVE Inv'
  BY <1>2, FlushInv
<1>3. ASSUME NEW w \in Writers, Write(w) PROVE Inv'
  BY <1>3, WriteInv
<1>4. ASSUME NEW w \in Writers, Copy(w) PROVE Inv'
  BY <1>4, CopyInv
<1>5. ASSUME NEW w \in Writers, Close(w) PROVE Inv'
  BY <1>5, CloseInv
<1>6. CASE UNCHANGED vars
  <2>1. /\ UNCHANGED <<method, crew, shape>> /\ UNCHANGED <<taken, todo>>
        /\ UNCHANGED <<step, work, field, cache, pending, file, overrun>>
    BY <1>6 DEF vars
  <2>2. TypeInv'
    BY <2>1 DEF Inv, TypeInv, Knows
  <2>3. \A v \in Writers : Local(v)'
    BY <2>1, UntouchedKeeps DEF Untouched, Inv
  <2>4. Apart' /\ Within(file, Taken)'
    BY <2>1, SameTaken DEF Inv
  <2>5. OwnBytesInOrder'
    BY <2>1, OwnBytes, OwnBytesNext DEF Inv
  <2> QED  BY <2>2, <2>3, <2>4, <2>5 DEF Inv
<1> QED  BY <1>1, <1>2, <1>3, <1>4, <1>5, <1>6 DEF Next, Writer

(* The invariant holds in every state. *)
THEOREM InvHolds == Spec => []Inv
BY InitInv, StepInv, PTL DEF Spec

(* However the flushes of the writers fall between one another, the bytes  *)
(* of a writer are in the file, on their way or in its cache, once and in  *)
(* order.                                                                  *)
THEOREM BytesKept == Spec => []OwnBytesInOrder
<1>1. Inv => OwnBytesInOrder
  BY DEF Inv
<1> QED  BY InvHolds, <1>1, PTL

-----------------------------------------------------------------------------
(* s is the beginning of t. *)
Begins(s, t) == Len(s) <= Len(t) /\ \A k \in 1 .. Len(s) : s[k] = t[k]

(* A beginning of a beginning is a beginning. *)
LEMMA BeginsTransitive ==
    ASSUME NEW S, NEW s \in Seq(S), NEW t \in Seq(S), NEW u \in Seq(S), Begins(s, t), Begins(t, u)
    PROVE  Begins(s, u)
<1>1. Len(s) \in Nat /\ Len(t) \in Nat /\ Len(u) \in Nat
  BY LenProperties
<1>2. \A k \in 1 .. Len(s) : k \in 1 .. Len(t)
  BY <1>1 DEF Begins
<1> QED  BY <1>1, <1>2 DEF Begins

(* The first of two parts begins what they make. *)
LEMMA BeginsGlued ==
    ASSUME NEW S, NEW s \in Seq(S), NEW t \in Seq(S), NEW u, Glued(u, s, t)
    PROVE  u \in Seq(S) /\ Begins(s, u)
<1>1. Len(s) \in Nat /\ Len(t) \in Nat /\ u \in Seq(S) /\ Joins(u, s, t)
  BY LenProperties, Joining DEF Glued
<1>2. \A k \in 1 .. Len(s) : k \in 1 .. Len(u) /\ k <= Len(s)
  BY <1>1 DEF Joins
<1> QED  BY <1>1, <1>2 DEF Joins, Begins

(* What is common in front does not change which begins which. *)
LEMMA BeginsBehind ==
    ASSUME NEW S, NEW a \in Seq(S), NEW s \in Seq(S), NEW t \in Seq(S), Begins(s, t),
           NEW u, Glued(u, a, s), NEW v, Glued(v, a, t)
    PROVE  Begins(u, v)
<1>1. PICK m, n : m = Len(a) /\ n = Len(s)
  OBVIOUS
<1>2. m \in Nat /\ n \in Nat /\ Len(t) \in Nat /\ n <= Len(t) /\ Joins(u, a, s) /\ Joins(v, a, t)
  BY <1>1, LenProperties, Joining DEF Glued, Begins
<1>3. Len(u) = m + n /\ Len(v) = m + Len(t)
  BY <1>1, <1>2 DEF Joins
<1>4. ASSUME NEW k \in 1 .. m + n PROVE u[k] = v[k]
  <2>1. k \in 1 .. Len(u) /\ k \in 1 .. Len(v)
    BY <1>2, <1>3
  <2>2. CASE k <= m
    BY <1>1, <1>2, <2>1, <2>2 DEF Joins
  <2>3. CASE ~(k <= m)
    <3>1. k - m \in 1 .. n
      BY <1>2, <2>3
    <3>2. s[k - m] = t[k - m]
      BY <1>1, <3>1 DEF Begins
    <3> QED  BY <1>1, <1>2, <2>1, <2>3, <3>2 DEF Joins
  <2> QED  BY <2>2, <2>3
<1> QED  BY <1>2, <1>3, <1>4 DEF Begins

(* The parts joined so far begin what is joined in the end. *)
LEMMA GathersBegins ==
    ASSUME NEW S, NEW ss \in Seq(Seq(S)), NEW g, Gathers(g, ss, S),
           NEW m \in 0 .. Len(ss), NEW n \in m .. Len(ss)
    PROVE  Begins(g[m], g[n])
<1>1. Len(ss) \in Nat /\ \A i \in 1 .. Len(ss) : ss[i] \in Seq(S)
  BY LenProperties, ElementOfSeq
<1>2. m \in Nat /\ n \in Nat
  BY <1>1
<1> DEFINE Bad == {i \in m .. Len(ss) : ~Begins(g[m], g[i])}
<1>3. Bad = {}
  <2> SUFFICES ASSUME Bad # {} PROVE FALSE
    OBVIOUS
  <2>1. PICK i \in Bad : \A k \in Bad : i <= k
    <3>1. Bad \subseteq Nat
      BY <1>2
    <3> HIDE DEF Bad
    <3> QED  BY <3>1, Least
  <2>2. i \in m .. Len(ss) /\ ~Begins(g[m], g[i])
    OBVIOUS
  <2>3. g[m] \in Seq(S) /\ g[i] \in Seq(S)
    <3>1. m \in 0 .. Len(ss) /\ i \in 0 .. Len(ss)
      BY <1>2, <2>2
    <3> QED  BY <3>1 DEF Gathers
  <2>4. CASE i = m
    <3>1. Len(g[m]) \in Nat
      BY <2>3, LenProperties
    <3>2. Begins(g[m], g[m])
      BY <3>1 DEF Begins
    <3> QED  BY <2>2, <2>4, <3>2
  <2>5. CASE i # m
    <3>1. i \in 1 .. Len(ss) /\ i - 1 \in 0 .. Len(ss) /\ i - 1 \in m .. Len(ss) /\ i - 1 < i
      BY <1>1, <1>2, <2>2, <2>5
    <3>2. Begins(g[m], g[i - 1])
      BY <2>1, <3>1
    <3>3. PICK a, b, c : a = g[i - 1] /\ b = ss[i] /\ c = g[i]
      OBVIOUS
    <3>4. a \in Seq(S) /\ b \in Seq(S) /\ Glued(c, a, b)
      BY <1>1, <3>1, <3>3 DEF Gathers, Glued
    <3>5. Begins(a, c) /\ c \in Seq(S)
      BY <3>4, BeginsGlued
    <3>6. Begins(g[m], c)
      BY <2>3, <3>2, <3>3, <3>4, <3>5, BeginsTransitive
    <3> QED  BY <2>2, <3>3, <3>6
  <2> QED  BY <2>4, <2>5
<1>4. n \in m .. Len(ss)
  OBVIOUS
<1> QED  BY <1>3, <1>4

(* The first fields of a record begin it. *)
LEMMA BegunBegins ==
    ASSUME Knows, NEW r \in Records, NEW n \in 0 .. Len(Layout(r))
    PROVE  Begins(Begun(r, n), RecordBytes(r))
<1>1. PICK l : l = Len(Layout(r))
  OBVIOUS
<1>2. l \in Nat /\ n \in 0 .. l /\ l \in n .. l /\ l \in 0 .. l
  BY <1>1, LayoutShape
<1>3. PICK ss : ss = [i \in 1 .. l |-> FieldBytes(r, i)]
  OBVIOUS
<1>4. ss \in Seq(Seq(Byte)) /\ Len(ss) = l
  BY <1>1, <1>2, <1>3, FieldsSeq
<1>5. PICK g : Gathers(g, ss, Byte)
  BY <1>4, GathersExists
<1>6. \A k \in 0 .. l : FlattenSeq([i \in 1 .. k |-> ss[i]]) = g[k]
  BY <1>4, <1>5, FlattenPrefix
<1>7. \A k \in 0 .. l : Begun(r, k) = g[k]
  <2> TAKE k \in 0 .. l
  <2>1. \A i \in 1 .. k : i \in 1 .. l
    BY <1>2
  <2>2. [i \in 1 .. k |-> ss[i]] = [i \in 1 .. k |-> FieldBytes(r, i)]
    BY <1>3, <2>1
  <2> QED  BY <1>6, <2>2 DEF Begun
<1>8. Begins(g[n], g[l])
  BY <1>2, <1>4, <1>5, GathersBegins
<1> QED  BY <1>1, <1>2, <1>7, <1>8 DEF RecordBytes

(* c stands in s behind the first p bytes. *)
Stands(c, s, p) == Len(s) >= p + Len(c) /\ \A k \in 1 .. Len(c) : s[p + k] = c[k]

(* The second of two parts stands behind the first. *)
LEMMA StandsGlued ==
    ASSUME NEW S, NEW a \in Seq(S), NEW c \in Seq(S), NEW u, Glued(u, a, c),
           NEW s \in Seq(S), Begins(u, s), NEW p, p = Len(a)
    PROVE  Stands(c, s, p) /\ p \in Nat /\ Len(u) = p + Len(c)
<1>1. p \in Nat /\ Len(c) \in Nat /\ Len(s) \in Nat /\ Joins(u, a, c)
  BY LenProperties, Joining DEF Glued
<1>2. Len(u) = p + Len(c) /\ Len(s) >= p + Len(c)
  BY <1>1 DEF Joins, Begins
<1>3. ASSUME NEW k \in 1 .. Len(c) PROVE s[p + k] = c[k]
  <2>1. p + k \in 1 .. Len(u) /\ ~(p + k <= p) /\ (p + k) - p = k
    BY <1>1, <1>2
  <2>2. u[p + k] = c[(p + k) - p]
    BY <1>1, <2>1 DEF Joins
  <2> QED  BY <2>1, <2>2 DEF Begins
<1> QED  BY <1>1, <1>2, <1>3 DEF Stands

(* t is the slice of s from p to q, as many bytes as c has.                *)
Slice(t, s, p, q, c) == t = SubSeq(s, p + 1, q) /\ q = p + Len(c)

(* Cutting there what stands there gives it back. *)
LEMMA StandsSliced ==
    ASSUME NEW S, NEW s \in Seq(S), NEW c \in Seq(S), NEW p \in Nat, Stands(c, s, p),
           NEW t, NEW q, Slice(t, s, p, q, c)
    PROVE  t = c
<1>1. Len(c) \in Nat /\ Len(s) \in Nat
  BY LenProperties
<1>2. PICK m, n : m = p + 1 /\ n = Len(c)
  OBVIOUS
<1>3. n \in Nat /\ m \in Int /\ q \in Int /\ q - m + 1 = n /\ m <= Len(s) + 1 /\ q <= Len(s)
      /\ (m <= q <=> n # 0)
  BY <1>1, <1>2 DEF Stands, Slice
<1>4. \A i \in m .. q : s[i] \in S
  <2>1. \A i \in m .. q : i \in 1 .. Len(s)
    BY <1>1, <1>2, <1>3
  <2> QED  BY <2>1, ElementOfSeq
<1>5. t = SubSeq(s, m, q)
  BY <1>2 DEF Slice
<1>6. /\ t \in Seq(S) /\ Len(t) = (IF m <= q THEN q - m + 1 ELSE 0)
      /\ \A i \in 1 .. q - m + 1 : t[i] = s[m + i - 1]
  BY <1>3, <1>4, <1>5, SubSeqProperties
<1>7. Len(t) = n /\ \A i \in 1 .. n : t[i] = s[m + i - 1]
  BY <1>3, <1>6
<1>8. \A i \in 1 .. n : t[i] = c[i]
  <2> TAKE i \in 1 .. n
  <2>1. m + i - 1 = p + i
    BY <1>2, <1>3
  <2> QED  BY <1>2, <1>7, <2>1 DEF Stands
<1> QED  BY <1>2, <1>6, <1>7, <1>8, SeqEqual

-----------------------------------------------------------------------------
(* The bytes of s from p to q are the field of the record, which has n.    *)
Stretch(s, p, q, r, name, n) ==
    /\ p \in Nat /\ q = p + n /\ q <= Len(s)
    /\ SubSeq(s, p + 1, q) = Content(r, name, n)
    /\ \A k \in 1 .. n : s[p + k] = [rec |-> r, field |-> name, pos |-> k]

(* Every field of a record that stands in front of s is where the lengths  *)
(* of the fields before it put it.                                         *)
LEMMA FieldStands ==
    ASSUME Knows, NEW r \in Records, NEW s \in Seq(Byte), Begins(RecordBytes(r), s),
           NEW i \in 1 .. Len(Layout(r)), NEW p, p = Len(Begun(r, i - 1)),
           NEW q, q = Len(Begun(r, i)), NEW name, name = Layout(r)[i][1],
           NEW n, n = Layout(r)[i][2]
    PROVE  Stretch(s, p, q, r, name, n)
<1>1. PICK a, b, c, d : /\ a = Begun(r, i - 1) /\ b = FieldBytes(r, i) /\ c = Begun(r, i)
                        /\ d = RecordBytes(r)
  OBVIOUS
<1>2. i - 1 \in 0 .. Len(Layout(r)) /\ i \in 0 .. Len(Layout(r))
      /\ Len(Layout(r)) \in 0 .. Len(Layout(r))
  BY LayoutShape
<1>3. a \in Seq(Byte) /\ c \in Seq(Byte) /\ d \in Seq(Byte) /\ Glued(c, a, b)
  BY <1>1, <1>2, BegunStep DEF Glued, RecordBytes
<1>4. name \in Names /\ n \in Nat
  BY LayoutShape
<1>5. b = Content(r, name, n)
  BY <1>1 DEF FieldBytes
<1>6. Spells(b, r, name, n)
  BY <1>4, <1>5, ContentIs
<1>7. b \in Seq(Byte) /\ Len(b) = n
  BY <1>6 DEF Spells
<1>8. Begins(c, d)
  BY <1>1, <1>2, BegunBegins
<1>9. Begins(d, s)
  BY <1>1
<1>10. Begins(c, s)
  BY <1>3, <1>8, <1>9, BeginsTransitive
<1>11. p = Len(a) /\ q = Len(c)
  BY <1>1
<1>12. Stands(b, s, p) /\ p \in Nat /\ q = p + n
  BY <1>3, <1>7, <1>10, <1>11, StandsGlued
<1>13. SubSeq(s, p + 1, q) = b
  <2>1. PICK t : t = SubSeq(s, p + 1, q)
    OBVIOUS
  <2>2. Slice(t, s, p, q, b)
    BY <1>7, <1>12, <2>1 DEF Slice
  <2>3. t = b
    BY <1>7, <1>12, <2>2, StandsSliced
  <2> QED  BY <2>1, <2>3
<1>14. \A k \in 1 .. n : s[p + k] = [rec |-> r, field |-> name, pos |-> k]
  BY <1>6, <1>7, <1>12 DEF Stands, Spells
<1>15. q <= Len(s)
  BY <1>7, <1>12 DEF Stands
<1> QED  BY <1>5, <1>12, <1>13, <1>14, <1>15 DEF Stretch

(* The bits of the flag, and the masks that the reader looks at them with. *)
LEMMA BitsOfFlag ==
    ASSUME NEW a \in {0, 8}, NEW b \in {0, 4}, NEW c \in {0, 2}, NEW d \in {0, 1},
           NEW n, n = a + b + c + d
    PROVE  /\ (n \div 8) % 2 = 1 <=> a = 8
           /\ (n \div 4) % 2 = 1 <=> b = 4
           /\ (n \div 2) % 2 = 1 <=> c = 2
           /\ (n \div 1) % 2 = 1 <=> d = 1
<1>1. CASE a = 0 /\ b = 0
  BY <1>1
<1>2. CASE a = 0 /\ b = 4
  BY <1>2
<1>3. CASE a = 8 /\ b = 0
  BY <1>3
<1>4. CASE a = 8 /\ b = 4
  BY <1>4
<1> QED  BY <1>1, <1>2, <1>3, <1>4

(* An array is decoded exactly if it was coded. *)
LEMMA FlagRead ==
    ASSUME NEW r, NEW a \in Arrays
    PROVE  Coded(Flag(r), a) = Packed(r, a)
<1> DEFINE bit(e) == IF Packed(r, e) THEN Bit(e) ELSE 0
<1>1. /\ bit("cpx") \in {0, 8} /\ bit("cpy") \in {0, 4} /\ bit("cpl") \in {0, 2} /\ bit("inl") \in {0, 1}
      /\ bit("cpx") = 8 <=> Packed(r, "cpx")
      /\ bit("cpy") = 4 <=> Packed(r, "cpy")
      /\ bit("cpl") = 2 <=> Packed(r, "cpl")
      /\ bit("inl") = 1 <=> Packed(r, "inl")
  BY DEF Bit
<1>2. Flag(r) = bit("cpx") + bit("cpy") + bit("cpl") + bit("inl")
  BY DEF Flag
<1> HIDE DEF bit
<1>3. PICK f : f = Flag(r)
  OBVIOUS
<1>4. /\ (f \div 8) % 2 = 1 <=> bit("cpx") = 8
      /\ (f \div 4) % 2 = 1 <=> bit("cpy") = 4
      /\ (f \div 2) % 2 = 1 <=> bit("cpl") = 2
      /\ (f \div 1) % 2 = 1 <=> bit("inl") = 1
  BY <1>1, <1>2, <1>3, BitsOfFlag
<1>5. Mask["cpx"] = 8 /\ Mask["cpy"] = 4 /\ Mask["cpl"] = 2 /\ Mask["inl"] = 1
  BY DEF Mask, Arrays
<1>6. /\ Coded(f, "cpx") <=> Packed(r, "cpx")
      /\ Coded(f, "cpy") <=> Packed(r, "cpy")
      /\ Coded(f, "cpl") <=> Packed(r, "cpl")
      /\ Coded(f, "inl") <=> Packed(r, "inl")
  BY <1>1, <1>4, <1>5 DEF Coded
<1>7. Coded(f, a) \in BOOLEAN /\ Packed(r, a) \in BOOLEAN
  BY DEF Coded, Packed
<1> QED  BY <1>3, <1>6, <1>7 DEF Arrays

(* The entries of a sequence of eleven. *)
LEMMA EntriesOfEleven ==
    ASSUME NEW a, NEW b, NEW c, NEW d, NEW e, NEW f, NEW g, NEW h, NEW i, NEW j, NEW k,
           NEW s, s = <<a, b, c, d, e, f, g, h, i, j, k>>
    PROVE  /\ Len(s) = 11
           /\ s[1] = a /\ s[2] = b /\ s[3] = c /\ s[4] = d /\ s[5] = e /\ s[6] = f /\ s[7] = g
           /\ s[8] = h /\ s[9] = i /\ s[10] = j /\ s[11] = k
OBVIOUS

(* Field i of the record is called name and has n bytes. *)
Entry(r, i, name, n) == i \in 1 .. Len(Layout(r)) /\ Layout(r)[i] = <<name, n>>

(* The fields of an idelta record, in order. *)
LEMMA LayoutOfIdelta ==
    ASSUME method = "idelta", NEW r
    PROVE  /\ Len(Layout(r)) = 11
           /\ Entry(r, 1, "name", shape[r].name)
           /\ Entry(r, 2, "sizes", SizesLen)
           /\ Entry(r, 3, "ffxx", 1)
           /\ Entry(r, 4, "xx", 1)
           /\ Entry(r, 5, "header", shape[r].header)
           /\ Entry(r, 6, "flag", 1)
           /\ Entry(r, 7, "cpx", SubSize(r, "cpx"))
           /\ Entry(r, 8, "cpy", SubSize(r, "cpy"))
           /\ Entry(r, 9, "cpl", SubSize(r, "cpl"))
           /\ Entry(r, 10, "inl", SubSize(r, "inl"))
           /\ Entry(r, 11, "res", shape[r].res)
<1>1. PICK s : s = Layout(r)
  OBVIOUS
<1>2. s = << <<"name", shape[r].name>>, <<"sizes", SizesLen>>, <<"ffxx", 1>>, <<"xx", 1>>,
             <<"header", shape[r].header>>, <<"flag", 1>>, <<"cpx", SubSize(r, "cpx")>>,
             <<"cpy", SubSize(r, "cpy")>>, <<"cpl", SubSize(r, "cpl")>>,
             <<"inl", SubSize(r, "inl")>>, <<"res", shape[r].res>> >>
  BY <1>1 DEF Layout
<1>3. /\ Len(s) = 11
      /\ s[1] = <<"name", shape[r].name>> /\ s[2] = <<"sizes", SizesLen>> /\ s[3] = <<"ffxx", 1>>
      /\ s[4] = <<"xx", 1>> /\ s[5] = <<"header", shape[r].header>> /\ s[6] = <<"flag", 1>>
      /\ s[7] = <<"cpx", SubSize(r, "cpx")>> /\ s[8] = <<"cpy", SubSize(r, "cpy")>>
      /\ s[9] = <<"cpl", SubSize(r, "cpl")>> /\ s[10] = <<"inl", SubSize(r, "inl")>>
      /\ s[11] = <<"res", shape[r].res>>
  BY ONLY <1>2, EntriesOfEleven
<1>4. \A i \in {1, 2, 3, 4, 5, 6, 7, 8, 9, 10, 11} : i \in 1 .. 11
  OBVIOUS
<1> QED  BY <1>1, <1>3, <1>4 DEF Entry

(* FieldStands, for a field known by its entry. *)
LEMMA EntryStands ==
    ASSUME Knows, NEW r \in Records, NEW s \in Seq(Byte), Begins(RecordBytes(r), s),
           NEW i \in 1 .. Len(Layout(r)), NEW name, NEW n, Entry(r, i, name, n),
           NEW p, p = Len(Begun(r, i - 1)), NEW q, q = Len(Begun(r, i))
    PROVE  Stretch(s, p, q, r, name, n)
<1>1. name = Layout(r)[i][1] /\ n = Layout(r)[i][2]
  BY DEF Entry
<1> QED  BY <1>1, FieldStands

(* Where the fields stand: at[i] is behind the first i.                    *)
Laid(s, r, at) ==
    /\ at[0] = 0 /\ at[11] = Len(RecordBytes(r))
    /\ Stretch(s, at[0], at[1], r, "name", shape[r].name)
    /\ Stretch(s, at[1], at[2], r, "sizes", SizesLen)
    /\ Stretch(s, at[2], at[3], r, "ffxx", 1)
    /\ Stretch(s, at[3], at[4], r, "xx", 1)
    /\ Stretch(s, at[4], at[5], r, "header", shape[r].header)
    /\ Stretch(s, at[5], at[6], r, "flag", 1)
    /\ Stretch(s, at[6], at[7], r, "cpx", SubSize(r, "cpx"))
    /\ Stretch(s, at[7], at[8], r, "cpy", SubSize(r, "cpy"))
    /\ Stretch(s, at[8], at[9], r, "cpl", SubSize(r, "cpl"))
    /\ Stretch(s, at[9], at[10], r, "inl", SubSize(r, "inl"))
    /\ Stretch(s, at[10], at[11], r, "res", shape[r].res)

(* A record that stands in front of s is laid out there. *)
LEMMA RecordLaid ==
    ASSUME Knows, method = "idelta", NEW r \in Records, NEW s \in Seq(Byte), Begins(RecordBytes(r), s)
    PROVE  \E at : Laid(s, r, at)
<1>1. PICK at : at = [i \in 0 .. 11 |-> Len(Begun(r, i))]
  OBVIOUS
<1>2. \A i \in 0 .. 11 : at[i] = Len(Begun(r, i))
  BY <1>1
<1>3. ASSUME NEW i \in 1 .. 11, NEW name, NEW n, Entry(r, i, name, n)
      PROVE  Stretch(s, at[i - 1], at[i], r, name, n)
  <2>1. PICK p, q : p = at[i - 1] /\ q = at[i]
    OBVIOUS
  <2>2. i - 1 \in 0 .. 11 /\ i \in 0 .. 11
    OBVIOUS
  <2>3. p = Len(Begun(r, i - 1)) /\ q = Len(Begun(r, i))
    BY <1>2, <2>1, <2>2
  <2>4. i \in 1 .. Len(Layout(r))
    BY LayoutOfIdelta
  <2>5. Stretch(s, p, q, r, name, n)
    BY <1>3, <2>3, <2>4, EntryStands
  <2> QED  BY <2>1, <2>5
<1>4. at[0] = 0
  <2>1. at[0] = Len(Begun(r, 0)) /\ Begun(r, 0) = <<>> /\ Len(<<>>) = 0
    BY <1>2, BegunStep
  <2> QED  BY <2>1
<1>5. at[11] = Len(RecordBytes(r))
  <2>1. Len(Layout(r)) = 11
    BY LayoutOfIdelta
  <2>2. at[11] = Len(Begun(r, 11))
    BY <1>2
  <2> QED  BY <2>1, <2>2 DEF RecordBytes
<1>6. /\ Stretch(s, at[1 - 1], at[1], r, "name", shape[r].name)
      /\ Stretch(s, at[2 - 1], at[2], r, "sizes", SizesLen)
      /\ Stretch(s, at[3 - 1], at[3], r, "ffxx", 1)
      /\ Stretch(s, at[4 - 1], at[4], r, "xx", 1)
      /\ Stretch(s, at[5 - 1], at[5], r, "header", shape[r].header)
      /\ Stretch(s, at[6 - 1], at[6], r, "flag", 1)
  BY <1>3, LayoutOfIdelta
<1>7. /\ Stretch(s, at[7 - 1], at[7], r, "cpx", SubSize(r, "cpx"))
      /\ Stretch(s, at[8 - 1], at[8], r, "cpy", SubSize(r, "cpy"))
      /\ Stretch(s, at[9 - 1], at[9], r, "cpl", SubSize(r, "cpl"))
      /\ Stretch(s, at[10 - 1], at[10], r, "inl", SubSize(r, "inl"))
      /\ Stretch(s, at[11 - 1], at[11], r, "res", shape[r].res)
  BY <1>3, LayoutOfIdelta
<1> QED  BY <1>4, <1>5, <1>6, <1>7 DEF Laid

(* The name ends where its 0 byte is: it has no other.                     *)
LEMMA NameEnds ==
    ASSUME Knows, NEW r \in Records, NEW s \in Seq(Byte), NEW p, NEW n, n = shape[r].name,
           Stretch(s, 0, p, r, "name", n)
    PROVE  NameEnd(s) = n /\ n >= 1 /\ n <= Len(s) /\ s[1].rec = r
<1>1. n \in Nat /\ n >= 1 /\ n <= Len(s)
  <2>1. shape[r] \in Lengths
    BY LengthsAssumption DEF Knows
  <2>2. n \in Nat \ {0}
    BY <2>1 DEF Lengths
  <2>3. p = 0 + n /\ p <= Len(s)
    BY DEF Stretch
  <2> QED  BY <2>2, <2>3
<1>2. \A k \in 1 .. n : s[k] = [rec |-> r, field |-> "name", pos |-> k]
  <2> TAKE k \in 1 .. n
  <2>1. s[0 + k] = [rec |-> r, field |-> "name", pos |-> k] /\ 0 + k = k
    BY DEF Stretch
  <2> QED  BY <2>1
<1>3. \A k \in 1 .. n : s[k].rec = r /\ (IsNul(s[k]) <=> k = n)
  <2> TAKE k \in 1 .. n
  <2>1. s[k].rec = r /\ s[k].field = "name" /\ s[k].pos = k
    <3>1. PICK b : b = [rec |-> r, field |-> "name", pos |-> k]
      OBVIOUS
    <3>2. b.rec = r /\ b.field = "name" /\ b.pos = k
      BY <3>1
    <3>3. s[k] = b
      BY <1>2, <3>1
    <3> QED  BY <3>2, <3>3
  <2> QED  BY <2>1 DEF IsNul
<1> DEFINE Ends(k) == IsNul(s[k]) /\ \A j \in 1 .. k - 1 : ~IsNul(s[j])
<1>4. n \in DOMAIN s /\ Ends(n)
  <2>1. n \in 1 .. Len(s) /\ n \in 1 .. n /\ \A j \in 1 .. n - 1 : j \in 1 .. n /\ j # n
    BY <1>1, LenProperties
  <2> QED  BY <1>3, <2>1, LenProperties
<1>5. ASSUME NEW k \in DOMAIN s, Ends(k) PROVE k = n
  <2>1. k \in Nat /\ k >= 1
    BY LenProperties
  <2>2. CASE k < n
    <3>1. k \in 1 .. n
      BY <1>1, <2>1, <2>2
    <3> QED  BY <1>3, <1>5, <3>1
  <2>3. CASE k > n
    <3>1. n \in 1 .. k - 1 /\ n \in 1 .. n
      BY <1>1, <2>1, <2>3
    <3> QED  BY <1>3, <1>5, <3>1
  <2> QED  BY <1>1, <2>1, <2>2, <2>3
<1>6. NameEnd(s) = CHOOSE k \in DOMAIN s : Ends(k)
  BY DEF NameEnd
<1>7. NameEnd(s) = n
  <2> HIDE DEF Ends
  <2> QED  BY <1>4, <1>5, <1>6
<1>8. s[1].rec = r
  BY <1>1, <1>3
<1> QED  BY <1>1, <1>7, <1>8

(* The cursor comes to every field where it stands.                        *)
LEMMA CursorRight ==
    ASSUME Knows, NEW r \in Records, NEW s \in Seq(Byte), NEW at, Laid(s, r, at)
    PROVE  Pointers(s) = [header |-> at[4], flag |-> at[5], x |-> at[6], y |-> at[7],
                          cp_l |-> at[8], in_l |-> at[9], in_d |-> at[10], end |-> at[11]]
<1>1. PICK n : n = shape[r].name
  OBVIOUS
<1>2. NameEnd(s) = n /\ s[1].rec = r
  <2>1. PICK p : p = at[1]
    OBVIOUS
  <2>2. Stretch(s, 0, p, r, "name", n)
    BY <1>1, <2>1 DEF Laid
  <2> QED  BY <1>1, <2>2, NameEnds
<1>3. n \in Nat /\ SizesLen \in Nat
  <2>1. shape[r] \in Lengths
    BY LengthsAssumption DEF Knows
  <2> QED  BY <1>1, <2>1, LengthsAssumption DEF Lengths
<1>4. /\ at[1] = n /\ at[2] = n + SizesLen /\ at[3] = at[2] + 1 /\ at[4] = at[3] + 1
      /\ at[5] = at[4] + shape[r].header /\ at[6] = at[5] + 1
      /\ at[7] = at[6] + SubSize(r, "cpx") /\ at[8] = at[7] + SubSize(r, "cpy")
      /\ at[9] = at[8] + SubSize(r, "cpl") /\ at[10] = at[9] + SubSize(r, "inl")
      /\ at[11] = at[10] + shape[r].res
  <2>1. \A p, q, name, m : Stretch(s, p, q, r, name, m) => q = p + m
    BY DEF Stretch
  <2>2. at[0] = 0 /\ Stretch(s, at[0], at[1], r, "name", n)
    BY <1>1 DEF Laid
  <2>3. at[1] = n
    BY <1>3, <2>1, <2>2
  <2> QED  BY <2>1, <2>3 DEF Laid
<1>5. SubSeq(s, n + 1, n + SizesLen) = Content(r, "sizes", SizesLen)
  BY <1>4 DEF Laid, Stretch
<1>6. at[4] = n + SizesLen + 2
  BY <1>3, <1>4
<1> QED  BY ONLY <1>2, <1>4, <1>5, <1>6 DEF Pointers

(* A record laid out in front of s reads back as what was written. *)
LEMMA RecordRead ==
    ASSUME Knows, NEW r \in Records, NEW s \in Seq(Byte), NEW at, Laid(s, r, at)
    PROVE  ReadRight(r, s)
<1>1. PICK ptr : ptr = Pointers(s)
  OBVIOUS
<1>2. /\ ptr.header = at[4] /\ ptr.flag = at[5] /\ ptr.x = at[6] /\ ptr.y = at[7]
      /\ ptr.cp_l = at[8] /\ ptr.in_l = at[9] /\ ptr.in_d = at[10] /\ ptr.end = at[11]
  BY <1>1, CursorRight
<1>3. PICK back : back = ReadBack(s)
  OBVIOUS
<1>4. /\ back.ffxx = s[ptr.header - 1] /\ back.xx = s[ptr.header]
      /\ back.header = SubSeq(s, ptr.header + 1, ptr.flag)
      /\ back.flag = IF s[ptr.flag + 1].field = "flag" THEN Flag(s[ptr.flag + 1].rec) ELSE 0
      /\ back.array["cpx"] = SubSeq(s, ptr.x + 1, ptr.y)
      /\ back.array["cpy"] = SubSeq(s, ptr.y + 1, ptr.cp_l)
      /\ back.array["cpl"] = SubSeq(s, ptr.cp_l + 1, ptr.in_l)
      /\ back.array["inl"] = SubSeq(s, ptr.in_l + 1, ptr.in_d)
      /\ back.in_d = SubSeq(s, ptr.in_d + 1, ptr.end)
      /\ back.end = ptr.end
  BY <1>1, <1>3 DEF ReadBack, Arrays
<1>5. \A p, q, name : Stretch(s, p, q, r, name, 1) =>
         /\ p \in Nat /\ q = p + 1
         /\ s[q] = [rec |-> r, field |-> name, pos |-> 1]
  <2> SUFFICES ASSUME NEW p, NEW q, NEW name, Stretch(s, p, q, r, name, 1)
               PROVE  p \in Nat /\ q = p + 1 /\ s[q] = [rec |-> r, field |-> name, pos |-> 1]
    OBVIOUS
  <2>1. p \in Nat /\ q = p + 1 /\ s[p + 1] = [rec |-> r, field |-> name, pos |-> 1]
    <3>1. 1 \in 1 .. 1
      OBVIOUS
    <3> QED  BY <3>1 DEF Stretch
  <2> QED  BY <2>1
<1>6. /\ at[3] \in Nat /\ at[4] = at[3] + 1 /\ at[6] = at[5] + 1
      /\ s[at[3]] = [rec |-> r, field |-> "ffxx", pos |-> 1]
      /\ s[at[4]] = [rec |-> r, field |-> "xx", pos |-> 1]
      /\ s[at[6]] = [rec |-> r, field |-> "flag", pos |-> 1]
  BY <1>5 DEF Laid
<1>7. \A name : <<[rec |-> r, field |-> name, pos |-> 1]>> = Content(r, name, 1)
  <2> TAKE name
  <2>1. PICK b : b = [rec |-> r, field |-> name, pos |-> 1]
    OBVIOUS
  <2>2. Content(r, name, 1) = [k \in 1 .. 1 |-> b]
    <3>1. \A k \in 1 .. 1 : [rec |-> r, field |-> name, pos |-> k] = b
      BY <2>1
    <3> QED  BY <3>1 DEF Content
  <2>3. [k \in 1 .. 1 |-> b] = <<b>>
    OBVIOUS
  <2> QED  BY <2>1, <2>2, <2>3
<1>8. <<back.ffxx>> = Content(r, "ffxx", 1) /\ <<back.xx>> = Content(r, "xx", 1)
  <2>1. ptr.header - 1 = at[3]
    BY <1>2, <1>6
  <2>2. back.ffxx = s[at[3]] /\ back.xx = s[at[4]]
    BY <1>2, <1>4, <1>6, <2>1
  <2> QED  BY ONLY <2>2, <1>6, <1>7
<1>9. back.flag = Flag(r)
  <2>1. s[ptr.flag + 1] = [rec |-> r, field |-> "flag", pos |-> 1]
    BY <1>2, <1>6
  <2>2. s[ptr.flag + 1].field = "flag" /\ s[ptr.flag + 1].rec = r
    BY <2>1
  <2> QED  BY <1>4, <2>2
<1>10. /\ back.header = Content(r, "header", shape[r].header)
       /\ back.in_d = Content(r, "res", shape[r].res)
       /\ back.array["cpx"] = Content(r, "cpx", SubSize(r, "cpx"))
       /\ back.array["cpy"] = Content(r, "cpy", SubSize(r, "cpy"))
       /\ back.array["cpl"] = Content(r, "cpl", SubSize(r, "cpl"))
       /\ back.array["inl"] = Content(r, "inl", SubSize(r, "inl"))
  <2>1. /\ SubSeq(s, at[4] + 1, at[5]) = Content(r, "header", shape[r].header)
        /\ SubSeq(s, at[6] + 1, at[7]) = Content(r, "cpx", SubSize(r, "cpx"))
        /\ SubSeq(s, at[7] + 1, at[8]) = Content(r, "cpy", SubSize(r, "cpy"))
        /\ SubSeq(s, at[8] + 1, at[9]) = Content(r, "cpl", SubSize(r, "cpl"))
        /\ SubSeq(s, at[9] + 1, at[10]) = Content(r, "inl", SubSize(r, "inl"))
        /\ SubSeq(s, at[10] + 1, at[11]) = Content(r, "res", shape[r].res)
    BY DEF Laid, Stretch
  <2> QED  BY ONLY <1>2, <1>4, <2>1
<1>11. back.end = Len(RecordBytes(r))
  BY <1>2, <1>4 DEF Laid
<1>12. ASSUME NEW a \in Arrays
       PROVE  /\ back.array[a] = Content(r, a, SubSize(r, a))
              /\ Coded(back.flag, a) = Packed(r, a)
              /\ Packed(r, a) => SubSize(r, a) = shape[r].packed[a]
  <2>1. back.array[a] = Content(r, a, SubSize(r, a))
    BY <1>10 DEF Arrays
  <2>2. Coded(back.flag, a) = Packed(r, a)
    BY <1>9, FlagRead
  <2> QED  BY <2>1, <2>2 DEF SubSize
<1> QED  BY <1>3, <1>8, <1>10, <1>11, <1>12 DEF ReadRight

-----------------------------------------------------------------------------
(* What was handed over so far begins what the records taken make.         *)
LEMMA HandedBegins ==
    ASSUME Knows, NEW z \in Seq(Records), NEW r \in Records, NEW n \in 1 .. Len(Layout(r)),
           NEW s, s = Append(z, r)
    PROVE  Begins(Handed(r, s, n), Whole(s))
<1>1. PICK a, b, c : a = Whole(z) /\ b = Begun(r, n - 1) /\ c = RecordBytes(r)
  OBVIOUS
<1>2. n - 1 \in 0 .. Len(Layout(r)) /\ Len(Layout(r)) \in 0 .. Len(Layout(r)) /\ r # None
  BY LayoutShape, RecordsAssumption
<1>3. a \in Seq(Byte) /\ b \in Seq(Byte) /\ c \in Seq(Byte)
  BY <1>1, <1>2, WholeStep, BegunStep DEF RecordBytes
<1>4. Begins(b, c)
  BY <1>1, <1>2, BegunBegins
<1>5. PICK u, v : Glued(u, a, b) /\ Glued(v, a, c)
  BY DEF Glued
<1>6. Begins(u, v)
  BY ONLY <1>3, <1>4, <1>5, BeginsBehind
<1>7. Front(s) = z
  BY FrontAppend
<1>8. u = Handed(r, s, n)
  BY <1>1, <1>2, <1>5, <1>7 DEF Handed, Glued
<1>9. v = Whole(s)
  BY <1>1, <1>5, WholeStep DEF Glued
<1> QED  BY <1>6, <1>8, <1>9

(* A record stands behind those taken before it.                           *)
LEMMA RecordStands ==
    ASSUME Knows, NEW s \in Seq(Records), NEW i \in 1 .. Len(s),
           NEW f \in Seq(Byte), Begins(f, Whole(s)),
           NEW p, p = Len(Whole(SubSeq(s, 1, i - 1))), NEW c, c = RecordBytes(s[i]),
           Len(f) >= p + Len(c), NEW t, t = SubSeq(f, p + 1, Len(f))
    PROVE  t \in Seq(Byte) /\ Begins(c, t)
<1>1. PICK l : l = Len(s)
  OBVIOUS
<1>2. l \in Nat /\ i \in 1 .. l /\ i - 1 \in 0 .. l /\ i \in 0 .. l /\ l \in i .. l /\ DOMAIN s = 1 .. l
  BY <1>1, LenProperties
<1>3. PICK ss : ss = [j \in DOMAIN s |-> RecordBytes(s[j])]
  OBVIOUS
<1>4. ss \in Seq(Seq(Byte)) /\ Len(ss) = l /\ ss[i] = c
  BY <1>1, <1>2, <1>3, WholeSeq
<1>5. PICK g : Gathers(g, ss, Byte)
  BY <1>4, GathersExists
<1>6. Whole(s) = g[l]
  BY <1>3, <1>4, <1>5, FlattenGathers DEF Whole
<1>7. Whole(SubSeq(s, 1, i - 1)) = g[i - 1]
  <2>1. PICK z, m : m = i - 1 /\ z = SubSeq(s, 1, m)
    OBVIOUS
  <2>2. m \in 0 .. l /\ m \in Nat /\ \A j \in 1 .. m : j \in 1 .. l
    BY <1>2, <2>1
  <2>3. \A j \in 1 .. m : s[j] \in Records
    BY <1>1, <2>2, ElementOfSeq
  <2>4. z \in Seq(Records) /\ Len(z) = m /\ \A j \in 1 .. m : z[j] = s[j]
    <3>1. 1 \in Int /\ m \in Int /\ (IF 1 <= m THEN m - 1 + 1 ELSE 0) = m /\ m - 1 + 1 = m
          /\ \A j \in 1 .. m : 1 + j - 1 = j
      BY <2>2
    <3>2. /\ z \in Seq(Records) /\ Len(z) = (IF 1 <= m THEN m - 1 + 1 ELSE 0)
          /\ \A j \in 1 .. m - 1 + 1 : z[j] = s[1 + j - 1]
      BY <2>1, <2>3, <3>1, SubSeqProperties
    <3> QED  BY <3>1, <3>2
  <2>5. DOMAIN z = 1 .. m
    BY <2>4, LenProperties
  <2>6. [j \in DOMAIN z |-> RecordBytes(z[j])] = [j \in 1 .. m |-> ss[j]]
    BY <1>2, <1>3, <2>2, <2>4, <2>5
  <2>7. FlattenSeq([j \in 1 .. m |-> ss[j]]) = g[m]
    BY <1>4, <1>5, <2>2, FlattenPrefix
  <2>8. Whole(z) = g[m]
    BY <2>6, <2>7 DEF Whole
  <2> QED  BY <2>1, <2>8
<1>8. PICK a, u, v : a = g[i - 1] /\ u = g[i] /\ v = g[l]
  OBVIOUS
<1>9. a \in Seq(Byte) /\ c \in Seq(Byte) /\ v \in Seq(Byte) /\ Glued(u, a, c)
  <2>1. l \in 0 .. l /\ \A j \in 0 .. l : g[j] \in Seq(Byte)
    BY <1>2, <1>4, <1>5 DEF Gathers
  <2>2. a \in Seq(Byte) /\ v \in Seq(Byte)
    BY <1>2, <1>8, <2>1
  <2>3. c \in Seq(Byte)
    BY <1>2, <1>4, ElementOfSeq
  <2>4. g[i] = g[i - 1] \o ss[i]
    BY <1>2, <1>4, <1>5 DEF Gathers
  <2> QED  BY <1>4, <1>8, <2>2, <2>3, <2>4 DEF Glued
<1>10. Begins(u, v)
  BY <1>2, <1>4, <1>5, <1>8, GathersBegins
<1>11. p = Len(a)
  BY <1>7, <1>8
<1>12. Stands(c, v, p) /\ p \in Nat
  BY <1>9, <1>10, <1>11, StandsGlued
<1>13. PICK n, k : n = Len(f) /\ k = Len(c)
  OBVIOUS
<1>14. n \in Nat /\ k \in Nat /\ n >= p + k
  BY <1>9, <1>13, LenProperties
<1>15. Begins(f, v)
  BY <1>6, <1>8
<1>16. /\ t \in Seq(Byte) /\ Len(t) = (IF p + 1 <= n THEN n - (p + 1) + 1 ELSE 0)
       /\ \A j \in 1 .. n - (p + 1) + 1 : t[j] = f[p + 1 + j - 1]
  <2>1. p + 1 \in Int /\ n \in Int
    BY <1>12, <1>14
  <2>2. \A j \in p + 1 .. n : f[j] \in Byte
    <3>1. \A j \in p + 1 .. n : j \in 1 .. Len(f)
      BY <1>12, <1>13, <1>14
    <3> QED  BY <3>1, ElementOfSeq
  <2>3. PICK m : m = p + 1
    OBVIOUS
  <2>4. /\ t \in Seq(Byte) /\ Len(t) = (IF m <= n THEN n - m + 1 ELSE 0)
        /\ \A j \in 1 .. n - m + 1 : t[j] = f[m + j - 1]
    BY <1>13, <2>1, <2>2, <2>3, SubSeqProperties
  <2> QED  BY <2>3, <2>4
<1>17. Len(t) = n - p
  <2>1. p \in Nat /\ p <= n
    BY <1>12, <1>14
  <2>2. PICK x : x = Len(t)
    OBVIOUS
  <2>3. x = IF p + 1 <= n THEN n - (p + 1) + 1 ELSE 0
    BY <1>16, <2>2
  <2>4. n \in Nat
    BY <1>14
  <2>5. x = n - p
    BY ONLY <2>1, <2>3, <2>4
  <2> QED  BY <2>2, <2>5
<1>18. ASSUME NEW j \in 1 .. k PROVE c[j] = t[j]
  <2>1. j \in 1 .. n - (p + 1) + 1 /\ p + 1 + j - 1 = p + j /\ p + j \in 1 .. n
    BY <1>12, <1>14
  <2>2. t[j] = f[p + j]
    BY <1>16, <2>1
  <2>3. f[p + j] = v[p + j]
    BY <1>13, <1>15, <2>1 DEF Begins
  <2>4. v[p + j] = c[j]
    BY <1>12, <1>13 DEF Stands
  <2> QED  BY <2>2, <2>3, <2>4
<1> QED  BY <1>12, <1>13, <1>14, <1>16, <1>17, <1>18 DEF Begins

(* With one writer the file is the beginning of the records it took.       *)
LEMMA FileBegins ==
    ASSUME Inv, NEW w \in Writers, crew = {w}
    PROVE  Begins(file, Whole(taken[w]))
<1>1. Knows /\ file \in Seq(Byte) /\ pending[w] \in Seq(Byte) /\ cache[w] \in Seq(Byte)
      /\ taken[w] \in Seq(Records)
  BY DEF Inv, TypeInv
<1>2. Taken = Range(taken[w])
  <2>1. \A v \in Writers : v # w => Range(taken[v]) = {}
    <3>1. \A v \in Writers : v # w => taken[v] = <<>>
      BY DEF Inv, Local, Started
    <3>2. Range(<<>>) = {}
      BY DEF Range
    <3> QED  BY <3>1, <3>2
  <2> QED  BY <2>1 DEF Taken
<1>3. Of(file, Range(taken[w])) = file
  <2>1. PICK R : R = Range(taken[w])
    OBVIOUS
  <2>2. \A k \in 1 .. Len(file) : file[k].rec \in R
    BY <1>2, <2>1 DEF Inv, Within
  <2>3. Of(file, R) = file
    BY <1>1, <2>2, OfAll
  <2> QED  BY <2>1, <2>3
<1>4. PICK a, b, h : Glued(a, file, pending[w]) /\ Glued(b, a, cache[w]) /\ h = Given(w)
  BY DEF Glued
<1>5. b = h
  BY <1>3, <1>4 DEF Inv, OwnBytesInOrder, Glued
<1>6. a \in Seq(Byte) /\ Begins(file, a)
  BY <1>1, <1>4, BeginsGlued
<1>7. b \in Seq(Byte) /\ Begins(a, b)
  BY <1>1, <1>4, <1>6, BeginsGlued
<1>8. Begins(file, h)
  BY <1>1, <1>5, <1>6, <1>7, BeginsTransitive
<1>9. PICK all : all = Whole(taken[w])
  OBVIOUS
<1>10. all \in Seq(Byte)
  BY <1>1, <1>9, WholeStep
<1>11. CASE work[w] = None
  BY <1>4, <1>8, <1>9, <1>11 DEF Given
<1>12. CASE work[w] # None
  <2>1. PICK r, z, n, s : /\ r = work[w] /\ n = field[w] /\ s = taken[w] /\ r \in Records
                          /\ z \in Seq(Records) /\ s = Append(z, r) /\ n \in 1 .. Len(Layout(r))
    BY <1>12 DEF Inv, Local, AtRecord, TypeInv
  <2>2. Begins(Handed(r, s, n), Whole(s))
    BY <1>1, <2>1, HandedBegins
  <2>3. h = Handed(r, s, n)
    BY <1>4, <2>1, GivenHanded
  <2>4. Begins(h, all)
    BY <1>9, <2>1, <2>2, <2>3
  <2> QED  BY <1>1, <1>5, <1>7, <1>8, <1>9, <1>10, <2>4, BeginsTransitive
<1> QED  BY <1>11, <1>12

(* With one writer every record that is in the file as a whole reads back  *)
(* as what was written, at every moment (de_read_thread of idedup.c).      *)
THEOREM RecordsReadBack == Spec => []ReadsBack
<1>1. Inv => ReadsBack
  <2> SUFFICES ASSUME Inv, NEW w \in Writers, crew = {w}, method = "idelta",
                      NEW i \in DOMAIN taken[w],
                      Len(file) >= Start(w, i) + Len(RecordBytes(taken[w][i]))
               PROVE  ReadRight(taken[w][i], SubSeq(file, Start(w, i) + 1, Len(file)))
    BY DEF ReadsBack
  <2>1. Knows /\ file \in Seq(Byte) /\ taken[w] \in Seq(Records)
    BY DEF Inv, TypeInv
  <2>2. PICK s, p, r, c, t : /\ s = taken[w] /\ p = Start(w, i) /\ r = s[i] /\ c = RecordBytes(r)
                             /\ t = SubSeq(file, p + 1, Len(file))
    OBVIOUS
  <2>3. s \in Seq(Records) /\ i \in 1 .. Len(s) /\ r \in Records
    BY <2>1, <2>2, LenProperties, ElementOfSeq
  <2>4. p = Len(Whole(SubSeq(s, 1, i - 1)))
    BY <2>2 DEF Start
  <2>5. Begins(file, Whole(s))
    BY <2>2, FileBegins
  <2>6. t \in Seq(Byte) /\ Begins(c, t)
    BY <2>1, <2>2, <2>3, <2>4, <2>5, RecordStands
  <2>7. PICK at : Laid(t, r, at)
    BY <2>1, <2>2, <2>3, <2>6, RecordLaid
  <2>8. ReadRight(r, t)
    BY <2>1, <2>3, <2>6, <2>7, RecordRead
  <2> QED  BY <2>2, <2>8
<1> QED  BY InvHolds, <1>1, PTL
=============================================================================
