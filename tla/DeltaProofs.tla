----------------------------- MODULE DeltaProofs ------------------------------
(***************************************************************************)
(* What is proved of a delta, for planes of every size, blocks of every    *)
(* kind and every index: what is read back is the target, where its planes *)
(* of colour are of one size (ColourAssumption), and with an index that    *)
(* can be trusted only new blocks are inserted (Delta).  And of the coding *)
(* of the blocks it inserts, for blocks and words of every size: what      *)
(* comes back is what went in, and no word is read that was not written    *)
(* (Codec).                                                                *)
(*                                                                         *)
(* The arrays an encoder thread leaves behind are the instructions of a    *)
(* script: a mark (row, column, copies and inserted blocks so far) before  *)
(* and behind each instruction, such that between two marks the inserted   *)
(* blocks and the copied run are those of the target, that no instruction  *)
(* leaves its row, and that it has a copy exactly when the insertions do   *)
(* not fill the row.  The encoder only makes scripts longer, merging only  *)
(* puts one plane's arrays behind another's, and the reader stands at a    *)
(* mark: this is the invariant, and the reader needs nothing that it does  *)
(* not have at a mark.                                                     *)
(*                                                                         *)
(* The coder is a pair of such scripts.  Between two numbers it stands at  *)
(* a place of its words, and the bits between two places are the number's; *)
(* between two pairs it stands at a stop in the blocks, and the pair says  *)
(* what is between two stops.  What is appended disturbs no place and no   *)
(* stop that is behind, and each decoder stands at one.                    *)
(***************************************************************************)
EXTENDS Delta, Codec, QueueLemmas

(* What is left of a sequence after its first n elements.                  *)
Drop(s, n) == SubSeq(s, n + 1, Len(s))

(* Nothing dropped is everything left.                                     *)
LEMMA DropNone == ASSUME NEW S, NEW s \in Seq(S) PROVE Drop(s, 0) = s
<1> DEFINE t == SubSeq(s, 1, Len(s))
<1>1. t \in Seq(S) /\ Len(t) = Len(s) /\ \A i \in 1 .. Len(t) : t[i] = s[i]
  OBVIOUS
<1>2. t = s
  <2> HIDE DEF t
  <2> QED  BY <1>1, SeqEqual
<1> QED  BY <1>2 DEF Drop

(* Everything dropped leaves what comes behind.                            *)
LEMMA DropAll == ASSUME NEW S, NEW s \in Seq(S), NEW r \in Seq(S)
                 PROVE Drop(s, Len(s)) \o r = r
<1>1. SubSeq(s, Len(s) + 1, Len(s)) = <<>>
  OBVIOUS
<1>2. <<>> \o r = r
  OBVIOUS
<1> QED  BY <1>1, <1>2 DEF Drop

(* e is d without its first k elements. *)
Behind(e, d, k) == Len(d) = Len(e) + k /\ \A i \in 1 .. Len(e) : e[i] = d[k + i]

(* The first k elements of d and r, and the rest, are the first k of d,    *)
(* and what is left of d, then r.                                          *)
LEMMA JoinsSplit ==
    ASSUME NEW S, NEW d \in Seq(S), NEW r \in Seq(S), NEW e \in Seq(S),
           NEW x \in Seq(S), Joins(x, d, r), NEW z \in Seq(S), Joins(z, e, r),
           NEW k \in Nat, Behind(e, d, k)
    PROVE  /\ SubSeq(x, 1, k) = [i \in 1 .. k |-> d[i]]
           /\ SubSeq(x, k + 1, Len(x)) = z
           /\ k = 1 => Head(x) = d[1] /\ Tail(x) = z
<1>1. Len(d) \in Nat /\ Len(e) \in Nat /\ Len(r) \in Nat /\ Len(x) \in Nat /\ k <= Len(d)
      /\ Len(d) = Len(e) + k /\ Len(x) = Len(d) + Len(r) /\ Len(z) = Len(e) + Len(r)
  BY LenProperties DEF Joins, Behind
<1>2. ASSUME NEW i \in 1 .. Len(z) PROVE x[k + i] = z[i]
  <2>1. k + i \in 1 .. Len(x) /\ i \in Int /\ k + i - Len(d) = i - Len(e)
    BY <1>1, SMTT(20)
  <2>2. x[k + i] = IF k + i <= Len(d) THEN d[k + i] ELSE r[k + i - Len(d)]
    BY <2>1 DEF Joins
  <2>3. z[i] = IF i <= Len(e) THEN e[i] ELSE r[i - Len(e)]
    BY DEF Joins
  <2>4. k + i <= Len(d) <=> i <= Len(e)
    BY <2>1, <1>1
  <2>5. i <= Len(e) => i \in 1 .. Len(e)
    BY <2>1
  <2> QED  BY <2>1, <2>2, <2>3, <2>4, <2>5 DEF Behind
<1>3. \A i \in 1 .. k : x[i] = d[i] /\ i \in 1 .. Len(x)
  <2> SUFFICES ASSUME NEW i \in 1 .. k PROVE x[i] = d[i] /\ i \in 1 .. Len(x)
    OBVIOUS
  <2>1. i \in 1 .. Len(x) /\ i <= Len(d)
    BY <1>1
  <2> QED  BY <2>1 DEF Joins
<1>4. SubSeq(x, 1, k) = [i \in 1 .. k |-> d[i]]
  <2>1. SubSeq(x, 1, k) = [i \in 1 .. k |-> x[i]]
    BY <1>1
  <2> QED  BY <2>1, <1>3
<1>5. SubSeq(x, k + 1, Len(x)) = z
  <2>1. \A i \in k + 1 .. Len(x) : x[i] \in S
    BY <1>1, ElementOfSeq
  <2>2. /\ SubSeq(x, k + 1, Len(x)) \in Seq(S)
        /\ Len(SubSeq(x, k + 1, Len(x))) = IF k + 1 <= Len(x) THEN Len(x) - (k + 1) + 1 ELSE 0
        /\ \A i \in 1 .. Len(x) - (k + 1) + 1 : SubSeq(x, k + 1, Len(x))[i] = x[k + 1 + i - 1]
    BY <1>1, <2>1, SubSeqProperties
  <2>3. PICK y : y = SubSeq(x, k + 1, Len(x))
    OBVIOUS
  <2>4. Len(y) = Len(z)
    <3>1. Len(x) = Len(z) + k /\ Len(z) \in Nat
      BY <1>1
    <3>2. Len(y) = IF k + 1 <= Len(x) THEN Len(x) - (k + 1) + 1 ELSE 0
      BY ONLY <2>2, <2>3
    <3> QED  BY ONLY <3>1, <3>2, k \in Nat
  <2>5. ASSUME NEW i \in 1 .. Len(y) PROVE y[i] = z[i]
    <3>1. i \in 1 .. Len(z) /\ i \in 1 .. Len(x) - (k + 1) + 1 /\ k + 1 + i - 1 = k + i
      BY <2>4, <1>1
    <3>2. y[i] = x[k + i]
      BY <3>1, <2>2, <2>3
    <3> QED  BY <3>1, <3>2, <1>2
  <2> QED  BY <2>2, <2>3, <2>4, <2>5, SeqEqual
<1>6. k = 1 => Head(x) = d[1] /\ Tail(x) = z
  <2> SUFFICES ASSUME k = 1 PROVE Head(x) = d[1] /\ Tail(x) = z
    OBVIOUS
  <2>1. Len(x) # 0 /\ x[1] = d[1]
    BY <1>1, <1>3
  <2>2. x # <<>>
    BY <2>1, EmptySeq
  <2>3. Tail(x) = SubSeq(x, 2, Len(x)) /\ k + 1 = 2
    BY <2>2, TailIsSubSeq
  <2>4. Head(x) = x[1]
    BY <2>2
  <2>5. Tail(x) = z
    BY ONLY <2>3, <1>5
  <2> QED  BY ONLY <2>1, <2>4, <2>5
<1> QED  BY <1>4, <1>5, <1>6

(* What is left of a sequence, element by element.                         *)
LEMMA DropSeq ==
    ASSUME NEW S, NEW s \in Seq(S), NEW n \in Nat, n <= Len(s)
    PROVE  /\ Drop(s, n) \in Seq(S) /\ Len(Drop(s, n)) = Len(s) - n
           /\ \A i \in 1 .. Len(s) - n : Drop(s, n)[i] = s[n + i]
BY DEF Drop

(* k elements of s from the n-th on come first in x, and y follows them.   *)
Starts(x, s, n, k, y) ==
    /\ SubSeq(x, 1, k) = [i \in 1 .. k |-> s[n + i]]
    /\ SubSeq(x, k + 1, Len(x)) = y
    /\ k = 1 => Head(x) = s[n + 1] /\ Tail(x) = y

(* Reading k more elements of s, with r behind them.                       *)
LEMMA DropMore ==
    ASSUME NEW S, NEW s \in Seq(S), NEW r \in Seq(S), NEW n \in Nat, NEW k \in Nat,
           n + k <= Len(s), NEW x, x = Drop(s, n) \o r
    PROVE  x \in Seq(S) /\ Starts(x, s, n, k, Drop(s, n + k) \o r)
<1>1. n <= Len(s) /\ n + k \in Nat /\ Len(s) \in Nat
  BY LenProperties
<1>2. PICK d : d = Drop(s, n)
  OBVIOUS
<1>3. d \in Seq(S) /\ Len(d) = Len(s) - n /\ \A i \in 1 .. Len(s) - n : d[i] = s[n + i]
  BY <1>1, <1>2, DropSeq
<1>4. PICK e : e = Drop(s, n + k)
  OBVIOUS
<1>5. /\ e \in Seq(S) /\ Len(e) = Len(s) - (n + k)
      /\ \A i \in 1 .. Len(s) - (n + k) : e[i] = s[n + k + i]
  BY <1>1, <1>4, DropSeq
<1>6. PICK z : z = e \o r
  OBVIOUS
<1>7. x \in Seq(S) /\ Joins(x, d, r)
  <2>1. x = d \o r /\ d \in Seq(S) /\ r \in Seq(S)
    BY <1>2, <1>3
  <2> QED  BY ONLY <2>1, Joining
<1>8. z \in Seq(S) /\ Joins(z, e, r)
  <2>1. z = e \o r /\ e \in Seq(S) /\ r \in Seq(S)
    BY <1>5, <1>6
  <2> QED  BY ONLY <2>1, Joining
<1>9. Behind(e, d, k)
  <2>1. Len(d) = Len(e) + k
    BY <1>1, <1>3, <1>5
  <2>2. ASSUME NEW i \in 1 .. Len(e) PROVE e[i] = d[k + i]
    <3>1. k + i \in 1 .. Len(s) - n /\ i \in 1 .. Len(s) - (n + k) /\ n + (k + i) = n + k + i
      BY <1>1, <1>3, <1>5
    <3>2. d[k + i] = s[n + (k + i)]
      BY <3>1, <1>3
    <3> QED  BY <3>1, <3>2, <1>5
  <2> QED  BY <2>1, <2>2 DEF Behind
<1>10. /\ SubSeq(x, 1, k) = [i \in 1 .. k |-> d[i]]
       /\ SubSeq(x, k + 1, Len(x)) = z
       /\ k = 1 => Head(x) = d[1] /\ Tail(x) = z
  <2>1. d \in Seq(S) /\ r \in Seq(S) /\ e \in Seq(S) /\ k \in Nat
    BY <1>3, <1>5
  <2> QED  BY ONLY <2>1, <1>7, <1>8, <1>9, JoinsSplit
<1>11. \A i \in 1 .. k : d[i] = s[n + i]
  <2> SUFFICES ASSUME NEW i \in 1 .. k PROVE d[i] = s[n + i]
    OBVIOUS
  <2>1. i \in 1 .. Len(s) - n
    BY <1>1
  <2> QED  BY <2>1, <1>3
<1>12. [i \in 1 .. k |-> d[i]] = [i \in 1 .. k |-> s[n + i]]
  BY <1>11
<1>13. k = 1 => d[1] = s[n + 1]
  BY <1>11
<1> QED  BY <1>4, <1>6, <1>7, <1>10, <1>12, <1>13 DEF Starts

-----------------------------------------------------------------------------
(* t[p] is what the sequences of q from the p-th to the n-th make, joined. *)
Tails(q, t, n, S) ==
    /\ t \in [1 .. n + 1 -> Seq(S)]
    /\ t[n + 1] = <<>>
    /\ \A p \in 1 .. n : t[p] = q[p] \o t[p + 1]

Left(q, n, S, p, x) == \E t : Tails(q, t, n, S) /\ t[p] = x

(* Before anything is joined nothing is left.                              *)
LEMMA TailsNone == ASSUME NEW S, NEW q PROVE Left(q, 0, S, 1, <<>>)
<1> DEFINE t == [i \in 1 .. 0 + 1 |-> <<>>]
<1>1. Tails(q, t, 0, S) /\ t[1] = <<>>
  BY DEF Tails
<1> QED  BY <1>1 DEF Left

(* Catenation may be regrouped.                                            *)
LEMMA Regroup ==
    ASSUME NEW S, NEW a \in Seq(S), NEW b \in Seq(S), NEW c \in Seq(S), NEW x, x = a \o b
    PROVE  x \o c = a \o (b \o c)
BY ConcatAssociative

(* A sequence put at the end of what is joined is put at the end of what   *)
(* is left at every place.                                                 *)
LEMMA TailsMore ==
    ASSUME NEW S, NEW N \in Nat, NEW q \in [1 .. N -> Seq(S)], NEW n \in 0 .. N - 1,
           NEW x, Left(q, n, S, 1, x)
    PROVE  Left(q, n + 1, S, 1, x \o q[n + 1])
<1>1. PICK t : Tails(q, t, n, S) /\ t[1] = x
  BY DEF Left
<1> DEFINE With(p) == t[p] \o q[n + 1]
           u == [p \in 1 .. n + 1 + 1 |-> IF p <= n + 1 THEN With(p) ELSE <<>>]
<1>2. n \in Nat /\ n + 1 \in 1 .. N /\ q[n + 1] \in Seq(S)
  OBVIOUS
<1>3. \A p \in 1 .. n + 1 : t[p] \in Seq(S) /\ With(p) \in Seq(S)
  BY <1>1, <1>2 DEF Tails
<1>4. With(n + 1) = q[n + 1] /\ q[n + 1] = q[n + 1] \o <<>>
  BY <1>1, <1>2, ConcatEmptySeq DEF Tails
<1>5. ASSUME NEW p \in 1 .. n PROVE With(p) = q[p] \o With(p + 1)
  <2>0. t[p] = q[p] \o t[p + 1]
    BY <1>1 DEF Tails
  <2>1. p \in 1 .. N /\ p + 1 \in 1 .. n + 1
    BY <1>2
  <2>2. q[p] \in Seq(S) /\ t[p + 1] \in Seq(S)
    BY <2>1, <1>3
  <2>3. t[p] \o q[n + 1] = q[p] \o (t[p + 1] \o q[n + 1])
    <3>1. PICK a \in Seq(S), b \in Seq(S), c \in Seq(S) : a = q[p] /\ b = t[p + 1] /\ c = q[n + 1]
      BY <2>2, <1>2
    <3>2. PICK y : y = t[p]
      OBVIOUS
    <3>3. y = a \o b
      BY ONLY <2>0, <3>1, <3>2
    <3>4. y \o c = a \o (b \o c)
      BY ONLY <3>3, Regroup
    <3> QED  BY ONLY <3>1, <3>2, <3>4
  <2> QED  BY <2>3
<1>6. With(1) = x \o q[n + 1]
  BY <1>1
<1> HIDE DEF With
<1>7. u \in [1 .. n + 1 + 1 -> Seq(S)]
  BY <1>2, <1>3, EmptySeq
<1>8. \A p \in 1 .. n + 1 : u[p] = With(p)
  BY <1>2
<1>9. u[n + 1 + 1] = <<>> /\ u[1] = With(1)
  BY <1>2
<1> HIDE DEF u
<1>10. ASSUME NEW p \in 1 .. n + 1 PROVE u[p] = q[p] \o u[p + 1]
  <2>1. CASE p = n + 1
    BY <2>1, <1>4, <1>8, <1>9
  <2>2. CASE p # n + 1
    <3>1. p \in 1 .. n /\ p + 1 \in 1 .. n + 1
      BY <2>2, <1>2
    <3> QED  BY <3>1, <1>5, <1>8
  <2> QED  BY <2>1, <2>2
<1>11. Tails(q, u, n + 1, S)
  BY <1>7, <1>9, <1>10 DEF Tails
<1> QED  BY <1>6, <1>9, <1>11 DEF Left

(* x is what is left after n elements of the p-th sequence.                *)
Remaining(q, n, S, p, k, x) ==
    \E r \in Seq(S) : Left(q, n, S, p + 1, r) /\ x = Drop(q[p], k) \o r

(* At the first element of the p-th sequence all of it is left.            *)
LEMMA TailsNext ==
    ASSUME NEW S, NEW n \in Nat, NEW q, NEW p \in 1 .. n, q[p] \in Seq(S),
           NEW x, Left(q, n, S, p, x)
    PROVE  Remaining(q, n, S, p, 0, x)
<1>1. PICK t : Tails(q, t, n, S) /\ t[p] = x
  BY DEF Left
<1>2. p + 1 \in 1 .. n + 1
  OBVIOUS
<1>3. t[p + 1] \in Seq(S) /\ x = q[p] \o t[p + 1]
  BY <1>1, <1>2 DEF Tails
<1>4. Drop(q[p], 0) = q[p]
  BY DropNone
<1> QED  BY <1>1, <1>3, <1>4 DEF Left, Remaining

(* Behind the last sequence nothing is left.                               *)
LEMMA TailsEnd ==
    ASSUME NEW S, NEW n \in Nat, NEW q, NEW x, Left(q, n, S, n + 1, x)
    PROVE  x = <<>>
BY DEF Left, Tails

-----------------------------------------------------------------------------
(* Row and column of a place counted row by row.                           *)
LEMMA Spot ==
    ASSUME NEW W \in Nat \ {0}, NEW r \in Nat, NEW c \in 0 .. W - 1
    PROVE  (r * W + c) \div W = r /\ (r * W + c) % W = c
OBVIOUS

(* Where the next row begins.                                              *)
LEMMA NextRow ==
    ASSUME NEW W \in Nat \ {0}, NEW r \in Nat
    PROVE  (r + 1) * W + 0 = r * W + W /\ r * W \in Nat
OBVIOUS

(* A place in the plane comes before the plane's end.                      *)
LEMMA WithinRows ==
    ASSUME NEW W \in Nat \ {0}, NEW H \in Nat, NEW r \in 0 .. H - 1, NEW c \in 0 .. W - 1
    PROVE  r * W + c <= H * W
<1>1. (r + 1) * W <= H * W /\ (r + 1) * W = r * W + W
  OBVIOUS
<1> QED  BY <1>1

(* n places behind a are within k.                                         *)
LEMMA Upto ==
    ASSUME NEW a \in Nat, NEW n \in Nat, NEW k \in Nat, a + n <= k
    PROVE  \A i \in 1 .. n : a + i \in 1 .. k
OBVIOUS

(* One place more than k places behind a.                                  *)
LEMMA OneMore ==
    ASSUME NEW a \in Nat, NEW k \in Nat, NEW n \in Nat, a + k = n, NEW i \in 1 .. k + 1
    PROVE  /\ i = k + 1 => a + i = n + 1 /\ a + i - 1 = n
           /\ i # k + 1 => i \in 1 .. k /\ a + i \in 1 .. n
OBVIOUS

Run == [y : Nat, x : Nat, len : Nat]

(* A place between two instructions: row and column in the plane, copies   *)
(* and inserted blocks so far.                                             *)
Mark == [row : Nat, col : Nat, cps : Nat, inp : Nat]
Start == [row |-> 0, col |-> 0, cps |-> 0, inp |-> 0]

(* A mark is at a place of a row or behind the last row.                   *)
Stands(p, m) == \/ m.row < Height[p] /\ m.col < Width[p]
                \/ m.row = Height[p] /\ m.col = 0

(* Mark o is column w of m's row, or the next row when w is its end.       *)
Moves(p, m, w, o) == IF w = Width[p] THEN o.row = m.row + 1 /\ o.col = 0
                                     ELSE o.row = m.row /\ o.col = w

(* n blocks from the k-th of ins on are those of the target at r, c.       *)
Inserted(tg, p, ins, k, r, c, n) ==
    k + n <= Len(ins) /\ \A i \in 1 .. n : ins[k + i] = tg[<<p, r, c + i - 1>>]

(* The run at y, x of the base is that of the target at r, c.              *)
Copied(tg, bs, p, run, r, c) ==
    /\ run.len > 0 /\ c + run.len <= Width[p]
    /\ \A i \in 1 .. run.len : bs[<<p, run.y, run.x + i - 1>>] = tg[<<p, r, c + i - 1>>]

(* The instruction between m and o: n insertions, and a copy unless they   *)
(* fill the row.                                                           *)
Instruction(tg, bs, p, cp, ins, m, n, o) ==
    /\ m.row < Height[p] /\ m.col + n <= Width[p]
    /\ Inserted(tg, p, ins, m.inp, m.row, m.col, n)
    /\ o.inp = m.inp + n
    /\ IF m.col + n < Width[p]
       THEN /\ m.cps + 1 <= Len(cp) /\ o.cps = m.cps + 1
            /\ Copied(tg, bs, p, cp[m.cps + 1], m.row, m.col + n)
            /\ Moves(p, m, m.col + n + cp[m.cps + 1].len, o)
       ELSE o.cps = m.cps /\ Moves(p, m, Width[p], o)

(* s marks the places between the instructions of one plane's arrays.      *)
Script(tg, bs, p, s, il, cp, ins) ==
    /\ s \in [1 .. Len(il) + 1 -> Mark]
    /\ s[1] = Start
    /\ \A k \in 1 .. Len(il) + 1 : Stands(p, s[k])
    /\ \A k \in 1 .. Len(il) : Instruction(tg, bs, p, cp, ins, s[k], il[k], s[k + 1])

(* The encoder is at r, c with k insertions since the last mark m.         *)
AtEnd(tg, p, m, r, c, k, cp, ins) ==
    /\ \/ r < Height[p] /\ c <= Width[p]
       \/ r = Height[p] /\ c = 0
    /\ \/ m.row = r /\ m.col + k = c
       \/ m.row = r + 1 /\ m.col = 0 /\ c = Width[p] /\ k = 0
    /\ m.cps = Len(cp)
    /\ m.inp + k = Len(ins)
    /\ Inserted(tg, p, ins, m.inp, m.row, m.col, k)

(* The encoder follows the script s.                                       *)
Follow(tg, bs, p, s, r, c, k, il, cp, ins) ==
    Script(tg, bs, p, s, il, cp, ins) /\ AtEnd(tg, p, s[Len(il) + 1], r, c, k, cp, ins)

Encoded(tg, bs, p, r, c, k, il, cp, ins) == \E s : Follow(tg, bs, p, s, r, c, k, il, cp, ins)

(* A plane has at least one row and one column.                            *)
LEMMA Sizes == /\ NPlanes \in Nat \ {0}
               /\ \A p \in Planes : Height[p] \in Nat \ {0} /\ Width[p] \in Nat \ {0}
BY SizesAssumption

(* The decoder's rows are as long as the encoder's.                        *)
LEMMA SameRows == \A p \in Planes : Width[Stored(p)] = Width[p]
BY ColourAssumption

(* The empty script is that of a thread that has not begun.                *)
LEMMA EncodedFirst ==
    ASSUME NEW tg, NEW bs, NEW p \in Planes
    PROVE  Encoded(tg, bs, p, 0, 0, 0, <<>>, <<>>, <<>>)
<1> DEFINE s == [k \in 1 .. 1 |-> Start]
<1>1. Start \in Mark /\ Start.row = 0 /\ Start.col = 0 /\ Start.cps = 0 /\ Start.inp = 0
  BY DEF Start, Mark
<1>2. s \in [1 .. Len(<<>>) + 1 -> Mark] /\ s[1] = Start /\ s[Len(<<>>) + 1] = Start
      /\ Len(<<>>) = 0
  BY <1>1
<1>3. Stands(p, Start)
  BY <1>1, Sizes DEF Stands
<1>4. \A k \in 1 .. 1 : s[k] = Start
  OBVIOUS
<1> HIDE DEF s
<1>5. Script(tg, bs, p, s, <<>>, <<>>, <<>>)
  BY <1>2, <1>3, <1>4 DEF Script
<1>6. Inserted(tg, p, <<>>, 0, 0, 0, 0)
  BY <1>2 DEF Inserted
<1>7. AtEnd(tg, p, Start, 0, 0, 0, <<>>, <<>>)
  BY <1>1, <1>2, <1>6, Sizes DEF AtEnd
<1> QED  BY <1>2, <1>5, <1>7 DEF Follow, Encoded

(* An instruction stays what it is when copies and blocks are added.       *)
LEMMA ScriptKept ==
    ASSUME NEW tg, NEW bs, NEW p \in Planes, NEW s, NEW il \in Seq(Nat),
           NEW cp \in Seq(Run), NEW cq \in Seq(Run),
           NEW ins \in Seq(Block), NEW jns \in Seq(Block),
           Script(tg, bs, p, s, il, cp, ins),
           Len(cp) <= Len(cq), \A i \in 1 .. Len(cp) : cq[i] = cp[i],
           Len(ins) <= Len(jns), \A i \in 1 .. Len(ins) : jns[i] = ins[i]
    PROVE  Script(tg, bs, p, s, il, cq, jns)
<1> SUFFICES ASSUME NEW k \in 1 .. Len(il)
             PROVE  Instruction(tg, bs, p, cq, jns, s[k], il[k], s[k + 1])
  BY DEF Script
<1>1. s[k] \in Mark /\ il[k] \in Nat
  <2>1. k \in 1 .. Len(il) + 1
    BY LenProperties
  <2> QED  BY <2>1, ElementOfSeq DEF Script
<1>2. PICK m \in Mark, n \in Nat : m = s[k] /\ n = il[k]
  BY <1>1
<1> DEFINE o == s[k + 1]
<1> HIDE DEF o
<1>3. Instruction(tg, bs, p, cp, ins, m, n, o)
  BY <1>2 DEF Script, o
<1>4. m.row \in Nat /\ m.col \in Nat /\ m.cps \in Nat /\ m.inp \in Nat
  BY DEF Mark
<1>5. Len(cp) \in Nat /\ Len(cq) \in Nat /\ Len(ins) \in Nat /\ Len(jns) \in Nat
  BY LenProperties
<1>6. Inserted(tg, p, jns, m.inp, m.row, m.col, n)
  <2>1. m.inp + n <= Len(ins) /\ \A i \in 1 .. n : ins[m.inp + i] = tg[<<p, m.row, m.col + i - 1>>]
    BY <1>3 DEF Instruction, Inserted
  <2>2. m.inp + n <= Len(ins) /\ m.inp + n <= Len(jns)
    BY <2>1, <1>4, <1>5
  <2>3. \A i \in 1 .. n : m.inp + i \in 1 .. Len(ins)
    BY ONLY <2>2, <1>4, <1>5, n \in Nat, Upto
  <2>4. \A i \in 1 .. n : jns[m.inp + i] = tg[<<p, m.row, m.col + i - 1>>]
    BY <2>1, <2>3
  <2> QED  BY <2>2, <2>4 DEF Inserted
<1>7. m.col + n < Width[p] => m.cps + 1 <= Len(cq) /\ cq[m.cps + 1] = cp[m.cps + 1]
  <2> SUFFICES ASSUME m.col + n < Width[p]
               PROVE  m.cps + 1 <= Len(cq) /\ cq[m.cps + 1] = cp[m.cps + 1]
    OBVIOUS
  <2>1. m.cps + 1 <= Len(cp)
    BY <1>3 DEF Instruction
  <2>2. m.cps + 1 \in 1 .. Len(cp) /\ m.cps + 1 <= Len(cq)
    <3>1. PICK a \in Nat, l \in Nat : a = m.cps /\ l = Len(cp)
      BY ONLY <1>4, <1>5
    <3>2. a + 1 <= l /\ l <= Len(cq)
      BY ONLY <3>1, <2>1, Len(cp) <= Len(cq)
    <3>3. a + 1 \in 1 .. l /\ a + 1 <= Len(cq)
      BY ONLY <3>2, <1>5, a \in Nat, l \in Nat
    <3> QED  BY ONLY <3>1, <3>3
  <2> QED  BY <2>2
<1>8. Instruction(tg, bs, p, cq, jns, m, n, o)
  BY <1>3, <1>6, <1>7 DEF Instruction
<1> QED  BY <1>2, <1>8 DEF o

(* A script followed by one more instruction.                              *)
LEMMA ScriptMore ==
    ASSUME NEW tg, NEW bs, NEW p \in Planes, NEW s, NEW il \in Seq(Nat), NEW cp, NEW ins,
           Script(tg, bs, p, s, il, cp, ins),
           NEW n \in Nat, NEW o \in Mark, Stands(p, o),
           Instruction(tg, bs, p, cp, ins, s[Len(il) + 1], n, o)
    PROVE  \E t : /\ Script(tg, bs, p, t, Append(il, n), cp, ins)
                  /\ t[Len(Append(il, n)) + 1] = o
<1> DEFINE jl == Append(il, n)
           t == [k \in 1 .. Len(il) + 1 + 1 |-> IF k <= Len(il) + 1 THEN s[k] ELSE o]
<1>1. /\ Len(il) \in Nat /\ Len(jl) = Len(il) + 1
      /\ \A k \in 1 .. Len(il) : jl[k] = il[k]
      /\ jl[Len(il) + 1] = n
  BY AppendProperties, LenProperties
<1> HIDE DEF jl
<1>2. s \in [1 .. Len(il) + 1 -> Mark]
  BY DEF Script
<1>3. t \in [1 .. Len(jl) + 1 -> Mark]
  BY <1>1, <1>2
<1>4. /\ \A k \in 1 .. Len(il) + 1 : t[k] = s[k]
      /\ t[Len(il) + 1 + 1] = o
  BY <1>1
<1> HIDE DEF t
<1>5. t[1] = Start
  <2>1. 1 \in 1 .. Len(il) + 1
    BY <1>1
  <2> QED  BY <2>1, <1>4 DEF Script
<1>6. ASSUME NEW k \in 1 .. Len(jl) + 1 PROVE Stands(p, t[k])
  <2>1. CASE k = Len(il) + 1 + 1
    BY <2>1, <1>4
  <2>2. CASE k # Len(il) + 1 + 1
    <3>1. k \in 1 .. Len(il) + 1
      BY <2>2, <1>1
    <3> QED  BY <3>1, <1>4 DEF Script
  <2> QED  BY <2>1, <2>2
<1>7. ASSUME NEW k \in 1 .. Len(jl) PROVE Instruction(tg, bs, p, cp, ins, t[k], jl[k], t[k + 1])
  <2>1. CASE k = Len(il) + 1
    BY <2>1, <1>1, <1>4
  <2>2. CASE k # Len(il) + 1
    <3>1. k \in 1 .. Len(il) /\ k \in 1 .. Len(il) + 1 /\ k + 1 \in 1 .. Len(il) + 1
      BY <2>2, <1>1
    <3>2. t[k] = s[k] /\ t[k + 1] = s[k + 1] /\ jl[k] = il[k]
      BY <3>1, <1>1, <1>4
    <3>3. Instruction(tg, bs, p, cp, ins, s[k], il[k], s[k + 1])
      BY <3>1 DEF Script
    <3> QED  BY <3>2, <3>3
  <2> QED  BY <2>1, <2>2
<1>8. Script(tg, bs, p, t, jl, cp, ins)
  BY <1>3, <1>5, <1>6, <1>7 DEF Script
<1> QED  BY <1>1, <1>4, <1>8 DEF jl

(* An inserted block is one more that waits for its instruction.           *)
LEMMA EncodedInsert ==
    ASSUME NEW tg, NEW bs, NEW p \in Planes, NEW r \in Nat, NEW c \in Nat, NEW k \in Nat,
           NEW il \in Seq(Nat), NEW cp \in Seq(Run), NEW ins \in Seq(Block),
           tg[<<p, r, c>>] \in Block,
           Encoded(tg, bs, p, r, c, k, il, cp, ins), r < Height[p], c < Width[p]
    PROVE  Encoded(tg, bs, p, r, c + 1, k + 1, il, cp, Append(ins, tg[<<p, r, c>>]))
<1>1. PICK s : Follow(tg, bs, p, s, r, c, k, il, cp, ins)
  BY DEF Encoded
<1>2. PICK m : m = s[Len(il) + 1]
  OBVIOUS
<1> DEFINE jns == Append(ins, tg[<<p, r, c>>])
<1>3. /\ jns \in Seq(Block) /\ Len(ins) \in Nat /\ Len(jns) = Len(ins) + 1
      /\ \A i \in 1 .. Len(ins) : jns[i] = ins[i]
      /\ jns[Len(ins) + 1] = tg[<<p, r, c>>]
  BY AppendProperties, LenProperties
<1> HIDE DEF jns
<1>4. m \in Mark /\ m.col \in Nat /\ m.inp \in Nat /\ m.row \in Nat
  <2>1. Len(il) + 1 \in 1 .. Len(il) + 1
    BY LenProperties
  <2> QED  BY <2>1, <1>1, <1>2 DEF Follow, Script, Mark
<1>5. AtEnd(tg, p, m, r, c, k, cp, ins)
  BY <1>1, <1>2 DEF Follow
<1>6. m.row = r /\ m.col + k = c
  BY <1>5 DEF AtEnd
<1>7. Script(tg, bs, p, s, il, cp, jns)
  <2>1. Script(tg, bs, p, s, il, cp, ins)
    BY <1>1 DEF Follow
  <2>2. \A i \in 1 .. Len(cp) : cp[i] = cp[i]
    OBVIOUS
  <2>3. Len(cp) <= Len(cp) /\ Len(ins) <= Len(jns)
    BY <1>3, LenProperties
  <2> QED  BY ONLY <2>1, <2>2, <2>3, <1>3, ScriptKept, p \in Planes, il \in Seq(Nat),
                   cp \in Seq(Run), ins \in Seq(Block)
<1>8. Inserted(tg, p, jns, m.inp, m.row, m.col, k + 1)
  <2>1. m.inp + k = Len(ins) /\ \A i \in 1 .. k : ins[m.inp + i] = tg[<<p, m.row, m.col + i - 1>>]
    BY <1>5 DEF AtEnd, Inserted
  <2>2. m.inp + (k + 1) <= Len(jns) /\ m.inp + k = Len(ins) /\ k + 1 \in Nat
    <3>1. PICK a \in Nat, l \in Nat : a = m.inp /\ l = Len(ins)
      BY ONLY <1>3, <1>4
    <3>2. a + k = l /\ Len(jns) = l + 1
      BY ONLY <3>1, <2>1, <1>3
    <3>3. a + (k + 1) <= l + 1 /\ k + 1 \in Nat
      BY ONLY <3>2, a \in Nat, k \in Nat, l \in Nat
    <3> QED  BY ONLY <3>1, <3>2, <3>3
  <2>3. ASSUME NEW i \in 1 .. k + 1 PROVE jns[m.inp + i] = tg[<<p, m.row, m.col + i - 1>>]
    <3>1. CASE i = k + 1
      <4>1. m.inp + i = Len(ins) + 1 /\ m.col + i - 1 = c
        <5>1. m.inp + i = Len(ins) + 1
          <6>1. PICK a \in Nat, l \in Nat : a = m.inp /\ l = Len(ins)
            BY ONLY <1>3, <1>4
          <6>2. a + k = l
            BY ONLY <6>1, <2>2
          <6>3. a + i = l + 1
            BY ONLY <6>2, <3>1, a \in Nat, k \in Nat, l \in Nat
          <6> QED  BY ONLY <6>1, <6>3
        <5>2. m.col + i - 1 = c
          <6>1. PICK a \in Nat : a = m.col
            BY ONLY <1>4
          <6>2. a + k = c
            BY ONLY <6>1, <1>6
          <6>3. a + i - 1 = c
            BY ONLY <6>2, <3>1, a \in Nat, k \in Nat, c \in Nat
          <6> QED  BY ONLY <6>1, <6>3
        <5> QED  BY <5>1, <5>2
      <4> QED  BY <4>1, <1>3, <1>6
    <3>2. CASE i # k + 1
      <4>1. i \in 1 .. k /\ m.inp + i \in 1 .. Len(ins)
        BY ONLY <3>2, <2>2, <1>3, <1>4, k \in Nat, i \in 1 .. k + 1, OneMore
      <4> QED  BY <4>1, <2>1, <1>3
    <3> QED  BY <3>1, <3>2
  <2> QED  BY <2>2, <2>3 DEF Inserted
<1>9. AtEnd(tg, p, m, r, c + 1, k + 1, cp, jns)
  <2>1. m.inp + (k + 1) = Len(jns) /\ m.cps = Len(cp)
    <3>1. m.inp + k = Len(ins) /\ m.cps = Len(cp)
      BY <1>5 DEF AtEnd
    <3>2. PICK a \in Nat, l \in Nat, j \in Nat : a = m.inp /\ l = Len(ins) /\ j = Len(jns)
      BY <1>3, <1>4
    <3>3. a + k = l /\ j = l + 1
      BY ONLY <1>3, <3>1, <3>2
    <3>4. a + (k + 1) = j
      BY ONLY <3>3, a \in Nat, k \in Nat, l \in Nat
    <3> QED  BY ONLY <3>1, <3>2, <3>4
  <2>2. m.col + (k + 1) = c + 1 /\ c + 1 <= Width[p]
    <3>1. \A a, b, d \in Nat : a + b = d => a + (b + 1) = d + 1
      OBVIOUS
    <3>2. m.col + (k + 1) = c + 1
      BY ONLY <3>1, <1>4, <1>6, k \in Nat, c \in Nat
    <3>3. c + 1 <= Width[p]
      BY Sizes
    <3> QED  BY <3>2, <3>3
  <2> QED  BY <2>1, <2>2, <1>6, <1>8 DEF AtEnd
<1> QED  BY <1>2, <1>7, <1>9 DEF Follow, Encoded, jns

(* A copy ends an instruction, with the blocks that waited.                *)
LEMMA EncodedCopy ==
    ASSUME NEW tg, NEW bs, NEW p \in Planes, NEW r \in Nat, NEW c \in Nat, NEW k \in Nat,
           NEW il \in Seq(Nat), NEW cp \in Seq(Run), NEW ins \in Seq(Block),
           Encoded(tg, bs, p, r, c, k, il, cp, ins), r < Height[p], c < Width[p],
           NEW run \in Run, Copied(tg, bs, p, run, r, c)
    PROVE  Encoded(tg, bs, p, r, c + run.len, 0, Append(il, k), Append(cp, run), ins)
<1>1. PICK s : Follow(tg, bs, p, s, r, c, k, il, cp, ins)
  BY DEF Encoded
<1>2. PICK m : m = s[Len(il) + 1]
  OBVIOUS
<1> DEFINE cq == Append(cp, run)
<1>3. /\ cq \in Seq(Run) /\ Len(cp) \in Nat /\ Len(cq) = Len(cp) + 1
      /\ \A i \in 1 .. Len(cp) : cq[i] = cp[i]
      /\ cq[Len(cp) + 1] = run
  BY AppendProperties, LenProperties
<1> HIDE DEF cq
<1>4. m \in Mark /\ m.col \in Nat /\ m.inp \in Nat /\ m.row \in Nat /\ m.cps \in Nat
  <2>1. Len(il) + 1 \in 1 .. Len(il) + 1
    BY LenProperties
  <2> QED  BY <2>1, <1>1, <1>2 DEF Follow, Script, Mark
<1>5. AtEnd(tg, p, m, r, c, k, cp, ins)
  BY <1>1, <1>2 DEF Follow
<1>6. m.row = r /\ m.col + k = c /\ m.cps = Len(cp) /\ m.inp + k = Len(ins)
      /\ Inserted(tg, p, ins, m.inp, m.row, m.col, k)
  BY <1>5 DEF AtEnd
<1>7. Script(tg, bs, p, s, il, cq, ins)
  <2>1. Len(ins) <= Len(ins) /\ Len(cp) <= Len(cq)
    BY <1>3, LenProperties
  <2> QED  BY <2>1, <1>1, <1>3, ScriptKept DEF Follow
<1>8. run.len \in Nat /\ run.len > 0 /\ c + run.len <= Width[p] /\ Width[p] \in Nat
      /\ Height[p] \in Nat
  BY Sizes DEF Copied, Run
<1> DEFINE whole == c + run.len = Width[p]
           o == [row |-> IF whole THEN r + 1 ELSE r, col |-> IF whole THEN 0 ELSE c + run.len,
                 cps |-> Len(cp) + 1, inp |-> m.inp + k]
<1>9. /\ o \in Mark
      /\ o.row = (IF whole THEN r + 1 ELSE r)
      /\ o.col = (IF whole THEN 0 ELSE c + run.len)
      /\ o.cps = Len(cp) + 1 /\ o.inp = m.inp + k
  <2>1. (IF whole THEN r + 1 ELSE r) \in Nat
    OBVIOUS
  <2>2. (IF whole THEN 0 ELSE c + run.len) \in Nat
    BY <1>8
  <2>3. Len(cp) + 1 \in Nat /\ m.inp + k \in Nat
    BY <1>3, <1>4
  <2> HIDE DEF whole
  <2> QED  BY <2>1, <2>2, <2>3 DEF Mark
<1> HIDE DEF o
<1>10. Stands(p, o)
  <2>1. CASE whole
    <3>1. o.row = r + 1 /\ o.col = 0
      BY <2>1, <1>9
    <3>2. r + 1 < Height[p] \/ r + 1 = Height[p]
      BY <1>8
    <3> QED  BY <3>1, <3>2, Sizes DEF Stands
  <2>2. CASE ~whole
    <3>1. o.row = r /\ o.col = c + run.len
      BY <2>2, <1>9
    <3>2. c + run.len < Width[p]
      <4>1. \A a, b \in Nat : a <= b /\ a # b => a < b
        OBVIOUS
      <4>2. c + run.len \in Nat
        BY <1>8
      <4> QED  BY <2>2, <1>8, <4>1, <4>2
    <3> QED  BY <3>1, <3>2 DEF Stands
  <2> QED  BY <2>1, <2>2
<1>11. Instruction(tg, bs, p, cq, ins, m, k, o)
  <2>1. m.row < Height[p] /\ m.col + k <= Width[p] /\ m.col + k < Width[p]
    BY <1>6, <1>8
  <2>2. m.cps + 1 <= Len(cq) /\ o.cps = m.cps + 1 /\ cq[m.cps + 1] = run
    BY <1>3, <1>6, <1>9
  <2>3. Moves(p, m, m.col + k + run.len, o)
    BY <1>6, <1>9 DEF Moves
  <2>4. Copied(tg, bs, p, run, m.row, m.col + k)
    BY <1>6
  <2> QED  BY <2>1, <2>2, <2>3, <2>4, <1>6, <1>9 DEF Instruction
<1>12. PICK t : /\ Script(tg, bs, p, t, Append(il, k), cq, ins)
                /\ t[Len(Append(il, k)) + 1] = o
  <2>1. Instruction(tg, bs, p, cq, ins, s[Len(il) + 1], k, o) /\ o \in Mark
    BY <1>2, <1>9, <1>11
  <2> QED  BY ONLY <2>1, <1>7, <1>10, ScriptMore, p \in Planes, il \in Seq(Nat), k \in Nat
<1>13. AtEnd(tg, p, o, r, c + run.len, 0, cq, ins)
  <2>1. \/ o.row = r /\ o.col + 0 = c + run.len
        \/ o.row = r + 1 /\ o.col = 0 /\ c + run.len = Width[p]
    BY <1>8, <1>9
  <2>2. o.inp + 0 = Len(ins) /\ o.cps = Len(cq)
    BY <1>3, <1>4, <1>6, <1>9
  <2>3. Inserted(tg, p, ins, o.inp, o.row, o.col, 0)
    BY <2>2, LenProperties DEF Inserted
  <2> QED  BY <2>1, <2>2, <2>3, <1>8 DEF AtEnd
<1> QED  BY <1>12, <1>13 DEF Follow, Encoded, cq

(* A row's end is an instruction without a copy, or none.                  *)
LEMMA EncodedEndRow ==
    ASSUME NEW tg, NEW bs, NEW p \in Planes, NEW r \in Nat, NEW c \in Nat, NEW k \in Nat,
           NEW il \in Seq(Nat), NEW cp \in Seq(Run), NEW ins \in Seq(Block),
           Encoded(tg, bs, p, r, c, k, il, cp, ins), r < Height[p], c = Width[p]
    PROVE  /\ k = 0 => Encoded(tg, bs, p, r + 1, 0, 0, il, cp, ins)
           /\ k > 0 => Encoded(tg, bs, p, r + 1, 0, 0, Append(il, k), cp, ins)
<1>1. PICK s : Follow(tg, bs, p, s, r, c, k, il, cp, ins)
  BY DEF Encoded
<1>2. PICK m : m = s[Len(il) + 1]
  OBVIOUS
<1>3. Len(il) + 1 \in 1 .. Len(il) + 1
  BY LenProperties
<1>4. m \in Mark /\ m.col \in Nat /\ m.inp \in Nat /\ m.row \in Nat /\ m.cps \in Nat
  BY <1>1, <1>2, <1>3 DEF Follow, Script, Mark
<1>5. AtEnd(tg, p, m, r, c, k, cp, ins)
  BY <1>1, <1>2 DEF Follow
<1>6. m.cps = Len(cp) /\ m.inp + k = Len(ins)
      /\ Inserted(tg, p, ins, m.inp, m.row, m.col, k)
  BY <1>5 DEF AtEnd
<1>7. Script(tg, bs, p, s, il, cp, ins)
  BY <1>1 DEF Follow
<1>8. Width[p] \in Nat \ {0} /\ Height[p] \in Nat /\ (r + 1 < Height[p] \/ r + 1 = Height[p])
  BY Sizes
<1>9. Stands(p, m)
  BY <1>2, <1>3, <1>7 DEF Script
<1>10. ASSUME k = 0 PROVE Encoded(tg, bs, p, r + 1, 0, 0, il, cp, ins)
  <2>1. m.row = r + 1 /\ m.col = 0
    <3>1. m.col # Width[p]
      BY <1>8, <1>9, <1>4 DEF Stands
    <3>2. \/ m.row = r /\ m.col + k = c
          \/ m.row = r + 1 /\ m.col = 0
      BY <1>5 DEF AtEnd
    <3>3. m.col + k = m.col
      BY <1>4, <1>10
    <3> QED  BY <3>1, <3>2, <3>3
  <2>2. AtEnd(tg, p, m, r + 1, 0, 0, cp, ins)
    BY <2>1, <1>6, <1>8, <1>10 DEF AtEnd
  <2> QED  BY <2>2, <1>2, <1>7 DEF Follow, Encoded
<1>11. ASSUME k > 0 PROVE Encoded(tg, bs, p, r + 1, 0, 0, Append(il, k), cp, ins)
  <2>1. m.row = r /\ m.col + k = Width[p]
    BY <1>11, <1>5 DEF AtEnd
  <2> DEFINE o == [row |-> r + 1, col |-> 0, cps |-> Len(cp), inp |-> Len(ins)]
  <2>2. o \in Mark /\ o.row = r + 1 /\ o.col = 0 /\ o.cps = Len(cp) /\ o.inp = Len(ins)
    BY LenProperties DEF Mark
  <2> HIDE DEF o
  <2>3. Stands(p, o)
    BY <2>2, <1>8 DEF Stands
  <2>4. Instruction(tg, bs, p, cp, ins, m, k, o)
    <3>1. m.row < Height[p] /\ m.col + k <= Width[p] /\ ~(m.col + k < Width[p])
      BY <2>1, <1>8
    <3>2. Moves(p, m, Width[p], o)
      BY <2>1, <2>2 DEF Moves
    <3> QED  BY <3>1, <3>2, <2>2, <1>6 DEF Instruction
  <2>5. PICK t : /\ Script(tg, bs, p, t, Append(il, k), cp, ins)
                 /\ t[Len(Append(il, k)) + 1] = o
    <3>1. Instruction(tg, bs, p, cp, ins, s[Len(il) + 1], k, o) /\ o \in Mark
      BY <2>2, <2>4, <1>2
    <3> QED  BY ONLY <3>1, <2>3, <1>7, ScriptMore, p \in Planes, il \in Seq(Nat), k \in Nat
  <2>6. Inserted(tg, p, ins, o.inp, o.row, o.col, 0)
    BY <2>2, LenProperties DEF Inserted
  <2>7. o.inp + 0 = Len(ins)
    BY <2>2, LenProperties
  <2>8. AtEnd(tg, p, o, r + 1, 0, 0, cp, ins)
    BY <2>2, <2>6, <2>7, <1>8 DEF AtEnd
  <2> QED  BY <2>5, <2>8 DEF Follow, Encoded
<1> QED  BY <1>10, <1>11

-----------------------------------------------------------------------------
(* The first n blocks read back of a plane are those of the target.        *)
Placed(tg, p, o, n) ==
    /\ o \in Seq(Block) /\ Len(o) = n
    /\ \A i \in 0 .. n - 1 : o[i + 1] = tg[<<p, i \div Width[p], i % Width[p]>>]

(* Before anything is read nothing is placed.                              *)
LEMMA PlacedNone == ASSUME NEW tg, NEW p PROVE Placed(tg, p, <<>>, 0)
BY DEF Placed

(* Blocks read along a row are placed where they belong.                   *)
LEMMA PlacedMore ==
    ASSUME NEW tg, NEW p \in Planes, NEW o, NEW r \in Nat, NEW c \in Nat, NEW n \in Nat,
           n = r * Width[p] + c, Placed(tg, p, o, n), c < Width[p],
           NEW q \in Seq(Block), c + Len(q) <= Width[p],
           \A i \in 1 .. Len(q) : q[i] = tg[<<p, r, c + i - 1>>]
    PROVE  Placed(tg, p, o \o q, n + Len(q))
<1>1. o \in Seq(Block) /\ Len(o) = n /\ Len(q) \in Nat /\ Width[p] \in Nat \ {0}
  BY LenProperties, Sizes DEF Placed
<1>2. PICK x : x = o \o q
  OBVIOUS
<1>3. x \in Seq(Block) /\ Joins(x, o, q)
  BY <1>1, <1>2, Joining
<1>4. Len(x) = n + Len(q)
  BY <1>1, <1>3 DEF Joins
<1>5. PICK l \in Nat, W \in Nat \ {0}, g \in Nat : l = Len(q) /\ W = Width[p] /\ g = r * Width[p]
  <2>1. r * Width[p] \in Nat
    BY <1>1, NextRow
  <2> QED  BY ONLY <2>1, <1>1
<1>6. n = g + c /\ c < W /\ c + l <= W
  BY <1>5
<1>7. ASSUME NEW i \in 0 .. n + l - 1
      PROVE  x[i + 1] = tg[<<p, i \div W, i % W>>]
  <2>1. i + 1 \in 1 .. n + l /\ i \in Nat
    OBVIOUS
  <2>2. x[i + 1] = IF i + 1 <= n THEN o[i + 1] ELSE q[i + 1 - n]
    <3>1. \A h \in 1 .. Len(x) : x[h] = IF h <= Len(o) THEN o[h] ELSE q[h - Len(o)]
      BY <1>3 DEF Joins
    <3>2. Len(x) = n + l /\ Len(o) = n
      BY <1>1, <1>4, <1>5
    <3>3. PICK h : h = i + 1
      OBVIOUS
    <3>4. h \in 1 .. Len(x)
      BY <2>1, <3>2, <3>3
    <3> QED  BY ONLY <3>1, <3>2, <3>3, <3>4
  <2>3. CASE i < n
    <3>1. i \in 0 .. n - 1 /\ i + 1 <= n
      BY <2>3, <2>1
    <3> QED  BY <3>1, <2>2, <1>5 DEF Placed
  <2>4. CASE ~(i < n)
    <3>1. PICK j : j = i + 1 - n
      OBVIOUS
    <3>2. j \in 1 .. l /\ ~(i + 1 <= n) /\ c + j - 1 \in 0 .. W - 1
      BY ONLY <2>1, <2>4, <3>1, <1>6, n \in Nat, l \in Nat, c \in Nat, W \in Nat
    <3>3. i = g + (c + j - 1)
      BY ONLY <2>1, <3>1, <1>6, n \in Nat, c \in Nat, g \in Nat
    <3>4. i \div W = r /\ i % W = c + j - 1
      <4>1. i = r * W + (c + j - 1)
        BY ONLY <3>3, <1>5
      <4> QED  BY ONLY <4>1, <3>2, Spot, r \in Nat, W \in Nat \ {0}
    <3>5. x[i + 1] = q[j]
      BY <2>2, <3>1, <3>2
    <3>6. q[j] = tg[<<p, r, c + j - 1>>]
      BY <3>2, <1>5
    <3> QED  BY <3>4, <3>5, <3>6
  <2> QED  BY <2>3, <2>4
<1>8. \A i \in 0 .. n + Len(q) - 1 : x[i + 1] = tg[<<p, i \div Width[p], i % Width[p]>>]
  BY ONLY <1>5, <1>7
<1>9. Placed(tg, p, x, n + Len(q))
  BY ONLY <1>3, <1>4, <1>8 DEF Placed
<1> QED  BY <1>2, <1>9

(* The blocks an instruction inserts, and those it copies.                 *)
Insertion(ins, k, n) == [i \in 1 .. n |-> ins[k + i]]
CopyOf(bs, p, cp, m, n) ==
    IF m.col + n < Width[p]
    THEN [i \in 1 .. cp[m.cps + 1].len |-> bs[<<p, cp[m.cps + 1].y, cp[m.cps + 1].x + i - 1>>]]
    ELSE <<>>

InBlocks(tg, p) ==
    \A r \in 0 .. Height[p] - 1, c \in 0 .. Width[p] - 1 : tg[<<p, r, c>>] \in Block

(* One instruction is decoded: b is there before, o is where it ends.      *)
Executes(tg, bs, p, cp, ins, m, n, o, b, placed, run) ==
    /\ Instruction(tg, bs, p, cp, ins, m, n, o) /\ Stands(p, m)
    /\ Placed(tg, p, b, m.row * Width[p] + m.col)
    /\ placed = Insertion(ins, m.inp, n)
    /\ run = CopyOf(bs, p, cp, m, n)

Arrives(tg, p, m, n, o, b, placed, run) ==
    /\ Placed(tg, p, b \o placed \o run, o.row * Width[p] + o.col)
    /\ o.col = IF m.col + n + Len(run) = Width[p] THEN 0 ELSE m.col + n + Len(run)

(* What Decode does with one instruction.                                  *)
LEMMA Decoded ==
    ASSUME NEW tg, NEW bs, NEW p \in Planes, InBlocks(tg, p),
           NEW cp \in Seq(Run), NEW ins, NEW m \in Mark, NEW n \in Nat, NEW o \in Mark,
           NEW b, NEW placed, NEW run,
           Executes(tg, bs, p, cp, ins, m, n, o, b, placed, run)
    PROVE  Arrives(tg, p, m, n, o, b, placed, run)
<1> USE DEF Executes, Arrives
<1>1. PICK r \in Nat, c \in Nat, k \in Nat, h \in Nat :
          r = m.row /\ c = m.col /\ k = m.inp /\ h = m.cps
  BY DEF Mark
<1>2. Width[p] \in Nat \ {0} /\ Height[p] \in Nat \ {0}
  BY Sizes
<1>3. r < Height[p] /\ c + n <= Width[p] /\ c < Width[p] /\ r \in 0 .. Height[p] - 1
  <2>1. r < Height[p] /\ c + n <= Width[p]
    BY <1>1 DEF Instruction
  <2>2. c < Width[p]
    BY <2>1, <1>1 DEF Stands
  <2>3. r \in 0 .. Height[p] - 1
    BY ONLY <2>1, <1>2, r \in Nat
  <2> QED  BY <2>1, <2>2, <2>3
<1>4. \A i \in 1 .. n : placed[i] = tg[<<p, r, c + i - 1>>]
  BY <1>1 DEF Instruction, Inserted, Insertion
<1>5. \A i \in 1 .. n : placed[i] \in Block
  <2> SUFFICES ASSUME NEW i \in 1 .. n PROVE placed[i] \in Block
    OBVIOUS
  <2>1. c + i - 1 \in 0 .. Width[p] - 1
    BY <1>2, <1>3
  <2> QED  BY <2>1, <1>3, <1>4 DEF InBlocks
<1>6. placed \in Seq(Block) /\ Len(placed) = n
  <2>1. placed \in [1 .. n -> Block]
    BY <1>5 DEF Insertion
  <2> QED  BY <2>1
<1>7. PICK g \in Nat : g = r * Width[p]
  BY <1>2
<1>8. Placed(tg, p, b \o placed, g + c + n)
  <2>1. Placed(tg, p, b, g + c) /\ g + c \in Nat
    BY <1>1, <1>7
  <2>2. g + c = r * Width[p] + c
    BY <1>7
  <2>3. \A i \in 1 .. Len(placed) : placed[i] = tg[<<p, r, c + i - 1>>]
    BY <1>4, <1>6
  <2>4. c + Len(placed) <= Width[p]
    BY <1>3, <1>6
  <2>5. Placed(tg, p, b \o placed, g + c + Len(placed))
    BY ONLY <2>1, <2>2, <2>3, <2>4, <1>3, <1>6, PlacedMore, p \in Planes, r \in Nat, c \in Nat
  <2> QED  BY <2>5, <1>6
<1>9. CASE m.col + n < Width[p]
  <2>1. PICK w : w = cp[m.cps + 1]
    OBVIOUS
  <2>2. Copied(tg, bs, p, w, r, c + n) /\ Moves(p, m, c + n + w.len, o) /\ h + 1 <= Len(cp)
    BY <2>1, <1>1, <1>9 DEF Instruction
  <2>3. w \in Run
    <3>1. h + 1 \in 1 .. Len(cp)
      BY <2>2, LenProperties
    <3> QED  BY <3>1, <2>1, <1>1, ElementOfSeq
  <2>4. PICK l \in Nat : l = w.len
    BY <2>3 DEF Run
  <2>5. l > 0 /\ c + n + l <= Width[p]
        /\ \A i \in 1 .. l : bs[<<p, w.y, w.x + i - 1>>] = tg[<<p, r, c + n + i - 1>>]
    BY <2>2, <2>4 DEF Copied
  <2>6. run = [i \in 1 .. l |-> bs[<<p, w.y, w.x + i - 1>>]]
    BY <2>1, <2>4, <1>9 DEF CopyOf
  <2>7. \A i \in 1 .. l : run[i] = tg[<<p, r, c + n + i - 1>>]
    BY <2>5, <2>6
  <2>8. \A i \in 1 .. l : run[i] \in Block
    <3> SUFFICES ASSUME NEW i \in 1 .. l PROVE run[i] \in Block
      OBVIOUS
    <3>1. c + n + i - 1 \in 0 .. Width[p] - 1
      <4>1. PICK v \in Nat, e \in Nat : v = Width[p] /\ e = c + n
        BY ONLY <1>2, c \in Nat, n \in Nat
      <4>2. e + l <= v
        BY ONLY <4>1, <2>5
      <4>3. e + i - 1 \in 0 .. v - 1
        BY ONLY <4>2, e \in Nat, v \in Nat, l \in Nat, i \in 1 .. l
      <4> QED  BY ONLY <4>1, <4>3
    <3> QED  BY <3>1, <2>7, <1>3 DEF InBlocks
  <2>9. run \in Seq(Block) /\ Len(run) = l
    <3>1. run \in [1 .. l -> Block]
      BY <2>6, <2>8
    <3> QED  BY ONLY <3>1, l \in Nat
  <2>10. Placed(tg, p, b \o placed \o run, g + (c + n) + l)
    <3>1. g + (c + n) = r * Width[p] + (c + n) /\ g + (c + n) \in Nat /\ c + n \in Nat
      BY <1>7
    <3>2. Placed(tg, p, b \o placed, g + (c + n))
      <4>1. g + c + n = g + (c + n)
        OBVIOUS
      <4> QED  BY <4>1, <1>8
    <3>3. \A i \in 1 .. Len(run) : run[i] = tg[<<p, r, (c + n) + i - 1>>]
      BY <2>7, <2>9
    <3>4. (c + n) + Len(run) <= Width[p]
      BY <2>5, <2>9
    <3>5. c + n < Width[p]
      BY <1>1, <1>9
    <3>6. Placed(tg, p, (b \o placed) \o run, g + (c + n) + Len(run))
      BY ONLY <3>1, <3>2, <3>3, <3>4, <3>5, <2>9, PlacedMore, p \in Planes, r \in Nat
    <3> QED  BY <3>6, <2>9
  <2>11. m.col + n + Len(run) = c + n + l
    BY <1>1, <2>9
  <2>12. CASE c + n + l = Width[p]
    <3>1. o.row = r + 1 /\ o.col = 0
      BY <2>12, <2>2, <2>4, <1>1 DEF Moves
    <3>2. (r + 1) * Width[p] + 0 = g + (c + n) + l
      <4>1. (r + 1) * Width[p] + 0 = g + Width[p]
        BY <1>2, <1>7, NextRow
      <4> QED  BY ONLY <4>1, <2>12, g \in Nat, c \in Nat, n \in Nat, l \in Nat
    <3> QED  BY <3>1, <3>2, <2>10, <2>11, <2>12
  <2>13. CASE c + n + l # Width[p]
    <3>1. o.row = r /\ o.col = c + n + l
      BY <2>13, <2>2, <2>4, <1>1 DEF Moves
    <3>2. r * Width[p] + (c + n + l) = g + (c + n) + l
      BY ONLY <1>7, g \in Nat, c \in Nat, n \in Nat, l \in Nat
    <3> QED  BY <3>1, <3>2, <2>10, <2>11, <2>13
  <2> QED  BY <2>12, <2>13
<1>10. CASE ~(m.col + n < Width[p])
  <2>1. run = <<>> /\ Len(run) = 0
    BY <1>10 DEF CopyOf
  <2>2. c + n = Width[p]
    <3>1. PICK v \in Nat : v = Width[p]
      BY ONLY <1>2
    <3>2. ~(c + n < v) /\ c + n <= v
      BY ONLY <3>1, <1>1, <1>3, <1>10
    <3> QED  BY ONLY <3>1, <3>2, c \in Nat, n \in Nat, v \in Nat
  <2>3. o.row = r + 1 /\ o.col = 0
    BY <1>1, <1>10 DEF Instruction, Moves
  <2>4. (b \o placed) \o <<>> = b \o placed
    <3>1. b \o placed \in Seq(Block)
      BY <1>8 DEF Placed
    <3> QED  BY <3>1, ConcatEmptySeq
  <2>5. (r + 1) * Width[p] + 0 = g + c + n
    <3>1. (r + 1) * Width[p] + 0 = g + Width[p]
      BY <1>2, <1>7, NextRow
    <3> QED  BY ONLY <3>1, <2>2, g \in Nat, c \in Nat, n \in Nat
  <2>6. m.col + n + Len(run) = Width[p]
    BY <2>1, <2>2, <1>1
  <2> QED  BY <2>1, <2>3, <2>4, <2>5, <2>6, <1>8
<1> QED  BY <1>9, <1>10

(* Behind the last row everything has its instruction.                     *)
LEMMA AtLast ==
    ASSUME NEW tg, NEW p \in Planes, NEW m \in Mark, NEW r, NEW c, NEW k \in Nat,
           NEW cp, NEW ins, AtEnd(tg, p, m, r, c, k, cp, ins), r = Height[p]
    PROVE  /\ m.row = Height[p] /\ m.col = 0
           /\ m.cps = Len(cp) /\ m.inp = Len(ins)
<1>1. m.row \in Nat /\ m.col \in Nat /\ m.inp \in Nat
  BY DEF Mark
<1>2. c = 0 /\ m.row = Height[p] /\ m.col + k = 0
  BY Sizes DEF AtEnd
<1> QED  BY <1>1, <1>2 DEF AtEnd

-----------------------------------------------------------------------------
(* The target's block at a place, and the place's coordinates.             *)
LEMMA TargetPlace ==
    ASSUME target \in [TargetCells -> Block], NEW p \in Planes
    PROVE  InBlocks(target, p)
<1> SUFFICES ASSUME NEW r \in 0 .. Height[p] - 1, NEW c \in 0 .. Width[p] - 1
             PROVE  target[<<p, r, c>>] \in Block
  BY DEF InBlocks
<1>1. <<p, r, c>> \in Plane(Height, Width, p)
  BY DEF Plane
<1> QED  BY <1>1 DEF TargetCells

(* Match is the number of equal blocks from the two places on.             *)
LEMMA MatchChosen ==
    ASSUME NEW p \in Planes, at[p][2] \in Nat, at[p][2] < Width[p], NEW b
    PROVE  LET rest == Width[p] - at[p][2]
           IN  /\ Match(p, b) \in 0 .. rest
               /\ \A i \in 0 .. Match(p, b) - 1 : Same(p, b, i)
               /\ (Match(p, b) = rest) \/ ~Same(p, b, Match(p, b))
<1> DEFINE rest == Width[p] - at[p][2]
           Good(n) == /\ \A i \in 0 .. n - 1 : Same(p, b, i)
                      /\ n = rest \/ ~Same(p, b, n)
           S == {n \in 0 .. rest : n = rest \/ ~Same(p, b, n)}
<1>1. rest \in Nat
  BY Sizes
<1>2. rest \in S /\ S \subseteq Nat
  BY <1>1
<1> HIDE DEF rest
<1>3. PICK n \in S : \A k \in S : n <= k
  <2> HIDE DEF S
  <2> QED  BY <1>2, Least
<1>4. n \in 0 .. rest /\ (n = rest \/ ~Same(p, b, n))
  OBVIOUS
<1>5. ASSUME NEW i \in 0 .. n - 1 PROVE Same(p, b, i)
  <2>1. i \in 0 .. rest /\ i # rest /\ ~(n <= i)
    BY <1>1, <1>4
  <2>2. i \notin S
    BY <2>1, <1>3
  <2> QED  BY <2>1, <2>2
<1>6. \E k \in 0 .. rest : Good(k)
  BY <1>4, <1>5
<1>7. Match(p, b) = CHOOSE k \in 0 .. rest : Good(k)
  BY DEF Match, rest
<1> HIDE DEF Good
<1>8. Match(p, b) \in 0 .. rest /\ Good(Match(p, b))
  BY <1>6, <1>7
<1> QED  BY <1>8 DEF Good, rest

-----------------------------------------------------------------------------
(* The types of all variables.                                            *)
TypeInv == /\ target \in [TargetCells -> Block]
           /\ base \in [BaseCells -> Block]
           /\ key \in [BaseCells -> Key]
           /\ at \in [Planes -> Nat \X Nat]
           /\ inLen \in [Planes -> Nat]
           /\ inl \in [Planes -> Seq(Nat)]
           /\ cps \in [Planes -> Seq(Run)]
           /\ inp \in [Planes -> Seq(Block)]
           /\ merged \in 0 .. NPlanes
           /\ stream \in [inl : Seq(Nat), cps : Seq(Run), inp : Seq(Block)]
           /\ plane \in 1 .. NPlanes + 1
           /\ read \in Nat
           /\ ready \in Nat
           /\ out \in [Planes -> Seq(Block)]

(* The arrays of each plane are a script up to where its encoder thread    *)
(* is in the target.                                                       *)
EncoderInv == \A p \in Planes : Encoded(target, base, p, at[p][1], at[p][2], inLen[p],
                                        inl[p], cps[p], inp[p])

(* The reader has not begun.                                               *)
Idle == plane = 1 /\ read = 0 /\ ready = 0 /\ \A p \in Planes : out[p] = <<>>

(* Merging starts when all encoder threads are joined, and before it is    *)
(* done the stream is the arrays of the planes merged, all of them.        *)
MergeInv == /\ merged > 0 => \A p \in Planes : at[p][1] = Height[p]
            /\ merged < NPlanes => /\ Idle
                                   /\ Left(inl, merged, Nat, 1, stream.inl)
                                   /\ Left(cps, merged, Run, 1, stream.cps)
                                   /\ Left(inp, merged, Block, 1, stream.inp)

(* The reader stands at the mark behind the instructions it has read of    *)
(* plane p: it has their blocks, and the stream what comes behind them.    *)
Reading(p, s) ==
    /\ Follow(target, base, p, s, at[p][1], at[p][2], inLen[p], inl[p], cps[p], inp[p])
    /\ read <= Len(inl[p])
    /\ ready = s[read + 1].col
    /\ Placed(target, p, out[p], s[read + 1].row * Width[p] + s[read + 1].col)
    /\ Remaining(inl, NPlanes, Nat, p, read, stream.inl)
    /\ Remaining(cps, NPlanes, Run, p, s[read + 1].cps, stream.cps)
    /\ Remaining(inp, NPlanes, Block, p, s[read + 1].inp, stream.inp)

(* The arrays are used up.                                                 *)
Emptied == stream = [inl |-> <<>>, cps |-> <<>>, inp |-> <<>>]

(* Planes behind the reader are complete, those before it untouched.       *)
ReaderInv ==
    merged = NPlanes =>
        /\ \A p \in Planes : /\ p < plane => Placed(target, p, out[p], Height[p] * Width[p])
                             /\ p > plane => out[p] = <<>>
                             /\ p = plane => \E s : Reading(p, s)
        /\ plane > NPlanes => Emptied

(* The inductive invariant.                                                *)
Inv == TypeInv /\ EncoderInv /\ MergeInv /\ ReaderInv

(* The initial state has the types.                                        *)
LEMMA InitTypes == Init => TypeInv
<1> SUFFICES ASSUME Init PROVE TypeInv
  OBVIOUS
<1>1. NPlanes \in Nat \ {0}
  BY Sizes
<1>2. /\ [p \in Planes |-> <<0, 0>>] \in [Planes -> Nat \X Nat]
      /\ [p \in Planes |-> 0] \in [Planes -> Nat]
      /\ [p \in Planes |-> <<>>] \in [Planes -> Seq(Nat)]
      /\ [p \in Planes |-> <<>>] \in [Planes -> Seq(Run)]
      /\ [p \in Planes |-> <<>>] \in [Planes -> Seq(Block)]
  OBVIOUS
<1>3. [inl |-> <<>>, cps |-> <<>>, inp |-> <<>>]
         \in [inl : Seq(Nat), cps : Seq(Run), inp : Seq(Block)]
  OBVIOUS
<1>4. 0 \in 0 .. NPlanes /\ 1 \in 1 .. NPlanes + 1
  BY <1>1
<1> QED  BY <1>2, <1>3, <1>4 DEF Init, TypeInv

(* The invariant holds initially.                                          *)
LEMMA InitInv == Init => Inv
<1> SUFFICES ASSUME Init PROVE Inv
  OBVIOUS
<1>1. TypeInv
  BY InitTypes
<1>2. EncoderInv
  <2> SUFFICES ASSUME NEW p \in Planes
               PROVE  Encoded(target, base, p, at[p][1], at[p][2], inLen[p], inl[p], cps[p], inp[p])
    BY DEF EncoderInv
  <2>1. at[p][1] = 0 /\ at[p][2] = 0 /\ inLen[p] = 0 /\ inl[p] = <<>> /\ cps[p] = <<>> /\ inp[p] = <<>>
    BY DEF Init
  <2> QED  BY <2>1, EncodedFirst
<1>3. MergeInv
  <2>1. Idle
    BY DEF Init, Idle
  <2>2. stream.inl = <<>> /\ stream.cps = <<>> /\ stream.inp = <<>> /\ merged = 0
    BY DEF Init
  <2> QED  BY <2>1, <2>2, TailsNone DEF MergeInv
<1>4. ReaderInv
  BY Sizes DEF Init, ReaderInv
<1> QED  BY <1>1, <1>2, <1>3, <1>4 DEF Inv

(* While a thread has rows to do nothing has been merged.                  *)
LEMMA NothingMerged ==
    ASSUME Inv, NEW p \in Planes, at[p][1] < Height[p]
    PROVE  merged = 0 /\ merged < NPlanes /\ Idle
           /\ stream.inl = <<>> /\ stream.cps = <<>> /\ stream.inp = <<>>
<1>1. merged \in Nat /\ NPlanes \in Nat \ {0} /\ Height[p] \in Nat
  BY Sizes DEF Inv, TypeInv
<1>2. merged = 0 /\ merged < NPlanes
  BY <1>1 DEF Inv, MergeInv
<1>3. Left(inl, 0, Nat, 0 + 1, stream.inl) /\ Left(cps, 0, Run, 0 + 1, stream.cps)
      /\ Left(inp, 0, Block, 0 + 1, stream.inp)
  BY <1>2 DEF Inv, MergeInv
<1>4. 0 \in Nat
  OBVIOUS
<1>5. stream.inl = <<>>
  BY <1>3, <1>4, TailsEnd
<1>6. stream.cps = <<>>
  BY <1>3, <1>4, TailsEnd
<1>7. stream.inp = <<>>
  BY <1>3, <1>4, TailsEnd
<1> QED  BY <1>2, <1>5, <1>6, <1>7 DEF Inv, MergeInv

(* So what a thread does leaves that part of the invariant alone.          *)
LEMMA ThreadStep ==
    ASSUME Inv, NEW p \in Planes, at[p][1] < Height[p],
           UNCHANGED <<merged, stream, reader>>
    PROVE  MergeInv' /\ ReaderInv'
<1>1. merged = 0 /\ merged < NPlanes /\ Idle
      /\ stream.inl = <<>> /\ stream.cps = <<>> /\ stream.inp = <<>>
  BY NothingMerged
<1>2. merged' = 0 /\ merged' < NPlanes /\ merged' # NPlanes
      /\ stream'.inl = <<>> /\ stream'.cps = <<>> /\ stream'.inp = <<>>
  BY <1>1, Sizes
<1>3. Idle'
  BY <1>1 DEF Idle, reader
<1> QED  BY <1>2, <1>3, TailsNone DEF MergeInv, ReaderInv

(* It is enough to see to the script of the plane that moves.              *)
LEMMA EncoderStep ==
    ASSUME EncoderInv, TypeInv, NEW p \in Planes, UNCHANGED <<target, base>>,
           \A q \in Planes \ {p} : /\ at'[q] = at[q] /\ inLen'[q] = inLen[q] /\ inl'[q] = inl[q]
                                   /\ cps'[q] = cps[q] /\ inp'[q] = inp[q],
           Encoded(target, base, p, at'[p][1], at'[p][2], inLen'[p], inl'[p], cps'[p], inp'[p])
    PROVE  EncoderInv'
<1> SUFFICES ASSUME NEW q \in Planes
             PROVE  Encoded(target, base, q, at'[q][1], at'[q][2], inLen'[q], inl'[q], cps'[q], inp'[q])
  BY DEF EncoderInv
<1>1. CASE q = p
  BY <1>1
<1>2. CASE q # p
  BY <1>2 DEF EncoderInv
<1> QED  BY <1>1, <1>2

(* The types of one plane's variables.                                     *)
LEMMA CellTypes ==
    ASSUME TypeInv, NEW p \in Planes
    PROVE  /\ at[p][1] \in Nat /\ at[p][2] \in Nat /\ at[p] = <<at[p][1], at[p][2]>>
           /\ inLen[p] \in Nat /\ inl[p] \in Seq(Nat) /\ cps[p] \in Seq(Run) /\ inp[p] \in Seq(Block)
           /\ Height[p] \in Nat \ {0} /\ Width[p] \in Nat \ {0}
BY Sizes DEF TypeInv

(* The encoder's place is one of the target.                               *)
LEMMA HereInTarget ==
    ASSUME TypeInv, NEW p \in Planes, InRow(p)
    PROVE  target[Here(p)] \in Block /\ Here(p) = <<p, at[p][1], at[p][2]>>
<1>1. at[p][1] \in 0 .. Height[p] - 1 /\ at[p][2] \in 0 .. Width[p] - 1
  BY CellTypes DEF InRow
<1> QED  BY <1>1, TargetPlace DEF TypeInv, Here, InBlocks

(* Insert keeps the invariant.                                             *)
LEMMA InsertInv ==
    ASSUME Inv, NEW p \in Planes, Insert(p)
    PROVE  Inv'
<1>1. TypeInv /\ EncoderInv
  BY DEF Inv
<1>2. /\ at[p][1] \in Nat /\ at[p][2] \in Nat
      /\ inLen[p] \in Nat /\ inl[p] \in Seq(Nat) /\ cps[p] \in Seq(Run) /\ inp[p] \in Seq(Block)
  BY <1>1, CellTypes
<1>3. InRow(p) /\ target[Here(p)] \in Block /\ Here(p) = <<p, at[p][1], at[p][2]>>
  BY <1>1, HereInTarget DEF Insert
<1>4. at[p][1] < Height[p] /\ at[p][2] < Width[p]
  BY <1>3 DEF InRow
<1>5. /\ inp' = [inp EXCEPT ![p] = Append(inp[p], target[Here(p)])]
      /\ inLen' = [inLen EXCEPT ![p] = inLen[p] + 1]
      /\ at' = [at EXCEPT ![p] = <<at[p][1], at[p][2] + 1>>]
      /\ UNCHANGED <<target, base, key, inl, cps, merged, stream, plane, read, ready, out>>
  BY DEF Insert, images, reader
<1>6. TypeInv'
  <2>1. Append(inp[p], target[Here(p)]) \in Seq(Block)
        /\ inLen[p] + 1 \in Nat /\ <<at[p][1], at[p][2] + 1>> \in Nat \X Nat
    BY <1>2, <1>3, AppendProperties
  <2>2. /\ inp' \in [Planes -> Seq(Block)] /\ inLen' \in [Planes -> Nat]
        /\ at' \in [Planes -> Nat \X Nat]
    BY <1>1, <1>5, <2>1 DEF TypeInv
  <2> QED  BY <2>2, <1>1, <1>5 DEF TypeInv
<1>7. MergeInv' /\ ReaderInv'
  BY <1>4, <1>5, ThreadStep DEF reader
<1>8. EncoderInv'
  <2>1. Encoded(target, base, p, at[p][1], at[p][2], inLen[p], inl[p], cps[p], inp[p])
    BY <1>1 DEF EncoderInv
  <2>2. Encoded(target, base, p, at[p][1], at[p][2] + 1, inLen[p] + 1, inl[p], cps[p],
                Append(inp[p], target[<<p, at[p][1], at[p][2]>>]))
    BY <2>1, <1>2, <1>3, <1>4, EncodedInsert
  <2>3. /\ at'[p][1] = at[p][1] /\ at'[p][2] = at[p][2] + 1 /\ inLen'[p] = inLen[p] + 1
        /\ inl'[p] = inl[p] /\ cps'[p] = cps[p]
        /\ inp'[p] = Append(inp[p], target[<<p, at[p][1], at[p][2]>>])
    BY <1>1, <1>3, <1>5 DEF TypeInv
  <2>4. \A q \in Planes \ {p} : /\ at'[q] = at[q] /\ inLen'[q] = inLen[q] /\ inl'[q] = inl[q]
                                /\ cps'[q] = cps[q] /\ inp'[q] = inp[q]
    BY <1>1, <1>5 DEF TypeInv
  <2>5. Encoded(target, base, p, at'[p][1], at'[p][2], inLen'[p], inl'[p], cps'[p], inp'[p])
    BY <2>2, <2>3
  <2> QED  BY <2>4, <2>5, <1>1, <1>5, EncoderStep
<1> QED  BY <1>6, <1>7, <1>8 DEF Inv

(* EndRow keeps the invariant.                                             *)
LEMMA EndRowInv ==
    ASSUME Inv, NEW p \in Planes, EndRow(p)
    PROVE  Inv'
<1>1. TypeInv /\ EncoderInv
  BY DEF Inv
<1>2. /\ at[p][1] \in Nat /\ at[p][2] \in Nat
      /\ inLen[p] \in Nat /\ inl[p] \in Seq(Nat) /\ cps[p] \in Seq(Run) /\ inp[p] \in Seq(Block)
  BY <1>1, CellTypes
<1>3. at[p][1] < Height[p] /\ at[p][2] = Width[p]
  BY DEF EndRow
<1>4. /\ inl' = IF inLen[p] > 0 THEN [inl EXCEPT ![p] = Append(inl[p], inLen[p])] ELSE inl
      /\ inLen' = [inLen EXCEPT ![p] = 0]
      /\ at' = [at EXCEPT ![p] = <<at[p][1] + 1, 0>>]
      /\ UNCHANGED <<target, base, key, cps, inp, merged, stream, plane, read, ready, out>>
  BY DEF EndRow, images, reader
<1>5. inl' \in [Planes -> Seq(Nat)]
      /\ inl'[p] = (IF inLen[p] > 0 THEN Append(inl[p], inLen[p]) ELSE inl[p])
      /\ \A q \in Planes \ {p} : inl'[q] = inl[q]
  BY <1>1, <1>2, <1>4 DEF TypeInv
<1>6. TypeInv'
  <2>1. <<at[p][1] + 1, 0>> \in Nat \X Nat
    BY <1>2
  <2>2. inLen' \in [Planes -> Nat] /\ at' \in [Planes -> Nat \X Nat]
    BY <1>1, <1>4, <2>1 DEF TypeInv
  <2> QED  BY <2>2, <1>1, <1>4, <1>5 DEF TypeInv
<1>7. MergeInv' /\ ReaderInv'
  BY <1>3, <1>4, ThreadStep DEF reader
<1>8. EncoderInv'
  <2>1. Encoded(target, base, p, at[p][1], at[p][2], inLen[p], inl[p], cps[p], inp[p])
    BY <1>1 DEF EncoderInv
  <2>2. /\ inLen[p] = 0 => Encoded(target, base, p, at[p][1] + 1, 0, 0, inl[p], cps[p], inp[p])
        /\ inLen[p] > 0 => Encoded(target, base, p, at[p][1] + 1, 0, 0,
                                   Append(inl[p], inLen[p]), cps[p], inp[p])
    BY <2>1, <1>2, <1>3, EncodedEndRow
  <2>3. /\ at'[p][1] = at[p][1] + 1 /\ at'[p][2] = 0 /\ inLen'[p] = 0
        /\ inp'[p] = inp[p] /\ cps'[p] = cps[p]
    BY <1>1, <1>4 DEF TypeInv
  <2>4. \A q \in Planes \ {p} : /\ at'[q] = at[q] /\ inLen'[q] = inLen[q] /\ inl'[q] = inl[q]
                                /\ cps'[q] = cps[q] /\ inp'[q] = inp[q]
    BY <1>1, <1>4, <1>5 DEF TypeInv
  <2>5. Encoded(target, base, p, at'[p][1], at'[p][2], inLen'[p], inl'[p], cps'[p], inp'[p])
    <3>1. CASE inLen[p] > 0
      BY <3>1, <2>2, <2>3, <1>5
    <3>2. CASE inLen[p] = 0
      BY <3>2, <2>2, <2>3, <1>5
    <3> QED  BY <3>1, <3>2, <1>2
  <2> QED  BY <2>4, <2>5, <1>1, <1>4, EncoderStep
<1> QED  BY <1>6, <1>7, <1>8 DEF Inv

(* Copy keeps the invariant.                                               *)
LEMMA CopyInv ==
    ASSUME Inv, NEW p \in Planes, Copy(p)
    PROVE  Inv'
<1>1. TypeInv /\ EncoderInv
  BY DEF Inv
<1>2. /\ at[p][1] \in Nat /\ at[p][2] \in Nat
      /\ inLen[p] \in Nat /\ inl[p] \in Seq(Nat) /\ cps[p] \in Seq(Run) /\ inp[p] \in Seq(Block)
      /\ Width[p] \in Nat
  BY <1>1, CellTypes
<1>3. at[p][1] < Height[p] /\ at[p][2] < Width[p]
  BY DEF Copy, InRow
<1>4. PICK b \in Candidates(p) :
        /\ Match(p, b) > 0
        /\ cps' = [cps EXCEPT ![p] = Append(cps[p], [y |-> b[2], x |-> b[3], len |-> Match(p, b)])]
        /\ at' = [at EXCEPT ![p] = <<at[p][1], at[p][2] + Match(p, b)>>]
        /\ inl' = [inl EXCEPT ![p] = Append(inl[p], inLen[p])]
        /\ inLen' = [inLen EXCEPT ![p] = 0]
        /\ UNCHANGED <<target, base, key, inp, merged, stream, plane, read, ready, out>>
  BY DEF Copy, images, reader
<1>5. b[1] = p /\ b[2] \in Nat /\ b[3] \in Nat
  <2>1. b \in Plane(BaseHeight, BaseWidth, p)
    BY DEF Candidates, Listed
  <2> QED  BY <2>1 DEF Plane
<1>6. PICK n \in Nat : n = Match(p, b)
  BY <1>2, <1>3, MatchChosen
<1>7. n > 0 /\ n <= Width[p] - at[p][2] /\ \A i \in 0 .. n - 1 : Same(p, b, i)
  BY <1>2, <1>3, <1>4, <1>6, MatchChosen
<1> DEFINE run == [y |-> b[2], x |-> b[3], len |-> n]
<1>8. run \in Run /\ run.y = b[2] /\ run.x = b[3] /\ run.len = n
  BY <1>5 DEF Run
<1>9. /\ cps' = [cps EXCEPT ![p] = Append(cps[p], run)]
      /\ at' = [at EXCEPT ![p] = <<at[p][1], at[p][2] + n>>]
  BY <1>4, <1>6
<1> HIDE DEF run
<1>10. Copied(target, base, p, run, at[p][1], at[p][2])
  <2>1. at[p][2] + n <= Width[p]
    BY <1>2, <1>7
  <2>2. ASSUME NEW i \in 1 .. n
        PROVE  base[<<p, b[2], b[3] + i - 1>>] = target[<<p, at[p][1], at[p][2] + i - 1>>]
    <3>1. PICK j \in 0 .. n - 1 : j = i - 1
      OBVIOUS
    <3>2. base[<<b[1], b[2], b[3] + j>>] = target[<<p, at[p][1], at[p][2] + j>>]
      BY <1>7 DEF Same, Along, Here
    <3>3. b[3] + j = b[3] + i - 1 /\ at[p][2] + j = at[p][2] + i - 1
      BY <3>1, <1>2, <1>5
    <3> QED  BY <3>2, <3>3, <1>5
  <2> QED  BY <2>1, <2>2, <1>7, <1>8 DEF Copied
<1>11. TypeInv'
  <2>1. <<at[p][1], at[p][2] + n>> \in Nat \X Nat
        /\ Append(inl[p], inLen[p]) \in Seq(Nat) /\ Append(cps[p], run) \in Seq(Run)
    <3>1. <<at[p][1], at[p][2] + n>> \in Nat \X Nat
      <4>1. PICK a \in Nat, c \in Nat : a = at[p][1] /\ c = at[p][2]
        BY ONLY <1>2
      <4>2. c + n \in Nat
        BY ONLY c \in Nat, n \in Nat
      <4> QED  BY ONLY <4>1, <4>2
    <3>2. Append(inl[p], inLen[p]) \in Seq(Nat)
      BY ONLY <1>2, AppendProperties
    <3>3. Append(cps[p], run) \in Seq(Run)
      BY ONLY <1>2, <1>8, AppendProperties
    <3> QED  BY <3>1, <3>2, <3>3
  <2>2. /\ inLen' \in [Planes -> Nat] /\ at' \in [Planes -> Nat \X Nat]
        /\ inl' \in [Planes -> Seq(Nat)] /\ cps' \in [Planes -> Seq(Run)]
    <3>1. inLen' \in [Planes -> Nat] /\ inl' \in [Planes -> Seq(Nat)]
      BY <1>1, <1>4, <2>1 DEF TypeInv
    <3>2. at' \in [Planes -> Nat \X Nat]
      BY <1>1, <1>9, <2>1 DEF TypeInv
    <3>3. cps' \in [Planes -> Seq(Run)]
      BY <1>1, <1>9, <2>1 DEF TypeInv
    <3> QED  BY <3>1, <3>2, <3>3
  <2> QED  BY <2>2, <1>1, <1>4 DEF TypeInv
<1>12. MergeInv' /\ ReaderInv'
  BY <1>3, <1>4, ThreadStep DEF reader
<1>13. EncoderInv'
  <2>1. Encoded(target, base, p, at[p][1], at[p][2], inLen[p], inl[p], cps[p], inp[p])
    BY <1>1 DEF EncoderInv
  <2>2. Encoded(target, base, p, at[p][1], at[p][2] + run.len, 0,
                Append(inl[p], inLen[p]), Append(cps[p], run), inp[p])
    BY <2>1, <1>2, <1>3, <1>8, <1>10, EncodedCopy
  <2>3. /\ at'[p][1] = at[p][1] /\ at'[p][2] = at[p][2] + run.len /\ inLen'[p] = 0
        /\ inl'[p] = Append(inl[p], inLen[p]) /\ cps'[p] = Append(cps[p], run)
        /\ inp'[p] = inp[p]
    <3>1. at'[p] = <<at[p][1], at[p][2] + n>> /\ cps'[p] = Append(cps[p], run)
      BY <1>1, <1>9 DEF TypeInv
    <3>2. inLen'[p] = 0 /\ inl'[p] = Append(inl[p], inLen[p]) /\ inp'[p] = inp[p]
      BY <1>1, <1>4 DEF TypeInv
    <3> QED  BY <3>1, <3>2, <1>8
  <2>4. \A q \in Planes \ {p} : /\ at'[q] = at[q] /\ inLen'[q] = inLen[q] /\ inl'[q] = inl[q]
                                /\ cps'[q] = cps[q] /\ inp'[q] = inp[q]
    BY <1>1, <1>4, <1>9 DEF TypeInv
  <2>5. Encoded(target, base, p, at'[p][1], at'[p][2], inLen'[p], inl'[p], cps'[p], inp'[p])
    BY <2>2, <2>3
  <2> QED  BY <2>4, <2>5, <1>1, <1>4, EncoderStep
<1> QED  BY <1>11, <1>12, <1>13 DEF Inv

-----------------------------------------------------------------------------
(* At its first element all of a plane's array is left.                    *)
LEMMA FirstRemaining ==
    ASSUME NEW S, NEW q \in [Planes -> Seq(S)], NEW p \in Planes, NEW x,
           Left(q, NPlanes, S, p, x)
    PROVE  Remaining(q, NPlanes, S, p, 0, x)
<1>1. NPlanes \in Nat /\ p \in 1 .. NPlanes /\ q[p] \in Seq(S)
  BY Sizes DEF Planes
<1> QED  BY ONLY <1>1, TailsNext, Left(q, NPlanes, S, p, x)

(* Reading k elements of a plane's array.                                  *)
LEMMA RemainingMore ==
    ASSUME NEW S, NEW q \in [Planes -> Seq(S)], NEW p \in Planes, NEW n \in Nat, NEW k \in Nat,
           n + k <= Len(q[p]), NEW x, Remaining(q, NPlanes, S, p, n, x)
    PROVE  /\ x \in Seq(S)
           /\ \E y : Starts(x, q[p], n, k, y) /\ Remaining(q, NPlanes, S, p, n + k, y)
<1>1. PICK r \in Seq(S) : Left(q, NPlanes, S, p + 1, r) /\ x = Drop(q[p], n) \o r
  BY DEF Remaining
<1>2. PICK v \in Seq(S) : v = q[p]
  OBVIOUS
<1>3. n + k <= Len(v) /\ x = Drop(v, n) \o r
  BY <1>1, <1>2
<1>4. x \in Seq(S) /\ Starts(x, v, n, k, Drop(v, n + k) \o r)
  BY ONLY <1>3, DropMore, n \in Nat, k \in Nat
<1>5. Remaining(q, NPlanes, S, p, n + k, Drop(v, n + k) \o r)
  BY ONLY <1>1, <1>2 DEF Remaining
<1> QED  BY <1>2, <1>4, <1>5

(* With all of a plane's array read the next planes' are left.             *)
LEMMA RemainingAll ==
    ASSUME NEW S, NEW q \in [Planes -> Seq(S)], NEW p \in Planes, NEW x,
           Remaining(q, NPlanes, S, p, Len(q[p]), x)
    PROVE  Left(q, NPlanes, S, p + 1, x)
<1>1. PICK r \in Seq(S) : Left(q, NPlanes, S, p + 1, r) /\ x = Drop(q[p], Len(q[p])) \o r
  BY DEF Remaining
<1>2. q[p] \in Seq(S)
  OBVIOUS
<1>3. x = r
  BY <1>1, <1>2, DropAll
<1> QED  BY <1>1, <1>3

(* The script of a plane, and where it starts.                             *)
LEMMA PlaneScript ==
    ASSUME EncoderInv, NEW p \in Planes
    PROVE  \E s : /\ Follow(target, base, p, s, at[p][1], at[p][2], inLen[p],
                            inl[p], cps[p], inp[p])
                  /\ s[0 + 1] = Start
<1>1. Encoded(target, base, p, at[p][1], at[p][2], inLen[p], inl[p], cps[p], inp[p])
  BY DEF EncoderInv
<1> QED  BY <1>1 DEF Encoded, Follow, Script

(* Where the reader of a plane starts.                                     *)
LEMMA StartPlaced ==
    ASSUME NEW tg, NEW p \in Planes
    PROVE  /\ Placed(tg, p, <<>>, Start.row * Width[p] + Start.col)
           /\ Start.col = 0 /\ Start.cps = 0 /\ Start.inp = 0
<1>1. Start.row = 0 /\ Start.col = 0 /\ Start.cps = 0 /\ Start.inp = 0
  BY DEF Start
<1>2. 0 * Width[p] + 0 = 0
  BY Sizes
<1> QED  BY <1>1, <1>2, PlacedNone

(* Merge keeps the invariant: the last one lets the reader start.          *)
LEMMA MergeStep ==
    ASSUME Inv, Merge
    PROVE  Inv'
<1>1. TypeInv /\ EncoderInv /\ MergeInv
  BY DEF Inv
<1>2. NPlanes \in Nat \ {0} /\ merged \in 0 .. NPlanes - 1
  BY <1>1, Sizes DEF Merge, TypeInv
<1>3. /\ \A p \in Planes : at[p][1] = Height[p]
      /\ merged' = merged + 1
      /\ stream' = [inl |-> stream.inl \o inl[merged + 1],
                    cps |-> stream.cps \o cps[merged + 1],
                    inp |-> stream.inp \o inp[merged + 1]]
      /\ UNCHANGED <<target, base, key, at, inLen, inl, cps, inp, plane, read, ready, out>>
  BY DEF Merge, images, encoder, reader
<1>4. merged + 1 \in Planes /\ merged + 1 \in 0 .. NPlanes /\ merged < NPlanes
  BY <1>2 DEF Planes
<1>5. /\ inl[merged + 1] \in Seq(Nat) /\ cps[merged + 1] \in Seq(Run)
      /\ inp[merged + 1] \in Seq(Block)
      /\ stream.inl \in Seq(Nat) /\ stream.cps \in Seq(Run) /\ stream.inp \in Seq(Block)
  BY <1>1, <1>4 DEF TypeInv
<1>6. /\ stream.inl \o inl[merged + 1] \in Seq(Nat)
      /\ stream.cps \o cps[merged + 1] \in Seq(Run)
      /\ stream.inp \o inp[merged + 1] \in Seq(Block)
  BY <1>5, ConcatProperties
<1>7. TypeInv'
  <2>1. stream' \in [inl : Seq(Nat), cps : Seq(Run), inp : Seq(Block)]
    BY <1>3, <1>6
  <2> QED  BY <2>1, <1>1, <1>3, <1>4 DEF TypeInv
<1>8. EncoderInv'
  BY <1>1, <1>3 DEF EncoderInv
<1>9. /\ stream'.inl = stream.inl \o inl[merged + 1]
      /\ stream'.cps = stream.cps \o cps[merged + 1]
      /\ stream'.inp = stream.inp \o inp[merged + 1]
  BY <1>3
<1>10. Idle
  BY <1>1, <1>4 DEF MergeInv
<1>11. /\ Left(inl, merged + 1, Nat, 1, stream'.inl)
       /\ Left(cps, merged + 1, Run, 1, stream'.cps)
       /\ Left(inp, merged + 1, Block, 1, stream'.inp)
  <2>1. /\ inl \in [1 .. NPlanes -> Seq(Nat)] /\ cps \in [1 .. NPlanes -> Seq(Run)]
        /\ inp \in [1 .. NPlanes -> Seq(Block)]
    BY <1>1 DEF TypeInv, Planes
  <2>2. /\ Left(inl, merged, Nat, 1, stream.inl)
        /\ Left(cps, merged, Run, 1, stream.cps)
        /\ Left(inp, merged, Block, 1, stream.inp)
    BY <1>1, <1>4 DEF MergeInv
  <2>3. NPlanes \in Nat
    BY <1>2
  <2>4. Left(inl, merged + 1, Nat, 1, stream'.inl)
    <3>1. Left(inl, merged + 1, Nat, 1, stream.inl \o inl[merged + 1])
      BY ONLY <2>1, <2>2, <2>3, <1>2, TailsMore
    <3> QED  BY <3>1, <1>9
  <2>5. Left(cps, merged + 1, Run, 1, stream'.cps)
    <3>1. Left(cps, merged + 1, Run, 1, stream.cps \o cps[merged + 1])
      BY ONLY <2>1, <2>2, <2>3, <1>2, TailsMore
    <3> QED  BY <3>1, <1>9
  <2>6. Left(inp, merged + 1, Block, 1, stream'.inp)
    <3>1. Left(inp, merged + 1, Block, 1, stream.inp \o inp[merged + 1])
      BY ONLY <2>1, <2>2, <2>3, <1>2, TailsMore
    <3> QED  BY <3>1, <1>9
  <2> QED  BY <2>4, <2>5, <2>6
<1>12. MergeInv'
  <2>1. Idle'
    BY <1>3, <1>10 DEF Idle
  <2> QED  BY <2>1, <1>3, <1>11 DEF MergeInv
<1>13. ReaderInv'
  <2> SUFFICES ASSUME merged' = NPlanes PROVE ReaderInv'
    BY DEF ReaderInv
  <2>1. /\ Left(inl, NPlanes, Nat, 1, stream'.inl)
        /\ Left(cps, NPlanes, Run, 1, stream'.cps)
        /\ Left(inp, NPlanes, Block, 1, stream'.inp)
    BY <1>3, <1>11
  <2>2. 1 \in Planes /\ plane = 1 /\ read = 0 /\ ready = 0 /\ \A p \in Planes : out[p] = <<>>
    BY <1>2, <1>10 DEF Planes, Idle
  <2>3. /\ Remaining(inl, NPlanes, Nat, 1, 0, stream'.inl)
        /\ Remaining(cps, NPlanes, Run, 1, 0, stream'.cps)
        /\ Remaining(inp, NPlanes, Block, 1, 0, stream'.inp)
    BY <2>1, <2>2, <1>1, FirstRemaining DEF TypeInv
  <2>4. PICK s : /\ Follow(target, base, 1, s, at[1][1], at[1][2], inLen[1],
                           inl[1], cps[1], inp[1])
                 /\ s[0 + 1] = Start
    BY <2>2, <1>1, PlaneScript
  <2>5. /\ Placed(target, 1, <<>>, Start.row * Width[1] + Start.col)
        /\ Start.col = 0 /\ Start.cps = 0 /\ Start.inp = 0
    BY <2>2, StartPlaced
  <2>6. 0 <= Len(inl[1])
    BY <2>2, <1>1, CellTypes, LenProperties
  <2>7. Reading(1, s)'
    <3>1. /\ read' = 0 /\ ready' = 0 /\ out'[1] = <<>> /\ s[read' + 1] = Start
      BY <2>2, <2>4, <1>3
    <3>2. Follow(target, base, 1, s, at[1][1], at[1][2], inLen[1], inl[1], cps[1], inp[1])'
      BY <2>4, <1>3
    <3>3. Placed(target', 1, out'[1], s[read' + 1].row * Width[1] + s[read' + 1].col)
      BY <3>1, <2>5, <1>3
    <3>4. /\ Remaining(inl', NPlanes, Nat, 1, read', stream'.inl)
          /\ Remaining(cps', NPlanes, Run, 1, s[read' + 1].cps, stream'.cps)
          /\ Remaining(inp', NPlanes, Block, 1, s[read' + 1].inp, stream'.inp)
      BY <3>1, <2>3, <2>5, <1>3
    <3>5. read' <= Len(inl'[1]) /\ ready' = s[read' + 1].col
      BY <3>1, <2>5, <2>6, <1>3
    <3> QED  BY <3>2, <3>3, <3>4, <3>5 DEF Reading
  <2>8. \A p \in Planes : /\ ~(p < plane') /\ (p > plane' => out'[p] = <<>>)
                          /\ (p = plane' => \E t : Reading(p, t)')
    BY <2>2, <2>7, <1>3 DEF Planes
  <2>9. ~(plane' > NPlanes)
    BY <2>2, <1>2, <1>3
  <2> QED  BY <2>8, <2>9 DEF ReaderInv
<1> QED  BY <1>7, <1>8, <1>12, <1>13 DEF Inv

(* All rows are done when something is read.                               *)
LEMMA EncodersDone ==
    ASSUME TypeInv, EncoderInv, MergeInv, merged = NPlanes, NEW p \in Planes, NEW s,
           Follow(target, base, p, s, at[p][1], at[p][2], inLen[p], inl[p], cps[p], inp[p])
    PROVE  LET m == s[Len(inl[p]) + 1]
           IN  /\ m.row = Height[p] /\ m.col = 0
               /\ m.cps = Len(cps[p]) /\ m.inp = Len(inp[p])
<1>1. PICK m : m = s[Len(inl[p]) + 1]
  OBVIOUS
<1>2. at[p][1] = Height[p]
  BY Sizes DEF MergeInv
<1>5. Len(inl[p]) + 1 \in 1 .. Len(inl[p]) + 1 /\ inLen[p] \in Nat
  BY CellTypes, LenProperties
<1>6. m \in Mark
  BY <1>1, <1>5 DEF Follow, Script
<1>7. AtEnd(target, p, m, at[p][1], at[p][2], inLen[p], cps[p], inp[p])
  BY <1>1 DEF Follow
<1>8. m.row = Height[p] /\ m.col = 0 /\ m.cps = Len(cps[p]) /\ m.inp = Len(inp[p])
  BY ONLY <1>2, <1>5, <1>6, <1>7, AtLast, p \in Planes
<1> QED  BY <1>1, <1>8

(* NextPlane keeps the invariant: the reader is behind the last mark, and  *)
(* starts at the first of the next plane.                                  *)
LEMMA NextPlaneInv ==
    ASSUME Inv, NextPlane
    PROVE  Inv'
<1>1. TypeInv /\ EncoderInv /\ MergeInv /\ ReaderInv
  BY DEF Inv
<1>2. /\ merged = NPlanes /\ plane \in Planes /\ read = Len(inl[plane])
      /\ plane' = plane + 1 /\ read' = 0 /\ ready' = 0
      /\ UNCHANGED <<target, base, key, at, inLen, inl, cps, inp, merged, stream, out>>
  BY DEF NextPlane, images, encoder
<1>3. PICK p \in Planes : p = plane
  BY <1>2
<1>4. NPlanes \in Nat \ {0} /\ p \in 1 .. NPlanes
  BY Sizes DEF Planes
<1>5. PICK s : Reading(p, s)
  BY <1>1, <1>2, <1>3 DEF ReaderInv
<1>6. Follow(target, base, p, s, at[p][1], at[p][2], inLen[p], inl[p], cps[p], inp[p])
  BY <1>5 DEF Reading
<1>7. PICK m : m = s[Len(inl[p]) + 1]
  OBVIOUS
<1>8. m.row = Height[p] /\ m.col = 0 /\ m.cps = Len(cps[p]) /\ m.inp = Len(inp[p])
  BY <1>1, <1>2, <1>6, <1>7, EncodersDone
<1>9. s[read + 1] = m
  BY <1>2, <1>3, <1>7
<1>10. Placed(target, p, out[p], Height[p] * Width[p])
  <2>1. Placed(target, p, out[p], Height[p] * Width[p] + 0)
    BY <1>5, <1>8, <1>9 DEF Reading
  <2>2. Height[p] * Width[p] + 0 = Height[p] * Width[p]
    BY Sizes
  <2> QED  BY <2>1, <2>2
<1>11. /\ Left(inl, NPlanes, Nat, p + 1, stream.inl)
       /\ Left(cps, NPlanes, Run, p + 1, stream.cps)
       /\ Left(inp, NPlanes, Block, p + 1, stream.inp)
  <2>1. /\ Remaining(inl, NPlanes, Nat, p, Len(inl[p]), stream.inl)
        /\ Remaining(cps, NPlanes, Run, p, Len(cps[p]), stream.cps)
        /\ Remaining(inp, NPlanes, Block, p, Len(inp[p]), stream.inp)
    BY <1>2, <1>3, <1>5, <1>8, <1>9 DEF Reading
  <2> QED  BY <2>1, <1>1, RemainingAll DEF TypeInv
<1>12. TypeInv'
  <2>1. plane' \in 1 .. NPlanes + 1
    BY <1>2, <1>3, <1>4
  <2> QED  BY <2>1, <1>1, <1>2 DEF TypeInv
<1>13. EncoderInv'
  BY <1>1, <1>2 DEF EncoderInv
<1>14. MergeInv'
  BY <1>1, <1>2, <1>4 DEF MergeInv
<1>15. ReaderInv'
  <2>1. ASSUME NEW q \in Planes, q < plane'
        PROVE  Placed(target, q, out[q], Height[q] * Width[q])
    <3>1. q = p \/ q < plane
      BY <2>1, <1>2, <1>3, <1>4 DEF Planes
    <3> QED  BY <3>1, <1>1, <1>2, <1>10 DEF ReaderInv
  <2>2. ASSUME NEW q \in Planes, q >= plane' PROVE out[q] = <<>>
    <3>1. q > plane
      BY <2>2, <1>2, <1>3, <1>4 DEF Planes
    <3> QED  BY <3>1, <1>1, <1>2 DEF ReaderInv
  <2>3. ASSUME NEW q \in Planes, q = plane' PROVE \E t : Reading(q, t)'
    <3>1. q = p + 1
      BY <2>3, <1>2, <1>3
    <3>2. /\ Remaining(inl, NPlanes, Nat, q, 0, stream.inl)
          /\ Remaining(cps, NPlanes, Run, q, 0, stream.cps)
          /\ Remaining(inp, NPlanes, Block, q, 0, stream.inp)
      BY <3>1, <1>1, <1>11, FirstRemaining DEF TypeInv
    <3>3. PICK t : /\ Follow(target, base, q, t, at[q][1], at[q][2], inLen[q],
                             inl[q], cps[q], inp[q])
                   /\ t[0 + 1] = Start
      BY <1>1, PlaneScript
    <3>4. /\ Placed(target, q, <<>>, Start.row * Width[q] + Start.col)
          /\ Start.col = 0 /\ Start.cps = 0 /\ Start.inp = 0
      BY StartPlaced
    <3>5. 0 <= Len(inl[q])
      BY <1>1, CellTypes, LenProperties
    <3>6. out[q] = <<>>
      <4>1. q >= plane'
        BY <3>1, <1>2, <1>3, <1>4
      <4> QED  BY <4>1, <2>2
    <3>7. /\ read' = 0 /\ ready' = 0 /\ out'[q] = <<>> /\ t[read' + 1] = Start
      BY <3>3, <3>6, <1>2
    <3>8. Follow(target, base, q, t, at[q][1], at[q][2], inLen[q], inl[q], cps[q], inp[q])'
      BY <3>3, <1>2
    <3>9. Placed(target', q, out'[q], t[read' + 1].row * Width[q] + t[read' + 1].col)
      BY <3>4, <3>7, <1>2
    <3>10. /\ Remaining(inl', NPlanes, Nat, q, read', stream'.inl)
           /\ Remaining(cps', NPlanes, Run, q, t[read' + 1].cps, stream'.cps)
           /\ Remaining(inp', NPlanes, Block, q, t[read' + 1].inp, stream'.inp)
      BY <3>2, <3>4, <3>7, <1>2
    <3>11. read' <= Len(inl'[q]) /\ ready' = t[read' + 1].col
      BY <3>4, <3>5, <3>7, <1>2
    <3>12. Reading(q, t)'
      BY <3>8, <3>9, <3>10, <3>11 DEF Reading
    <3> QED  BY <3>12
  <2>4. plane' > NPlanes => Emptied'
    <3> SUFFICES ASSUME plane' > NPlanes PROVE Emptied'
      OBVIOUS
    <3>1. p + 1 = NPlanes + 1 /\ NPlanes \in Nat
      BY <1>2, <1>3, <1>4
    <3>2. stream.inl = <<>>
      BY <3>1, <1>11, TailsEnd
    <3>3. stream.cps = <<>>
      BY <3>1, <1>11, TailsEnd
    <3>4. stream.inp = <<>>
      BY <3>1, <1>11, TailsEnd
    <3>5. stream = [inl |-> <<>>, cps |-> <<>>, inp |-> <<>>]
      BY <3>2, <3>3, <3>4, <1>1 DEF TypeInv
    <3> QED  BY <3>5, <1>2 DEF Emptied
  <2>5. \A q \in Planes : /\ q < plane' => Placed(target, q, out[q], Height[q] * Width[q])'
                          /\ q > plane' => out'[q] = <<>>
                          /\ q = plane' => \E t : Reading(q, t)'
    <3> SUFFICES ASSUME NEW q \in Planes
                 PROVE  /\ q < plane' => Placed(target, q, out[q], Height[q] * Width[q])'
                        /\ q > plane' => out'[q] = <<>>
                        /\ q = plane' => \E t : Reading(q, t)'
      OBVIOUS
    <3>1. q > plane' => q >= plane'
      BY <1>2, <1>3, <1>4 DEF Planes
    <3>2. UNCHANGED <<target, out>>
      BY <1>2
    <3> QED  BY <3>1, <3>2, <2>1, <2>2, <2>3
  <2> QED  BY <2>4, <2>5 DEF ReaderInv
<1> QED  BY <1>12, <1>13, <1>14, <1>15 DEF Inv

-----------------------------------------------------------------------------
(* What is left is a sequence.                                             *)
LEMMA RemainingSeq ==
    ASSUME NEW S, NEW q \in [Planes -> Seq(S)], NEW p \in Planes, NEW i \in Nat,
           i <= Len(q[p]), NEW x, Remaining(q, NPlanes, S, p, i, x)
    PROVE  x \in Seq(S)
<1>1. q[p] \in Seq(S)
  OBVIOUS
<1>2. i + 0 <= Len(q[p]) /\ 0 \in Nat
  BY <1>1, LenProperties
<1> QED  BY <1>2, RemainingMore

(* Decode keeps the invariant: the reader goes on to the next mark.        *)
LEMMA DecodeInv ==
    ASSUME Inv, Decode
    PROVE  Inv'
<1>1. TypeInv /\ EncoderInv /\ MergeInv /\ ReaderInv
  BY DEF Inv
<1>2. /\ merged = NPlanes /\ plane \in Planes /\ read < Len(inl[plane]) /\ read' = read + 1
      /\ UNCHANGED <<target, base, key, at, inLen, inl, cps, inp, merged, plane>>
  BY DEF Decode, images, encoder
<1>3. PICK p \in Planes : p = plane
  BY <1>2
<1>4. PICK s : Reading(p, s)
  BY <1>1, <1>2, <1>3 DEF ReaderInv
<1>5. Follow(target, base, p, s, at[p][1], at[p][2], inLen[p], inl[p], cps[p], inp[p])
  BY <1>4 DEF Reading
<1>6. Script(target, base, p, s, inl[p], cps[p], inp[p])
  BY <1>5 DEF Follow
<1>7. PICK il \in Seq(Nat), cp \in Seq(Run), ins \in Seq(Block) :
           il = inl[p] /\ cp = cps[p] /\ ins = inp[p]
  BY <1>1, CellTypes
<1>8. PICK k \in Nat : k = read
  BY <1>1 DEF TypeInv
<1>9. Len(il) \in Nat /\ k + 1 \in 1 .. Len(il) /\ k + 1 \in 1 .. Len(il) + 1
      /\ k + 1 + 1 \in 1 .. Len(il) + 1
  BY <1>2, <1>3, <1>7, <1>8, LenProperties
<1>10. PICK m \in Mark, o \in Mark, n \in Nat :
            m = s[k + 1] /\ o = s[k + 1 + 1] /\ n = il[k + 1]
  BY <1>6, <1>7, <1>9, ElementOfSeq DEF Script
<1>11. Instruction(target, base, p, cp, ins, m, n, o) /\ Stands(p, m)
  BY <1>6, <1>7, <1>9, <1>10 DEF Script
<1>12. /\ ready = m.col
       /\ Placed(target, p, out[p], m.row * Width[p] + m.col)
       /\ Remaining(inl, NPlanes, Nat, p, k, stream.inl)
       /\ Remaining(cps, NPlanes, Run, p, m.cps, stream.cps)
       /\ Remaining(inp, NPlanes, Block, p, m.inp, stream.inp)
  BY <1>4, <1>8, <1>10 DEF Reading
<1>13. m.row \in Nat /\ m.col \in Nat /\ m.cps \in Nat /\ m.inp \in Nat
  BY DEF Mark
<1>14. /\ inl \in [Planes -> Seq(Nat)] /\ cps \in [Planes -> Seq(Run)]
       /\ inp \in [Planes -> Seq(Block)] /\ stream.inl \in Seq(Nat) /\ stream.cps \in Seq(Run)
       /\ stream.inp \in Seq(Block) /\ out \in [Planes -> Seq(Block)]
  BY <1>1 DEF TypeInv
<1>15. /\ Head(stream.inl) = n
       /\ Remaining(inl, NPlanes, Nat, p, k + 1, Tail(stream.inl))
  <2>1. k + 1 <= Len(inl[p]) /\ 1 \in Nat
    BY <1>7, <1>9
  <2>2. PICK y : Starts(stream.inl, inl[p], k, 1, y) /\ Remaining(inl, NPlanes, Nat, p, k + 1, y)
    BY <2>1, <1>12, <1>14, RemainingMore
  <2>3. Head(stream.inl) = inl[p][k + 1] /\ Tail(stream.inl) = y
    BY <2>2 DEF Starts
  <2> QED  BY <2>2, <2>3, <1>7, <1>10
<1>16. /\ SubSeq(stream.inp, 1, n) = [i \in 1 .. n |-> ins[m.inp + i]]
       /\ Remaining(inp, NPlanes, Block, p, o.inp, SubSeq(stream.inp, n + 1, Len(stream.inp)))
  <2>1. m.inp + n <= Len(inp[p]) /\ o.inp = m.inp + n
    BY <1>7, <1>11 DEF Instruction, Inserted
  <2>2. PICK y : /\ Starts(stream.inp, inp[p], m.inp, n, y)
                 /\ Remaining(inp, NPlanes, Block, p, m.inp + n, y)
    BY <2>1, <1>12, <1>13, <1>14, RemainingMore
  <2>3. /\ SubSeq(stream.inp, 1, n) = [i \in 1 .. n |-> inp[p][m.inp + i]]
        /\ SubSeq(stream.inp, n + 1, Len(stream.inp)) = y
    BY <2>2 DEF Starts
  <2> QED  BY <2>1, <2>2, <2>3, <1>7
<1>17. m.col + n < Width[p] =>
          /\ Head(stream.cps) = cp[m.cps + 1]
          /\ Remaining(cps, NPlanes, Run, p, o.cps, Tail(stream.cps))
  <2> SUFFICES ASSUME m.col + n < Width[p]
               PROVE  /\ Head(stream.cps) = cp[m.cps + 1]
                      /\ Remaining(cps, NPlanes, Run, p, o.cps, Tail(stream.cps))
    OBVIOUS
  <2>1. m.cps + 1 <= Len(cps[p]) /\ o.cps = m.cps + 1 /\ 1 \in Nat
    BY <1>7, <1>11 DEF Instruction
  <2>2. PICK y : /\ Starts(stream.cps, cps[p], m.cps, 1, y)
                 /\ Remaining(cps, NPlanes, Run, p, m.cps + 1, y)
    BY <2>1, <1>12, <1>13, <1>14, RemainingMore
  <2>3. Head(stream.cps) = cps[p][m.cps + 1] /\ Tail(stream.cps) = y
    BY <2>2 DEF Starts
  <2> QED  BY <2>1, <2>2, <2>3, <1>7
<1>18. ~(m.col + n < Width[p]) => o.cps = m.cps
  BY <1>11 DEF Instruction
<1>19. PICK placed : placed = Insertion(ins, m.inp, n)
  OBVIOUS
<1>20. PICK run : run = CopyOf(base, p, cp, m, n)
  OBVIOUS
<1>a. Width[Stored(plane)] = Width[p]
  BY <1>2, <1>3, SameRows
<1>21. /\ out' = [out EXCEPT ![p] = out[p] \o placed \o run]
       /\ stream' = [inl |-> Tail(stream.inl),
                     cps |-> IF m.col + n < Width[p] THEN Tail(stream.cps) ELSE stream.cps,
                     inp |-> SubSeq(stream.inp, n + 1, Len(stream.inp))]
       /\ ready' = IF m.col + n + Len(run) = Width[p] THEN 0 ELSE m.col + n + Len(run)
  <2>1. CASE m.col + n < Width[p]
    <3>1. run = [i \in 1 .. Head(stream.cps).len |->
                  base[<<p, Head(stream.cps).y, Head(stream.cps).x + i - 1>>]]
      BY <2>1, <1>17, <1>20 DEF CopyOf
    <3>2. placed = SubSeq(stream.inp, 1, n)
      BY <1>16, <1>19 DEF Insertion
    <3> QED  BY <2>1, <3>1, <3>2, <1>3, <1>12, <1>15, <1>a DEF Decode
  <2>2. CASE ~(m.col + n < Width[p])
    <3>1. run = <<>>
      BY <2>2, <1>20 DEF CopyOf
    <3>2. placed = SubSeq(stream.inp, 1, n)
      BY <1>16, <1>19 DEF Insertion
    <3> QED  BY <2>2, <3>1, <3>2, <1>3, <1>12, <1>15, <1>a DEF Decode
  <2> QED  BY <2>1, <2>2
<1>22. /\ Placed(target, p, out[p] \o placed \o run, o.row * Width[p] + o.col)
       /\ o.col = IF m.col + n + Len(run) = Width[p] THEN 0 ELSE m.col + n + Len(run)
  <2>1. InBlocks(target, p)
    BY <1>1, TargetPlace DEF TypeInv
  <2>2. Executes(target, base, p, cp, ins, m, n, o, out[p], placed, run)
    BY <1>11, <1>12, <1>19, <1>20 DEF Executes
  <2>3. Arrives(target, p, m, n, o, out[p], placed, run)
    BY ONLY <2>1, <2>2, Decoded, p \in Planes, cp \in Seq(Run), m \in Mark, o \in Mark, n \in Nat
  <2> QED  BY <2>3 DEF Arrives
<1>23. /\ out'[p] = out[p] \o placed \o run
       /\ out'[p] \in Seq(Block)
       /\ \A q \in Planes \ {p} : out'[q] = out[q]
       /\ out' \in [Planes -> Seq(Block)]
  <2>1. out[p] \o placed \o run \in Seq(Block)
    BY <1>22 DEF Placed
  <2> QED  BY <2>1, <1>14, <1>21
<1>24. /\ ready' = o.col /\ ready' \in Nat
  BY <1>21, <1>22 DEF Mark
<1>25. /\ Remaining(inl, NPlanes, Nat, p, k + 1, stream'.inl)
       /\ Remaining(cps, NPlanes, Run, p, o.cps, stream'.cps)
       /\ Remaining(inp, NPlanes, Block, p, o.inp, stream'.inp)
  <2>1. /\ stream'.inl = Tail(stream.inl)
        /\ stream'.cps = IF m.col + n < Width[p] THEN Tail(stream.cps) ELSE stream.cps
        /\ stream'.inp = SubSeq(stream.inp, n + 1, Len(stream.inp))
    BY <1>21
  <2>2. Remaining(cps, NPlanes, Run, p, o.cps, stream'.cps)
    <3>1. CASE m.col + n < Width[p]
      BY <3>1, <2>1, <1>17
    <3>2. CASE ~(m.col + n < Width[p])
      BY <3>2, <2>1, <1>12, <1>18
    <3> QED  BY <3>1, <3>2
  <2> QED  BY <2>1, <2>2, <1>15, <1>16
<1>26. stream' \in [inl : Seq(Nat), cps : Seq(Run), inp : Seq(Block)]
  <2>1. stream'.inl \in Seq(Nat)
    <3>1. k + 1 <= Len(inl[p]) /\ k + 1 \in Nat
      BY <1>7, <1>9
    <3> QED  BY <3>1, <1>14, <1>25, RemainingSeq
  <2>2. stream'.inp \in Seq(Block)
    <3>1. o.inp <= Len(inp[p]) /\ o.inp \in Nat
      BY <1>7, <1>11, <1>13 DEF Instruction, Inserted
    <3> QED  BY <3>1, <1>14, <1>25, RemainingSeq
  <2>3. stream'.cps \in Seq(Run)
    <3>1. CASE m.col + n < Width[p]
      <4>1. o.cps <= Len(cps[p]) /\ o.cps \in Nat
        BY <3>1, <1>7, <1>11, <1>13 DEF Instruction
      <4> QED  BY <4>1, <1>14, <1>25, RemainingSeq
    <3>2. CASE ~(m.col + n < Width[p])
      BY <3>2, <1>14, <1>21
    <3> QED  BY <3>1, <3>2
  <2> QED  BY <2>1, <2>2, <2>3, <1>21
<1>27. TypeInv'
  <2>1. read' \in Nat
    BY <1>2, <1>8
  <2> QED  BY <2>1, <1>1, <1>2, <1>23, <1>24, <1>26 DEF TypeInv
<1>28. EncoderInv'
  BY <1>1, <1>2 DEF EncoderInv
<1>29. MergeInv'
  <2>1. ~(merged' < NPlanes)
    BY <1>2, Sizes
  <2> QED  BY <2>1, <1>1, <1>2 DEF MergeInv
<1>30. Reading(p, s)'
  <2>1. read' = k + 1 /\ s[read' + 1] = o
    BY <1>2, <1>8, <1>10
  <2>2. Follow(target, base, p, s, at[p][1], at[p][2], inLen[p], inl[p], cps[p], inp[p])'
    BY <1>2, <1>5
  <2>3. Placed(target', p, out'[p], o.row * Width[p] + o.col)
    BY <1>2, <1>22, <1>23
  <2>4. /\ Remaining(inl', NPlanes, Nat, p, k + 1, stream'.inl)
        /\ Remaining(cps', NPlanes, Run, p, o.cps, stream'.cps)
        /\ Remaining(inp', NPlanes, Block, p, o.inp, stream'.inp)
    BY <1>2, <1>25
  <2>5. read' <= Len(inl'[p])
    BY <2>1, <1>2, <1>7, <1>9
  <2> QED  BY <2>1, <2>2, <2>3, <2>4, <2>5, <1>24 DEF Reading
<1>31. ReaderInv'
  <2>1. ASSUME NEW q \in Planes
        PROVE  /\ q < plane' => Placed(target, q, out[q], Height[q] * Width[q])'
               /\ q > plane' => out'[q] = <<>>
               /\ q = plane' => \E t : Reading(q, t)'
    <3>1. CASE q = p
      <4>1. q = plane' /\ q \in Nat
        BY <3>1, <1>2, <1>3 DEF Planes
      <4>2. ~(q < plane') /\ ~(q > plane')
        BY <4>1
      <4> QED  BY <3>1, <4>2, <1>30
    <3>2. CASE q # p
      <4>1. q # plane' /\ out'[q] = out[q] /\ plane' = plane /\ target' = target
        BY <3>2, <1>2, <1>3, <1>23
      <4> QED  BY <4>1, <1>1, <1>2 DEF ReaderInv
    <3> QED  BY <3>1, <3>2
  <2>2. ~(plane' > NPlanes)
    BY <1>2, Sizes DEF Planes
  <2> QED  BY <2>1, <2>2 DEF ReaderInv
<1> QED  BY <1>27, <1>28, <1>29, <1>31 DEF Inv

(* Nothing happens, nothing is lost.                                       *)
LEMMA StutterInv == ASSUME Inv, UNCHANGED vars PROVE Inv'
<1>1. UNCHANGED <<target, base, key, at, inLen, inl, cps, inp, merged, stream, plane, read,
                  ready, out>>
  BY DEF vars, images, encoder, reader
<1>2. TypeInv'
  BY <1>1 DEF Inv, TypeInv
<1>3. EncoderInv'
  BY <1>1 DEF Inv, EncoderInv
<1>4. MergeInv'
  BY <1>1 DEF Inv, MergeInv, Idle
<1>5. ReaderInv'
  BY <1>1 DEF Inv, ReaderInv, Reading, Emptied
<1> QED  BY <1>2, <1>3, <1>4, <1>5 DEF Inv

(* The invariant holds always.                                             *)
LEMMA InvIsInvariant == Spec => []Inv
<1>1. Init => Inv
  BY InitInv
<1>2. Inv /\ [Next]_vars => Inv'
  <2> SUFFICES ASSUME Inv, [Next]_vars PROVE Inv'
    OBVIOUS
  <2>1. ASSUME NEW p \in Planes, Encode(p) PROVE Inv'
    <3>1. CASE Copy(p)
      BY <3>1, CopyInv
    <3>2. CASE Insert(p)
      BY <3>2, InsertInv
    <3>3. CASE EndRow(p)
      BY <3>3, EndRowInv
    <3> QED  BY <2>1, <3>1, <3>2, <3>3 DEF Encode
  <2>2. CASE Merge
    BY <2>2, MergeStep
  <2>3. CASE Decode
    BY <2>3, DecodeInv
  <2>4. CASE NextPlane
    BY <2>4, NextPlaneInv
  <2>5. CASE UNCHANGED vars
    BY <2>5, StutterInv
  <2> QED  BY <2>1, <2>2, <2>3, <2>4, <2>5 DEF Next
<1> QED  BY <1>1, <1>2, PTL DEF Spec

(* The invariant implies that what is read back is the target.             *)
LEMMA InvFaithful == Inv => Faithful
<1> SUFFICES ASSUME Inv PROVE Faithful
  OBVIOUS
<1>1. TypeInv /\ EncoderInv /\ MergeInv /\ ReaderInv
  BY DEF Inv
<1>2. NPlanes \in Nat \ {0} /\ merged \in 0 .. NPlanes /\ plane \in 1 .. NPlanes + 1
  BY <1>1, Sizes DEF TypeInv
<1>3. CASE merged # NPlanes
  <2>1. Idle
    BY <1>1, <1>2, <1>3 DEF MergeInv
  <2>2. ASSUME NEW p \in Planes
        PROVE  /\ Len(out[p]) <= Height[p] * Width[p]
               /\ \A i \in 0 .. Len(out[p]) - 1 :
                    out[p][i + 1] = target[<<p, i \div Width[p], i % Width[p]>>]
               /\ p < plane => Len(out[p]) = Height[p] * Width[p]
    <3>1. Len(out[p]) = 0 /\ ~(p < plane)
      BY <2>1 DEF Idle, Planes
    <3>2. Height[p] * Width[p] \in Nat
      BY Sizes
    <3> QED  BY <3>1, <3>2
  <2>3. ~(plane > NPlanes)
    BY <1>2, <2>1 DEF Idle
  <2> QED  BY <2>2, <2>3 DEF Faithful
<1>4. CASE merged = NPlanes
  <2>1. ASSUME NEW p \in Planes
        PROVE  \E n \in Nat : /\ Placed(target, p, out[p], n) /\ n <= Height[p] * Width[p]
                              /\ p < plane => n = Height[p] * Width[p]
    <3>1. Height[p] * Width[p] \in Nat
      BY Sizes
    <3>2. p \in Nat /\ plane \in Nat
      BY <1>2 DEF Planes
    <3>3. CASE p < plane
      BY <3>1, <3>3, <1>1, <1>4 DEF ReaderInv
    <3>4. CASE p > plane
      <4>1. out[p] = <<>> /\ ~(p < plane)
        BY <3>2, <3>4, <1>1, <1>4 DEF ReaderInv
      <4> QED  BY <4>1, <3>1, PlacedNone
    <3>5. CASE p = plane
      <4>1. PICK s : Reading(p, s)
        BY <3>5, <1>1, <1>4 DEF ReaderInv
      <4>2. PICK m : m = s[read + 1]
        OBVIOUS
      <4>3. Placed(target, p, out[p], m.row * Width[p] + m.col)
        BY <4>1, <4>2 DEF Reading
      <4>4. m \in Mark /\ Stands(p, m)
        <5>1. Script(target, base, p, s, inl[p], cps[p], inp[p]) /\ read <= Len(inl[p])
          BY <4>1 DEF Reading, Follow
        <5>2. read \in Nat /\ Len(inl[p]) \in Nat
          BY <1>1, CellTypes, LenProperties DEF TypeInv
        <5>3. read + 1 \in 1 .. Len(inl[p]) + 1
          BY <5>1, <5>2
        <5> QED  BY <5>1, <5>3, <4>2 DEF Script
      <4>5. PICK r \in Nat, c \in Nat : r = m.row /\ c = m.col
        BY <4>4 DEF Mark
      <4>6. r * Width[p] + c \in Nat /\ r * Width[p] + c <= Height[p] * Width[p]
        <5>1. Width[p] \in Nat \ {0} /\ Height[p] \in Nat
          BY Sizes
        <5>2. CASE r < Height[p] /\ c < Width[p]
          <6>1. r \in 0 .. Height[p] - 1 /\ c \in 0 .. Width[p] - 1
            BY <5>1, <5>2
          <6>2. r * Width[p] + c <= Height[p] * Width[p]
            BY <6>1, <5>1, WithinRows
          <6>3. r * Width[p] + c \in Nat
            BY <5>1
          <6> QED  BY <6>2, <6>3
        <5>3. CASE r = Height[p] /\ c = 0
          BY <5>1, <5>3
        <5> QED  BY <5>2, <5>3, <4>4, <4>5 DEF Stands
      <4>7. ~(p < plane)
        BY <3>2, <3>5
      <4> QED  BY <4>3, <4>5, <4>6, <4>7
    <3> QED  BY <3>2, <3>3, <3>4, <3>5
  <2>2. ASSUME NEW p \in Planes
        PROVE  /\ Len(out[p]) <= Height[p] * Width[p]
               /\ \A i \in 0 .. Len(out[p]) - 1 :
                    out[p][i + 1] = target[<<p, i \div Width[p], i % Width[p]>>]
               /\ p < plane => Len(out[p]) = Height[p] * Width[p]
    BY <2>1 DEF Placed
  <2>3. plane > NPlanes => stream = [inl |-> <<>>, cps |-> <<>>, inp |-> <<>>]
    BY <1>1, <1>4 DEF ReaderInv, Emptied
  <2> QED  BY <2>2, <2>3 DEF Faithful
<1> QED  BY <1>3, <1>4

(* Type correctness: every variable of encoder and reader stays in its     *)
(* type.                                                                   *)
THEOREM TypesHold == Spec => []TypeInv
<1>1. Inv => TypeInv
  BY DEF Inv
<1> QED  BY <1>1, InvIsInvariant, PTL

(* de_dedup_a_single_img gives back the target block by block, for planes  *)
(* of every size, those of colour alike (ColourAssumption: the third is    *)
(* read with the second's size), and whatever hashes the index has; at the *)
(* end all of it is there and the arrays are used up.                      *)
THEOREM ReadBackFaithful == Spec => []Faithful
BY InvFaithful, InvIsInvariant, PTL

-----------------------------------------------------------------------------
(* The places of a base's plane.                                           *)
LEMMA BasePlaces ==
    ASSUME NEW p \in Planes
    PROVE  /\ BaseHeight[p] \in Nat /\ BaseWidth[p] \in Nat
           /\ Plane(BaseHeight, BaseWidth, p) \subseteq BaseCells
           /\ \A b \in Plane(BaseHeight, BaseWidth, p) :
                 \E y \in 0 .. BaseHeight[p] - 1, x \in 0 .. BaseWidth[p] - 1 : b = <<p, y, x>>
           /\ \A y \in 0 .. BaseHeight[p] - 1, x \in 0 .. BaseWidth[p] - 1 :
                 <<p, y, x>> \in Plane(BaseHeight, BaseWidth, p)
<1>1. Plane(BaseHeight, BaseWidth, p) \subseteq BaseCells
  BY DEF BaseCells
<1>2. BaseHeight[p] \in Nat /\ BaseWidth[p] \in Nat
  BY SizesAssumption
<1> QED  BY <1>1, <1>2 DEF Plane

(* The leftmost block of its row that is the one looked for is listed and  *)
(* matches.                                                                *)
LEMMA NewWhenInserted ==
    ASSUME TypeInv, NEW p \in Planes, Insert(p),
           key = [b \in BaseCells |-> Hash[base[b]]], IsInjective(Hash),
           NEW b \in Plane(BaseHeight, BaseWidth, p)
    PROVE  base[b] # target[Here(p)]
<1> SUFFICES ASSUME base[b] = target[Here(p)] PROVE FALSE
  OBVIOUS
<1>1. PICK y \in 0 .. BaseHeight[p] - 1, x \in 0 .. BaseWidth[p] - 1 : b = <<p, y, x>>
  BY BasePlaces
<1> DEFINE S == {v \in 0 .. BaseWidth[p] - 1 : base[<<p, y, v>>] = target[Here(p)]}
<1>2. x \in S /\ S \subseteq Nat
  BY <1>1
<1>3. PICK w \in S : \A v \in S : w <= v
  <2> HIDE DEF S
  <2> QED  BY <1>2, Least
<1>4. w \in 0 .. BaseWidth[p] - 1 /\ base[<<p, y, w>>] = target[Here(p)]
  OBVIOUS
<1>5. PICK c : c = <<p, y, w>>
  OBVIOUS
<1>6. c \in Plane(BaseHeight, BaseWidth, p) /\ c \in BaseCells
  BY <1>4, <1>5, BasePlaces
<1>7. /\ InRow(p) /\ target[Here(p)] \in Block
      /\ \A d \in Candidates(p) : Match(p, d) = 0
  BY HereInTarget DEF Insert
<1>8. \A d \in BaseCells : key[d] = Hash[base[d]] /\ base[d] \in Block
  BY DEF TypeInv
<1>9. Hash \in [Block -> Key] /\ \A u, v \in Block : Hash[u] = Hash[v] => u = v
  BY SizesAssumption DEF IsInjective
<1>10. c \in Listed(p)
  <2>1. CASE w = 0
    BY <2>1, <1>5, <1>6 DEF Listed
  <2>2. CASE w # 0
    <3>1. PICK v \in 0 .. BaseWidth[p] - 1 : v = w - 1
      <4>1. w - 1 \in 0 .. BaseWidth[p] - 1
        BY <2>2, <1>4, BasePlaces
      <4> QED  BY <4>1
    <3>2. v \notin S
      BY <3>1, <1>3, <1>4
    <3>3. base[<<p, y, v>>] # base[c]
      BY <3>2, <1>4, <1>5
    <3>4. <<p, y, v>> \in BaseCells
      BY BasePlaces
    <3>5. key[c] # key[<<p, y, v>>]
      BY <3>3, <3>4, <1>6, <1>8, <1>9
    <3>6. c[2] = y /\ c[3] = w
      BY <1>5
    <3> QED  BY <3>1, <3>5, <3>6, <1>6 DEF Listed
  <2> QED  BY <2>1, <2>2
<1>11. c \in Candidates(p)
  <2>1. key[c] = Hash[target[Here(p)]]
    BY <1>4, <1>5, <1>6, <1>8
  <2> QED  BY <2>1, <1>10 DEF Candidates
<1>12. Same(p, c, 0)
  <2>1. Along(c, 0) = c /\ Along(Here(p), 0) = Here(p)
    <3>1. w + 0 = w /\ at[p][2] + 0 = at[p][2]
      BY <1>4, CellTypes
    <3> QED  BY <3>1, <1>5 DEF Along, Here
  <2> QED  BY <2>1, <1>4, <1>5, <1>6 DEF Same
<1>13. Width[p] - at[p][2] # 0 /\ at[p][2] \in Nat /\ at[p][2] < Width[p]
  BY <1>7, CellTypes DEF InRow
<1>14. (Match(p, c) = Width[p] - at[p][2]) \/ ~Same(p, c, Match(p, c))
  BY <1>13, MatchChosen
<1> QED  BY <1>7, <1>11, <1>12, <1>13, <1>14

(* With an index of the blocks' own hashes, and hashes that do not         *)
(* collide, a block that get_instructions_thread inserts occurs nowhere in *)
(* the base's plane.                                                       *)
THEOREM OnlyNewInserted == Spec => []InsertedAreNew
<1>1. Init => InsertedAreNew
  <2> SUFFICES ASSUME Init, NEW p \in Planes PROVE Range(inp[p]) = {}
    BY DEF InsertedAreNew
  <2>1. inp[p] = <<>>
    BY DEF Init
  <2> QED  BY <2>1 DEF Range
<1>2. TypeInv /\ InsertedAreNew /\ [Next]_vars => InsertedAreNew'
  <2> SUFFICES ASSUME TypeInv, InsertedAreNew, [Next]_vars,
                      key' = [b \in BaseCells |-> Hash[base'[b]]], IsInjective(Hash),
                      NEW q \in Planes, NEW b \in Plane(BaseHeight, BaseWidth, q)
               PROVE  base'[b] \notin Range(inp'[q])
    BY DEF InsertedAreNew
  <2>1. base' = base /\ key' = key /\ target' = target
    BY DEF Next, Encode, Copy, Insert, EndRow, Merge, Decode, NextPlane, vars, images
  <2>2. base[b] \notin Range(inp[q])
    BY <2>1 DEF InsertedAreNew
  <2>3. CASE UNCHANGED inp
    BY <2>1, <2>2, <2>3
  <2>4. ASSUME NEW p \in Planes, Insert(p) PROVE base[b] \notin Range(inp'[q])
    <3>1. inp' = [inp EXCEPT ![p] = Append(inp[p], target[Here(p)])]
      BY <2>4 DEF Insert
    <3>2. inp[p] \in Seq(Block) /\ target[Here(p)] \in Block
      BY <2>4, CellTypes, HereInTarget DEF Insert
    <3>3. CASE q = p
      <4>1. inp'[q] = Append(inp[p], target[Here(p)])
        BY <3>1, <3>3 DEF TypeInv
      <4>2. Range(inp'[q]) = Range(inp[q]) \cup {target[Here(p)]}
        BY <3>2, <3>3, <4>1, RangeAppend
      <4>3. base[b] # target[Here(p)]
        BY <2>1, <2>4, <3>3, NewWhenInserted
      <4> QED  BY <4>2, <4>3, <2>2
    <3>4. CASE q # p
      <4>1. inp'[q] = inp[q]
        BY <3>1, <3>4 DEF TypeInv
      <4> QED  BY <4>1, <2>2
    <3> QED  BY <3>3, <3>4
  <2>5. UNCHANGED inp \/ \E p \in Planes : Insert(p)
    BY DEF Next, Encode, Copy, EndRow, Merge, Decode, NextPlane, vars, encoder
  <2> QED  BY <2>1, <2>3, <2>4, <2>5
<1> QED  BY <1>1, <1>2, TypesHold, PTL DEF Spec

-----------------------------------------------------------------------------
(* What the sizes are. *)
LEMMA CodecSizes ==
    /\ BlockLen \in Nat \ {0} /\ RunMax \in Nat \ {0} /\ WordBits \in Nat
    /\ MaxBits \in 1 .. WordBits
BY CodecAssumption

(* The powers are what their recursive definition says. *)
LEMMA PowUnfolded ==
    /\ Pow \in [0 .. WordBits -> Nat]
    /\ Pow[0] = 1
    /\ \A k \in 1 .. WordBits : Pow[k] = 2 * Pow[k - 1]
<1> DEFINE h == [x \in Nat \X (1 .. WordBits) |-> 2 * x[1]]
<1>1. WordBits \in Nat
  BY CodecSizes
<1>2. h \in [Nat \X (1 .. WordBits) -> Nat]
  OBVIOUS
<1>3. PICK f : Follows(f, WordBits, Nat, 1, h)
  <2> HIDE DEF h
  <2> QED  BY <1>1, <1>2, Recursion
<1>4. \A k \in 1 .. WordBits : f[k] = 2 * f[k - 1]
  <2> SUFFICES ASSUME NEW k \in 1 .. WordBits PROVE f[k] = 2 * f[k - 1]
    OBVIOUS
  <2>1. f[k] = h[<<f[k - 1], k>>]
    <3> HIDE DEF h
    <3> QED  BY <1>3 DEF Follows
  <2>2. f[k - 1] \in Nat
    <3>1. k - 1 \in 0 .. WordBits
      BY <1>1
    <3> QED  BY <3>1, <1>3 DEF Follows
  <2> QED  BY <2>1, <2>2
<1>5. f = [k \in 0 .. WordBits |-> IF k = 0 THEN 1 ELSE 2 * f[k - 1]]
  BY <1>1, <1>3, <1>4 DEF Follows
<1>6. Pow = [k \in 0 .. WordBits |-> IF k = 0 THEN 1 ELSE 2 * Pow[k - 1]]
  BY <1>5 DEF Pow
<1> DEFINE S == {k \in 0 .. WordBits : Pow[k] \in Nat}
<1>7. \A k \in 1 .. WordBits : Pow[k] = 2 * Pow[k - 1]
  BY <1>1, <1>6
<1>8. Pow[0] = 1
  BY <1>1, <1>6
<1>9. \A k \in 0 .. WordBits : k \in S
  <2>1. 0 \in S
    BY <1>1, <1>8
  <2>2. ASSUME NEW k \in 1 .. WordBits, k - 1 \in S PROVE k \in S
    <3>1. k \in 0 .. WordBits
      BY <1>1
    <3>2. Pow[k - 1] \in Nat
      BY <2>2
    <3> QED  BY <3>1, <3>2, <1>7
  <2> HIDE DEF S
  <2> QED  BY <1>1, <2>1, <2>2, InductionTo
<1>10. Pow \in [0 .. WordBits -> Nat]
  BY <1>6, <1>9
<1> QED  BY <1>7, <1>8, <1>10

(* A power is positive, and the next one is twice as large. *)
LEMMA PowStep ==
    ASSUME NEW k \in 0 .. WordBits
    PROVE  /\ Pow[k] \in Nat \ {0}
           /\ k > 0 => Pow[k] = 2 * Pow[k - 1] /\ Pow[k - 1] \in Nat \ {0}
<1>0. WordBits \in Nat
  BY CodecSizes
<1> DEFINE S == {j \in 0 .. WordBits : Pow[j] \in Nat \ {0}}
<1>1. \A j \in 0 .. WordBits : j \in S
  <2>1. 0 \in S
    BY <1>0, PowUnfolded
  <2>2. ASSUME NEW j \in 1 .. WordBits, j - 1 \in S PROVE j \in S
    <3>1. j \in 0 .. WordBits
      BY <1>0
    <3>2. Pow[j - 1] \in Nat \ {0}
      BY <2>2
    <3>3. Pow[j] = 2 * Pow[j - 1]
      BY PowUnfolded
    <3> QED  BY <3>1, <3>2, <3>3
  <2> HIDE DEF S
  <2> QED  BY <1>0, <2>1, <2>2, InductionTo
<1>2. k > 0 => k \in 1 .. WordBits /\ k - 1 \in 0 .. WordBits
  BY <1>0
<1>3. \A j \in 0 .. WordBits : Pow[j] \in Nat \ {0}
  BY <1>1
<1>4. Pow[k] \in Nat \ {0}
  BY <1>3
<1>5. k > 0 => Pow[k] = 2 * Pow[k - 1] /\ Pow[k - 1] \in Nat \ {0}
  <2> HAVE k > 0
  <2>1. k \in 1 .. WordBits /\ k - 1 \in 0 .. WordBits
    BY <1>2
  <2>2. Pow[k] = 2 * Pow[k - 1]
    BY <2>1, PowUnfolded
  <2>3. Pow[k - 1] \in Nat \ {0}
    BY <2>1, <1>3
  <2> QED  BY <2>2, <2>3
<1> QED  BY <1>4, <1>5

(* Exponents add up. *)
LEMMA PowAdd ==
    ASSUME NEW a \in Nat, NEW b \in Nat, a + b <= WordBits
    PROVE  /\ Pow[a + b] = Pow[a] * Pow[b]
           /\ Pow[a] \in Nat \ {0} /\ Pow[b] \in Nat \ {0} /\ Pow[a + b] \in Nat \ {0}
<1>0. WordBits \in Nat
  BY CodecSizes
<1>1. a \in 0 .. WordBits /\ b \in 0 .. WordBits /\ a + b \in 0 .. WordBits
  BY <1>0
<1> DEFINE S == {j \in 0 .. b : Pow[a + j] = Pow[a] * Pow[j]}
<1>2. \A j \in 0 .. b : j \in S
  <2>1. 0 \in S
    <3>1. Pow[a] \in Nat
      BY <1>1, PowStep
    <3>2. Pow[a + 0] = Pow[a] * Pow[0]
      BY <3>1, PowUnfolded
    <3> QED  BY <3>2
  <2>2. ASSUME NEW m \in 1 .. b, m - 1 \in S PROVE m \in S
    <3>1. /\ m \in 0 .. b /\ m \in 0 .. WordBits /\ m > 0
          /\ a + m \in 0 .. WordBits /\ a + m > 0 /\ (a + m) - 1 = a + (m - 1)
      BY <1>0, <1>1
    <3>2. Pow[a + (m - 1)] = Pow[a] * Pow[m - 1]
      BY <2>2
    <3>3. Pow[a + m] = 2 * Pow[(a + m) - 1]
      BY <3>1, PowStep
    <3>4. Pow[m] = 2 * Pow[m - 1] /\ Pow[m - 1] \in Nat /\ Pow[a] \in Nat
      BY <3>1, <1>1, PowStep
    <3>5. Pow[a + m] = 2 * (Pow[a] * Pow[m - 1])
      BY <3>1, <3>2, <3>3
    <3>6. PICK x \in Nat : x = Pow[a]
      BY <3>4
    <3>7. PICK y \in Nat : y = Pow[m - 1]
      BY <3>4
    <3>8. 2 * (x * y) = x * (2 * y)
      OBVIOUS
    <3>9. Pow[a + m] = Pow[a] * Pow[m]
      BY <3>4, <3>5, <3>6, <3>7, <3>8
    <3> QED  BY <3>1, <3>9
  <2> HIDE DEF S
  <2> QED  BY <2>1, <2>2, InductionTo
<1>3. b \in 0 .. b
  OBVIOUS
<1>4. Pow[a + b] = Pow[a] * Pow[b]
  BY <1>2, <1>3
<1> QED  BY <1>1, <1>4, PowStep

-----------------------------------------------------------------------------
(* A number is its quotient and its remainder. *)
LEMMA DivMod ==
    ASSUME NEW x \in Nat, NEW F \in Nat \ {0}
    PROVE  /\ x \div F \in Nat /\ x % F \in Nat /\ x % F < F
           /\ x = ((x \div F) * F) + (x % F)
OBVIOUS

(* Quotient and remainder of a number put together from both. *)
LEMMA Joined ==
    ASSUME NEW q \in Nat, NEW F \in Nat \ {0}, NEW d \in Nat, d < F
    PROVE  ((q * F) + d) \div F = q /\ ((q * F) + d) % F = d
OBVIOUS

(* d is below F and e below G: e * F + d is below F * G. *)
LEMMA Below ==
    ASSUME NEW F \in Nat \ {0}, NEW G \in Nat \ {0}, NEW e \in Nat, e < G, NEW d \in Nat, d < F
    PROVE  /\ (e * F) + d \in Nat /\ (e * F) + d < F * G /\ F * G \in Nat \ {0}
<1>1. e + 1 <= G /\ e * F \in Nat /\ F * G \in Nat \ {0}
  OBVIOUS
<1>2. (e + 1) * F <= G * F
  OBVIOUS
<1>3. (e + 1) * F = (e * F) + F /\ G * F = F * G
  OBVIOUS
<1> QED  BY <1>1, <1>2, <1>3

(* Dividing by a product is dividing by one factor after the other. *)
LEMMA DivDiv ==
    ASSUME NEW x \in Nat, NEW F \in Nat \ {0}, NEW G \in Nat \ {0}
    PROVE  /\ x \div (F * G) = (x \div F) \div G
           /\ (x % (F * G)) \div F = (x \div F) % G
           /\ (x % (F * G)) % F = x % F
           /\ x \div (F * G) \in Nat /\ x % (F * G) \in Nat
<1>0. PICK q \in Nat, d \in Nat : d < F /\ x = (q * F) + d /\ x \div F = q
  BY DivMod
<1>00. PICK r \in Nat, e \in Nat : e < G /\ q = (r * G) + e
  BY DivMod
<1>1. e < G /\ d < F /\ x = (r * (F * G)) + ((e * F) + d) /\ x \div F = (r * G) + e
  <2>1. x = (((r * G) + e) * F) + d
    BY <1>0, <1>00
  <2>2. (((r * G) + e) * F) + d = (r * (F * G)) + ((e * F) + d)
    OBVIOUS
  <2> QED  BY <1>0, <1>00, <2>1, <2>2
<1>2. (e * F) + d \in Nat /\ (e * F) + d < F * G /\ F * G \in Nat \ {0}
  BY <1>1, Below
<1>3. PICK c \in Nat, H \in Nat \ {0} : c = (e * F) + d /\ H = F * G
  BY <1>2
<1>4. x \div H = r /\ x % H = c
  <2>1. x = (r * H) + c /\ c < H
    BY ONLY <1>1, <1>2, <1>3
  <2> QED  BY ONLY <2>1, Joined, r \in Nat, c \in Nat, H \in Nat \ {0}
<1>5. c \div F = e /\ c % F = d
  BY <1>1, <1>3, Joined
<1>6. (x \div F) \div G = r /\ (x \div F) % G = e
  BY <1>1, Joined
<1>7. x % F = d
  <2>1. PICK g \in Nat : g = (r * G) + e
    BY <1>1
  <2>2. x = (g * F) + d
    <3>1. (((r * G) + e) * F) + d = (r * (F * G)) + ((e * F) + d)
      OBVIOUS
    <3> QED  BY <3>1, <2>1, <1>1
  <2> QED  BY <2>1, <2>2, <1>1, Joined
<1> QED  BY ONLY <1>1, <1>3, <1>4, <1>5, <1>6, <1>7

(* A common factor. *)
LEMMA Scaled ==
    ASSUME NEW x \in Nat, NEW F \in Nat \ {0}, NEW G \in Nat \ {0}
    PROVE  /\ (x * G) \div (F * G) = x \div F
           /\ (x * G) % (F * G) = (x % F) * G
<1>1. PICK q \in Nat, d \in Nat : d < F /\ x = (q * F) + d /\ x \div F = q /\ x % F = d
  BY DivMod
<1>2. d * G \in Nat /\ F * G \in Nat \ {0} /\ d * G < F * G
  <2>1. (d + 1) * G <= F * G
    BY <1>1
  <2>2. (d + 1) * G = (d * G) + G
    OBVIOUS
  <2> QED  BY <2>1, <2>2
<1>3. x * G = (q * (F * G)) + (d * G)
  BY <1>1
<1>4. PICK c \in Nat, H \in Nat \ {0} : c = d * G /\ H = F * G
  BY <1>2
<1>5. x * G = (q * H) + c /\ c < H
  BY <1>2, <1>3, <1>4
<1>6. (x * G) \div H = q /\ (x * G) % H = c
  BY <1>5, Joined
<1> QED  BY ONLY <1>1, <1>4, <1>6

-----------------------------------------------------------------------------
(* What is left of word x when f of its bits have not been used, at the    *)
(* top of a word as vliDecode keeps it.                                    *)
Unused(x, f) == (x % Pow[f]) * Pow[WordBits - f]

(* Taking b bits of a word that has them.                                  *)
LEMMA TakeWithin ==
    ASSUME NEW x \in Nat, NEW f \in 0 .. WordBits, NEW b \in 0 .. f
    PROVE  /\ Unused(x, f) \in Nat
           /\ Unused(x, f) \div Pow[WordBits - b] = (x % Pow[f]) \div Pow[f - b]
           /\ (Unused(x, f) * Pow[b]) % Pow[WordBits] = Unused(x, f - b)
<1>0. /\ WordBits \in Nat /\ f \in Nat /\ b \in Nat /\ f - b \in Nat /\ WordBits - f \in Nat
      /\ f - b \in 0 .. WordBits /\ WordBits - b \in 0 .. WordBits
      /\ WordBits - (f - b) = (WordBits - f) + b /\ WordBits - b = (f - b) + (WordBits - f)
      /\ WordBits = (f - b) + ((WordBits - f) + b) /\ f = (f - b) + b
      /\ (WordBits - f) + b \in Nat
  BY CodecSizes
<1>1. PICK F \in Nat \ {0}, O \in Nat \ {0}, B \in Nat \ {0}, U \in Nat \ {0} :
        F = Pow[f] /\ O = Pow[f - b] /\ B = Pow[b] /\ U = Pow[WordBits - f]
  <2>1. f \in 0 .. WordBits /\ b \in 0 .. WordBits /\ WordBits - f \in 0 .. WordBits
    BY <1>0
  <2> QED  BY <1>0, <2>1, PowStep
<1>2. F = O * B
  <2>1. Pow[(f - b) + b] = Pow[f - b] * Pow[b]
    BY <1>0, PowAdd
  <2> QED  BY <2>1, <1>0, <1>1
<1>3. Pow[WordBits - b] = O * U
  <2>1. Pow[(f - b) + (WordBits - f)] = Pow[f - b] * Pow[WordBits - f]
    BY <1>0, PowAdd
  <2> QED  BY <2>1, <1>0, <1>1
<1>4. Pow[WordBits - (f - b)] = U * B
  <2>1. Pow[(WordBits - f) + b] = Pow[WordBits - f] * Pow[b]
    BY <1>0, PowAdd
  <2> QED  BY <2>1, <1>0, <1>1
<1>5. Pow[WordBits] = O * (U * B)
  <2>1. Pow[(f - b) + ((WordBits - f) + b)] = Pow[f - b] * Pow[(WordBits - f) + b]
    BY <1>0, PowAdd
  <2>2. Pow[WordBits] = Pow[f - b] * Pow[(WordBits - f) + b]
    BY <2>1, <1>0
  <2>3. Pow[(WordBits - f) + b] = U * B
    BY <1>4, <1>0
  <2> QED  BY ONLY <2>2, <2>3, <1>1
<1>6. PICK y \in Nat : y = x % F
  BY <1>1, DivMod
<1>7. Unused(x, f) = y * U
  BY <1>1, <1>6 DEF Unused
<1>8. (y * U) \div (O * U) = y \div O
  BY Scaled
<1>9. ((y * U) * B) % (O * (U * B)) = (y % O) * (U * B)
  <2>1. (y * U) * B = y * (U * B) /\ U * B \in Nat \ {0}
    OBVIOUS
  <2>2. PICK H \in Nat \ {0} : H = U * B
    BY <2>1
  <2>3. (y * H) % (O * H) = (y % O) * H
    BY Scaled
  <2> QED  BY ONLY <2>1, <2>2, <2>3
<1>10. y % O = x % O
  <2>1. (x % (O * B)) % O = x % O
    BY DivDiv
  <2> QED  BY ONLY <2>1, <1>2, <1>6
<1>11. Unused(x, f - b) = (x % O) * (U * B)
  BY <1>1, <1>4 DEF Unused
<1>12. y * U \in Nat
  OBVIOUS
<1>13. Unused(x, f) \div Pow[WordBits - b] = (x % Pow[f]) \div Pow[f - b]
  BY ONLY <1>1, <1>3, <1>6, <1>7, <1>8
<1>14. (Unused(x, f) * Pow[b]) % Pow[WordBits] = Unused(x, f - b)
  BY ONLY <1>1, <1>5, <1>7, <1>9, <1>10, <1>11
<1> QED  BY ONLY <1>7, <1>12, <1>13, <1>14

(* Taking what is left of a word, and r bits of the next one.              *)
LEMMA TakeAcross ==
    ASSUME NEW x \in Nat, NEW f \in 0 .. WordBits, NEW y \in Nat, NEW r \in 0 .. WordBits
    PROVE  /\ Unused(x, f) \div Pow[WordBits - f] = x % Pow[f]
           /\ (y * Pow[r]) % Pow[WordBits] = Unused(y, WordBits - r)
<1>0. /\ WordBits \in Nat /\ f \in Nat /\ r \in Nat /\ WordBits - f \in Nat /\ WordBits - r \in Nat
      /\ WordBits = (WordBits - r) + r /\ WordBits - (WordBits - r) = r
      /\ WordBits - r \in 0 .. WordBits /\ WordBits - f \in 0 .. WordBits
  BY CodecSizes
<1>1. PICK F \in Nat \ {0}, U \in Nat \ {0}, R \in Nat \ {0}, Q \in Nat \ {0} :
        F = Pow[f] /\ U = Pow[WordBits - f] /\ R = Pow[r] /\ Q = Pow[WordBits - r]
  BY <1>0, PowStep
<1>2. Pow[WordBits] = Q * R
  <2>1. Pow[(WordBits - r) + r] = Pow[WordBits - r] * Pow[r]
    BY <1>0, PowAdd
  <2> QED  BY <2>1, <1>0, <1>1
<1>3. PICK z \in Nat : z = x % F
  BY <1>1, DivMod
<1>4. (z * U) \div U = z
  OBVIOUS
<1>5. (y * R) % (Q * R) = (y % Q) * R
  BY Scaled
<1>6. Unused(x, f) = z * U
  BY <1>1, <1>3 DEF Unused
<1>7. Unused(y, WordBits - r) = (y % Q) * R
  BY <1>0, <1>1 DEF Unused
<1>8. Unused(x, f) \div Pow[WordBits - f] = x % Pow[f]
  BY ONLY <1>1, <1>3, <1>4, <1>6
<1>9. (y * Pow[r]) % Pow[WordBits] = Unused(y, WordBits - r)
  BY ONLY <1>1, <1>2, <1>5, <1>7
<1> QED  BY <1>8, <1>9

(* The low e bits of w are free: it is a multiple of Pow[e].               *)
Free(w, e) == \E q \in Nat : w = q * Pow[e] /\ q < Pow[WordBits - e]

(* A word with free bits is a word.                                        *)
LEMMA FreeBelow ==
    ASSUME NEW e \in 0 .. WordBits, NEW w, Free(w, e)
    PROVE  w \in Nat /\ w < Pow[WordBits]
<1>0. /\ WordBits \in Nat /\ e \in Nat /\ WordBits - e \in Nat /\ WordBits - e \in 0 .. WordBits
      /\ WordBits = e + (WordBits - e)
  BY CodecSizes
<1>1. PICK E \in Nat \ {0}, U \in Nat \ {0} : E = Pow[e] /\ U = Pow[WordBits - e]
  BY <1>0, PowStep
<1>2. Pow[WordBits] = E * U
  <2>1. Pow[e + (WordBits - e)] = Pow[e] * Pow[WordBits - e]
    BY <1>0, PowAdd
  <2> QED  BY <2>1, <1>0, <1>1
<1>3. PICK q \in Nat : w = q * E /\ q < U
  BY <1>1 DEF Free
<1>4. (q * E) + 0 < E * U /\ (q * E) \in Nat
  BY <1>3, Below
<1> QED  BY <1>2, <1>3, <1>4

(* b bits are put into a word that has room for them.                      *)
LEMMA FillWithin ==
    ASSUME NEW e \in 0 .. WordBits, NEW b \in 0 .. e, NEW w, Free(w, e),
           NEW v \in Nat, v < Pow[b]
    PROVE  /\ w \in Nat /\ w + (v * Pow[e - b]) \in Nat
           /\ ((w + (v * Pow[e - b])) % Pow[e]) \div Pow[e - b] = v
           /\ (w + (v * Pow[e - b])) \div Pow[e] = w \div Pow[e]
           /\ Free(w + (v * Pow[e - b]), e - b)
<1>0. /\ WordBits \in Nat /\ e \in Nat /\ b \in Nat /\ e - b \in Nat /\ WordBits - e \in Nat
      /\ e = (e - b) + b /\ WordBits - (e - b) = (WordBits - e) + b
      /\ e - b \in 0 .. WordBits /\ b \in 0 .. WordBits /\ WordBits - e \in 0 .. WordBits
  BY CodecSizes
<1>1. PICK E \in Nat \ {0}, O \in Nat \ {0}, B \in Nat \ {0}, U \in Nat \ {0} :
        E = Pow[e] /\ O = Pow[e - b] /\ B = Pow[b] /\ U = Pow[WordBits - e]
  BY <1>0, PowStep
<1>2. E = O * B
  <2>1. Pow[(e - b) + b] = Pow[e - b] * Pow[b]
    BY <1>0, PowAdd
  <2> QED  BY <2>1, <1>0, <1>1
<1>3. Pow[WordBits - (e - b)] = U * B
  <2>1. Pow[(WordBits - e) + b] = Pow[WordBits - e] * Pow[b]
    BY <1>0, PowAdd
  <2> QED  BY <2>1, <1>0, <1>1
<1>4. PICK q \in Nat : w = q * E /\ q < U
  BY <1>1 DEF Free
<1>5. v * O \in Nat /\ v * O < E
  <2>1. (v * O) + 0 < O * B
    BY <1>1, Below
  <2>2. v * O \in Nat
    OBVIOUS
  <2> QED  BY <2>1, <2>2, <1>2
<1>6. PICK d \in Nat : d = v * O /\ d < E
  BY <1>5
<1>7. ((q * E) + d) \div E = q /\ ((q * E) + d) % E = d /\ (q * E) \div E = q /\ q * E \in Nat
  <2>1. ((q * E) + d) \div E = q /\ ((q * E) + d) % E = d
    BY <1>6, Joined
  <2>2. (q * E) \div E = q /\ q * E \in Nat
    OBVIOUS
  <2> QED  BY ONLY <2>1, <2>2
<1>8. d \div O = v
  <2>1. (v * O) \div O = v
    OBVIOUS
  <2> QED  BY <2>1, <1>6
<1>9. (q * E) + d = ((q * B) + v) * O
  <2>1. (q * (O * B)) + (v * O) = ((q * B) + v) * O
    OBVIOUS
  <2> QED  BY <2>1, <1>2, <1>6
<1>10. (q * B) + v \in Nat /\ (q * B) + v < U * B
  <2>1. (q * B) + v < B * U /\ (q * B) + v \in Nat
    BY <1>1, <1>4, Below
  <2> QED  BY <2>1
<1>11. Free(w + (v * Pow[e - b]), e - b)
  <2>1. w + (v * Pow[e - b]) = ((q * B) + v) * Pow[e - b]
    BY ONLY <1>1, <1>4, <1>6, <1>9
  <2>2. (q * B) + v < Pow[WordBits - (e - b)]
    BY ONLY <1>3, <1>10
  <2> QED  BY <2>1, <2>2, <1>10 DEF Free
<1>12. w = q * E /\ w + (v * Pow[e - b]) = (q * E) + d
  BY <1>1, <1>4, <1>6
<1>13. (q * E) + d \in Nat
  BY <1>7
<1> QED  BY ONLY <1>1, <1>7, <1>8, <1>11, <1>12, <1>13

(* b bits are put into what a word has room for and the next one.          *)
LEMMA FillAcross ==
    ASSUME NEW e \in 0 .. WordBits, NEW r \in 0 .. WordBits, e + r <= WordBits,
           NEW w, Free(w, e), NEW v \in Nat, v < Pow[e + r],
           NEW y, y = (v * Pow[WordBits - r]) % Pow[WordBits]
    PROVE  /\ w \in Nat /\ w + (v \div Pow[r]) \in Nat /\ y \in Nat
           /\ (((w + (v \div Pow[r])) % Pow[e]) * Pow[r]) + (y \div Pow[WordBits - r]) = v
           /\ (w + (v \div Pow[r])) \div Pow[e] = w \div Pow[e]
           /\ w + (v \div Pow[r]) < Pow[WordBits]
           /\ Free(y, WordBits - r)
<1>0. /\ WordBits \in Nat /\ e \in Nat /\ r \in Nat /\ WordBits - e \in Nat /\ WordBits - r \in Nat
      /\ WordBits = (WordBits - e) + e /\ WordBits = r + (WordBits - r)
      /\ WordBits - (WordBits - r) = r
      /\ WordBits - e \in 0 .. WordBits /\ WordBits - r \in 0 .. WordBits
  BY CodecSizes
<1>1. PICK E \in Nat \ {0}, R \in Nat \ {0}, O \in Nat \ {0}, U \in Nat \ {0} :
        E = Pow[e] /\ R = Pow[r] /\ O = Pow[WordBits - r] /\ U = Pow[WordBits - e]
  BY <1>0, PowStep
<1>2. Pow[e + r] = E * R /\ Pow[WordBits] = E * U /\ Pow[WordBits] = R * O
  <2>1. Pow[e + r] = Pow[e] * Pow[r]
    BY <1>0, PowAdd
  <2>2. Pow[(WordBits - e) + e] = Pow[WordBits - e] * Pow[e]
    BY <1>0, PowAdd
  <2>3. Pow[r + (WordBits - r)] = Pow[r] * Pow[WordBits - r]
    BY <1>0, PowAdd
  <2>4. U * E = E * U
    OBVIOUS
  <2> QED  BY <2>1, <2>2, <2>3, <2>4, <1>0, <1>1
<1>3. PICK q \in Nat : w = q * E /\ q < U
  BY <1>1 DEF Free
<1>4. PICK d \in Nat, c \in Nat : c < R /\ v = (d * R) + c /\ v \div R = d /\ v % R = c
  BY DivMod
<1>5. d < E
  <2> SUFFICES ASSUME E <= d PROVE FALSE
    BY <1>1
  <2>1. E * R <= d * R
    OBVIOUS
  <2>2. d * R <= v /\ v < E * R
    BY <1>2, <1>4
  <2> QED  BY <2>1, <2>2
<1>6. ((q * E) + d) \div E = q /\ ((q * E) + d) % E = d /\ (q * E) \div E = q
      /\ (q * E) + d \in Nat /\ q * E \in Nat
  <2>1. ((q * E) + d) \div E = q /\ ((q * E) + d) % E = d
    BY <1>5, Joined
  <2>2. (q * E) \div E = q /\ q * E \in Nat /\ (q * E) + d \in Nat
    OBVIOUS
  <2> QED  BY ONLY <2>1, <2>2
<1>7. y = c * O
  <2>1. (v * O) % (R * O) = (v % R) * O
    BY Scaled
  <2> QED  BY ONLY <2>1, <1>1, <1>2, <1>4, y = (v * Pow[WordBits - r]) % Pow[WordBits]
<1>8. (c * O) \div O = c /\ c * O \in Nat
  OBVIOUS
<1>9. Free(y, WordBits - r)
  <2>1. y = c * Pow[WordBits - r] /\ c < Pow[WordBits - (WordBits - r)]
    BY <1>0, <1>1, <1>4, <1>7
  <2> QED  BY <2>1 DEF Free
<1>10. (q * E) + d < Pow[WordBits]
  <2>1. (q * E) + d < E * U
    BY <1>3, <1>5, Below
  <2> QED  BY ONLY <2>1, <1>2
<1>11. w = q * E /\ w + (v \div Pow[r]) = (q * E) + d
  BY <1>1, <1>3, <1>4
<1> QED  BY ONLY <1>1, <1>4, <1>6, <1>7, <1>8, <1>9, <1>10, <1>11

(* Bits above the free ones stay when only free ones are filled.           *)
LEMMA KeptBits ==
    ASSUME NEW x \in Nat, NEW y \in Nat, NEW m \in 0 .. WordBits, NEW o \in 0 .. m,
           NEW e \in 0 .. o, x \div Pow[e] = y \div Pow[e]
    PROVE  /\ x \div Pow[o] = y \div Pow[o]
           /\ (x % Pow[m]) \div Pow[o] = (y % Pow[m]) \div Pow[o]
<1>0. /\ WordBits \in Nat /\ e \in Nat /\ o - e \in Nat /\ m - o \in Nat /\ o \in Nat
      /\ o = e + (o - e) /\ m = o + (m - o)
      /\ e \in 0 .. WordBits /\ o \in 0 .. WordBits /\ o - e \in 0 .. WordBits
      /\ m - o \in 0 .. WordBits /\ e + (o - e) <= WordBits /\ o + (m - o) <= WordBits
  BY CodecSizes
<1>1. PICK E \in Nat \ {0}, G \in Nat \ {0}, O \in Nat \ {0}, H \in Nat \ {0} :
        E = Pow[e] /\ G = Pow[o - e] /\ O = Pow[o] /\ H = Pow[m - o]
  BY <1>0, PowStep
<1>2. Pow[o] = E * G
  <2>1. Pow[e + (o - e)] = Pow[e] * Pow[o - e]
    BY <1>0, PowAdd
  <2> QED  BY <2>1, <1>0, <1>1
<1>3. Pow[m] = O * H
  <2>1. Pow[o + (m - o)] = Pow[o] * Pow[m - o]
    BY <1>0, PowAdd
  <2> QED  BY <2>1, <1>0, <1>1
<1>4. \A z \in {x, y} : z \div (E * G) = (z \div E) \div G
  <2> TAKE z \in {x, y}
  <2>1. z \in Nat
    OBVIOUS
  <2> QED  BY ONLY DivDiv, <2>1, E \in Nat \ {0}, G \in Nat \ {0}
<1>5. x \div Pow[o] = y \div Pow[o]
  BY ONLY <1>1, <1>2, <1>4, x \div Pow[e] = y \div Pow[e]
<1>6. \A z \in {x, y} : (z % (O * H)) \div O = (z \div O) % H
  <2> TAKE z \in {x, y}
  <2>1. z \in Nat
    OBVIOUS
  <2> QED  BY ONLY DivDiv, <2>1, O \in Nat \ {0}, H \in Nat \ {0}
<1>7. (x % Pow[m]) \div Pow[o] = (y % Pow[m]) \div Pow[o]
  BY ONLY <1>1, <1>3, <1>5, <1>6
<1> QED  BY <1>5, <1>7
-----------------------------------------------------------------------------
(* Numbers that have a bit length. *)
Small(n) == n \in Int /\ Magnitude(n) < Pow[MaxBits]

(* The bit length is the number of bits that the magnitude needs.          *)
LEMMA Lengths ==
    ASSUME NEW n, Small(n)
    PROVE  /\ BitLength(n) \in 0 .. MaxBits /\ Magnitude(n) \in Nat
           /\ Magnitude(n) < Pow[BitLength(n)]
           /\ BitLength(n) > 0 => Magnitude(n) >= Pow[BitLength(n) - 1]
<1>1. WordBits \in Nat /\ MaxBits \in Nat /\ MaxBits \in 0 .. MaxBits
      /\ \A k \in 0 .. MaxBits : k \in 0 .. WordBits
  BY CodecSizes
<1>2. PICK m \in Nat : m = Magnitude(n)
  BY DEF Small, Magnitude
<1> DEFINE K == {k \in 0 .. MaxBits : m < Pow[k]}
<1>3. MaxBits \in K
  BY <1>1, <1>2 DEF Small
<1>4. PICK b \in K : \A k \in K : b <= k
  <2>1. K \subseteq Nat /\ K # {}
    BY <1>3
  <2> HIDE DEF K
  <2> QED  BY <2>1, Least
<1>5. b \in 0 .. MaxBits /\ m < Pow[b]
  OBVIOUS
<1>6. b > 0 => m >= Pow[b - 1]
  <2> HAVE b > 0
  <2>1. b - 1 \in 0 .. MaxBits /\ ~(b <= b - 1)
    BY <1>5, <1>1
  <2>2. ~(m < Pow[b - 1])
    BY <2>1, <1>4
  <2>3. Pow[b - 1] \in Nat
    BY <2>1, <1>1, PowStep
  <2> QED  BY <2>2, <2>3
<1> DEFINE P(k) == m < Pow[k] /\ (k > 0 => m >= Pow[k - 1])
<1>7. \E k \in 0 .. MaxBits : P(k)
  BY <1>5, <1>6
<1>8. BitLength(n) = CHOOSE k \in 0 .. MaxBits : P(k)
  BY <1>2 DEF BitLength
<1>9. BitLength(n) \in 0 .. MaxBits /\ P(BitLength(n))
  <2> HIDE DEF P
  <2> QED  BY <1>7, <1>8
<1> QED  BY <1>2, <1>9

(* What vliDecode makes of b bits with the value v. *)
Number(b, v) == IF b = 0 THEN 0
                ELSE IF v \div Pow[b - 1] # 0 THEN v
                ELSE -(Pow[b] - 1 - v)

(* The bits of a number fit its length and say which number it is: the     *)
(* first one is set when it is positive and not when it is negative.       *)
LEMMA SignKept ==
    ASSUME NEW n, Small(n)
    PROVE  /\ Bits(n) \in Nat /\ Bits(n) < Pow[BitLength(n)]
           /\ Number(BitLength(n), Bits(n)) = n
<1>1. PICK b \in 0 .. MaxBits, m \in Nat :
        /\ b = BitLength(n) /\ m = Magnitude(n)
        /\ m < Pow[b] /\ (b > 0 => m >= Pow[b - 1])
  BY Lengths
<1>2. b \in 0 .. WordBits
  BY CodecSizes
<1>3. n \in Int /\ m = (IF n < 0 THEN -n ELSE n)
  BY <1>1 DEF Small, Magnitude
<1>4. Bits(n) = IF n >= 0 THEN n ELSE Pow[b] - 1 - m
  BY <1>1 DEF Bits
<1>5. CASE b = 0
  <2>1. m = 0
    BY <1>1, <1>5, PowUnfolded
  <2>2. n = 0
    BY <2>1, <1>3
  <2>3. Bits(n) = 0
    BY <2>2, <1>4
  <2> QED  BY <2>1, <2>2, <2>3, <1>1, <1>5 DEF Number
<1>6. CASE b # 0
  <2>1. PICK H \in Nat \ {0} : H = Pow[b - 1] /\ Pow[b] = 2 * H
    BY <1>2, <1>6, PowStep
  <2>2. m >= H /\ m < 2 * H
    BY <2>1, <1>1, <1>6
  <2>3. CASE n >= 0
    <3>1. n = m /\ Bits(n) = m
      BY <2>3, <1>3, <1>4
    <3>2. m \div H # 0
      BY <2>2
    <3> QED  BY <3>1, <3>2, <2>1, <2>2, <1>1, <1>6 DEF Number
  <2>4. CASE n < 0
    <3>1. PICK v \in Nat : v = 2 * H - 1 - m /\ v < H
      BY <2>2
    <3>2. Bits(n) = v /\ n = -m
      BY <3>1, <2>1, <2>4, <1>3, <1>4
    <3>3. v \div H = 0
      BY <3>1
    <3>4. -(2 * H - 1 - v) = -m
      BY <3>1
    <3> QED  BY <3>1, <3>2, <3>3, <3>4, <2>1, <1>1, <1>6 DEF Number
  <2> QED  BY <2>3, <2>4, <1>3
<1> QED  BY <1>5, <1>6

-----------------------------------------------------------------------------
(* Where vliEncode and vliDecode stand between two numbers: a word, and    *)
(* how many of its bits come behind.                                       *)
Place == [word : Nat, free : Nat]

(* Place m is in the words ws, and not in the free bits of the last.       *)
Within(ws, e, m) == /\ m \in Place
                    /\ m.word \in 1 .. Len(ws) /\ m.free \in 0 .. WordBits
                    /\ m.word = Len(ws) => m.free >= e

(* Between the places m and o of ws are b bits with the value v.           *)
Packed(ws, m, b, v, o) ==
    /\ b <= m.free => /\ o.word = m.word /\ o.free = m.free - b
                      /\ (ws[m.word] % Pow[m.free]) \div Pow[o.free] = v
    /\ b > m.free => /\ o.word = m.word + 1 /\ o.free = WordBits - (b - m.free)
                     /\ ((ws[m.word] % Pow[m.free]) * Pow[b - m.free])
                            + (ws[o.word] \div Pow[o.free]) = v

(* s are the places before, between and behind the first Len(bs) numbers   *)
(* of ps in the words ws, the last of which has e free bits.               *)
Places(ws, e, bs, ps, s) ==
    /\ s \in [0 .. Len(bs) -> Place]
    /\ s[0] = [word |-> 1, free |-> WordBits]
    /\ s[Len(bs)] = [word |-> Len(ws), free |-> e]
    /\ \A k \in 0 .. Len(bs) : Within(ws, e, s[k])
    /\ \A k \in 1 .. Len(bs) : /\ bs[k] = BitLength(ps[k].number)
                               /\ Packed(ws, s[k - 1], bs[k], Bits(ps[k].number), s[k])

(* The words hold the numbers of the first Len(bs) pairs. *)
Written(ws, e, bs, ps) == \E s : Places(ws, e, bs, ps, s)

WordTypes(ws, e) == /\ ws \in Seq(Nat) /\ Len(ws) > 0 /\ e \in 0 .. WordBits
                    /\ \A i \in 1 .. Len(ws) : ws[i] < Pow[WordBits]
                    /\ Free(ws[Len(ws)], e)

(* Before the first number there is one word, and all of it is free.       *)
LEMMA WrittenFirst ==
    ASSUME NEW ps
    PROVE  Written(<<0>>, WordBits, <<>>, ps) /\ WordTypes(<<0>>, WordBits)
<1>1. WordBits \in Nat /\ WordBits \in 0 .. WordBits /\ 0 \in 0 .. WordBits
  BY CodecSizes
<1> DEFINE s == [k \in 0 .. 0 |-> [word |-> 1, free |-> WordBits]]
<1>2. Places(<<0>>, WordBits, <<>>, ps, s)
  BY <1>1 DEF Places, Within, Place
<1>3. Free(0, WordBits)
  <2>1. Pow[WordBits] \in Nat \ {0} /\ Pow[WordBits - WordBits] = 1
    BY <1>1, PowStep, PowUnfolded
  <2>2. 0 = 0 * Pow[WordBits] /\ 0 < Pow[WordBits - WordBits]
    BY <2>1
  <2> QED  BY <2>2 DEF Free
<1>4. Pow[WordBits] \in Nat \ {0}
  BY <1>1, PowStep
<1>5. WordTypes(<<0>>, WordBits)
  BY <1>1, <1>3, <1>4 DEF WordTypes
<1> HIDE DEF s
<1> QED  BY <1>2, <1>5 DEF Written
(* ws2 goes on where ws has e free bits. *)
Grown(ws, e, ws2) == /\ ws2 \in Seq(Nat) /\ Len(ws) <= Len(ws2)
                     /\ \A i \in 1 .. Len(ws) - 1 : ws2[i] = ws[i]
                     /\ ws2[Len(ws)] \div Pow[e] = ws[Len(ws)] \div Pow[e]

(* What is between two places stays when the words go on.                  *)
LEMMA PackedKept ==
    ASSUME NEW ws, NEW e, WordTypes(ws, e), NEW ws2, Grown(ws, e, ws2),
           NEW m, Within(ws, e, m), NEW o, Within(ws, e, o), NEW b \in Nat, NEW v,
           Packed(ws, m, b, v, o)
    PROVE  Packed(ws2, m, b, v, o)
<1>1. PICK L \in Nat \ {0} : L = Len(ws)
  BY DEF WordTypes
<1>2. /\ \A i \in 1 .. L : ws[i] \in Nat /\ ws2[i] \in Nat
      /\ \A i \in 1 .. L - 1 : ws2[i] = ws[i]
      /\ ws2[L] \div Pow[e] = ws[L] \div Pow[e]
  BY <1>1 DEF WordTypes, Grown
<1>3. e \in 0 .. WordBits /\ WordBits \in Nat
  BY CodecSizes DEF WordTypes
<1>4. PICK mw \in 1 .. L, mf \in 0 .. WordBits : mw = m.word /\ mf = m.free /\ (mw = L => mf >= e)
  BY <1>1 DEF Within
<1>5. PICK ow \in 1 .. L, of \in 0 .. WordBits : ow = o.word /\ of = o.free /\ (ow = L => of >= e)
  BY <1>1 DEF Within
<1>6. CASE b <= mf
  <2>1. ow = mw /\ of = mf - b /\ (ws[mw] % Pow[mf]) \div Pow[of] = v
    BY <1>4, <1>5, <1>6 DEF Packed
  <2>2. (ws2[mw] % Pow[mf]) \div Pow[of] = v
    <3>1. CASE mw = L
      <4>1. of \in 0 .. mf /\ e \in 0 .. of
        BY <1>3, <1>4, <1>5, <2>1, <3>1
      <4>2. ws2[L] \in Nat /\ ws[L] \in Nat
        BY <1>2
      <4>3. (ws2[L] % Pow[mf]) \div Pow[of] = (ws[L] % Pow[mf]) \div Pow[of]
        BY <1>2, <4>1, <4>2, KeptBits
      <4> QED  BY ONLY <2>1, <3>1, <4>3
    <3>2. CASE mw # L
      <4>1. mw \in 1 .. L - 1
        BY <3>2
      <4> QED  BY <4>1, <1>2, <2>1
    <3> QED  BY <3>1, <3>2
  <2> QED  BY <1>4, <1>5, <1>6, <2>1, <2>2 DEF Packed
<1>7. CASE b > mf
  <2>1. /\ ow = mw + 1 /\ of = WordBits - (b - mf)
        /\ ((ws[mw] % Pow[mf]) * Pow[b - mf]) + (ws[ow] \div Pow[of]) = v
    BY <1>4, <1>5, <1>7 DEF Packed
  <2>2. mw \in 1 .. L - 1 /\ ws2[mw] = ws[mw]
    BY <2>1, <1>2
  <2>3. ws2[ow] \div Pow[of] = ws[ow] \div Pow[of]
    <3>1. CASE ow = L
      <4>1. of \in 0 .. WordBits /\ e \in 0 .. of /\ WordBits \in 0 .. WordBits
        BY <1>3, <1>5, <3>1
      <4>2. ws2[L] \in Nat /\ ws[L] \in Nat
        BY <1>2
      <4> QED  BY <1>2, <3>1, <4>1, <4>2, KeptBits
    <3>2. CASE ow # L
      <4>1. ow \in 1 .. L - 1
        BY <3>2
      <4> QED  BY <4>1, <1>2
    <3> QED  BY <3>1, <3>2
  <2>4. ~(b <= mf)
    BY <1>7
  <2>5. ((ws2[mw] % Pow[mf]) * Pow[b - mf]) + (ws2[ow] \div Pow[of]) = v
    BY ONLY <2>1, <2>2, <2>3
  <2> QED  BY ONLY <1>4, <1>5, <2>1, <2>4, <2>5 DEF Packed
<1> QED  BY <1>6, <1>7

(* A place stays one when the words go on.                                 *)
LEMMA WithinKept ==
    ASSUME NEW ws, NEW e, WordTypes(ws, e), NEW ws2, Grown(ws, e, ws2), NEW e2 \in Nat,
           Len(ws2) = Len(ws) => e2 <= e,
           NEW m, Within(ws, e, m)
    PROVE  Within(ws2, e2, m)
<1>1. PICK L \in Nat, L2 \in Nat : L = Len(ws) /\ L2 = Len(ws2) /\ L <= L2
  BY DEF WordTypes, Grown
<1>2. e \in Nat
  BY CodecSizes DEF WordTypes
<1>3. m.word \in 1 .. L /\ m.free \in 0 .. WordBits /\ (m.word = L => m.free >= e)
  BY <1>1 DEF Within
<1>4. m.word \in 1 .. L2 /\ (m.word = L2 => m.free >= e2)
  BY <1>1, <1>2, <1>3, CodecSizes
<1> QED  BY <1>1, <1>3, <1>4 DEF Within

(* One number more, with its place behind it.                              *)
LEMMA PlacesMore ==
    ASSUME NEW ws, NEW e, WordTypes(ws, e), NEW ws2, Grown(ws, e, ws2), NEW e2 \in 0 .. WordBits,
           Len(ws2) = Len(ws) => e2 <= e,
           NEW bs \in Seq(0 .. MaxBits), NEW ps, Written(ws, e, bs, ps),
           NEW b \in 0 .. MaxBits, b = BitLength(ps[Len(bs) + 1].number),
           Packed(ws2, [word |-> Len(ws), free |-> e], b, Bits(ps[Len(bs) + 1].number),
                  [word |-> Len(ws2), free |-> e2])
    PROVE  Written(ws2, e2, Append(bs, b), ps)
<1>1. PICK s : Places(ws, e, bs, ps, s)
  BY DEF Written
<1>2. PICK n \in Nat : n = Len(bs)
  OBVIOUS
<1>3. PICK cs : cs = Append(bs, b)
  OBVIOUS
<1>4. Len(cs) = n + 1 /\ cs[n + 1] = b /\ \A i \in 1 .. n : cs[i] = bs[i] /\ cs[i] \in Nat
  <2> DEFINE S == 0 .. MaxBits
  <2>1. bs \in Seq(S) /\ b \in S
    OBVIOUS
  <2>2. MaxBits \in Nat /\ \A i \in S : i \in Nat
    BY CodecSizes
  <2> HIDE DEF S
  <2>3. /\ Len(cs) = n + 1 /\ cs[n + 1] = b
        /\ \A i \in 1 .. n : cs[i] = bs[i] /\ bs[i] \in S
    BY <2>1, <1>2, <1>3
  <2> QED  BY ONLY <2>2, <2>3
<1> DEFINE last == [word |-> Len(ws2), free |-> e2]
           t == [k \in 0 .. n + 1 |-> IF k = n + 1 THEN last ELSE s[k]]
<1>5. last \in Place /\ Within(ws2, e2, last)
  <2>1. Len(ws2) \in Nat /\ Len(ws2) > 0 /\ e2 \in Nat
    BY CodecSizes DEF Grown, WordTypes
  <2> QED  BY <2>1 DEF Within, Place
<1>6. /\ t \in [0 .. n + 1 -> Place] /\ t[n + 1] = last
      /\ \A k \in 0 .. n : t[k] = s[k]
  BY <1>1, <1>2, <1>5 DEF Places
<1> HIDE DEF t
<1>7. t[0] = [word |-> 1, free |-> WordBits]
  BY <1>1, <1>6 DEF Places
<1>8. ASSUME NEW k \in 0 .. n + 1 PROVE Within(ws2, e2, t[k])
  <2>1. CASE k = n + 1
    BY <2>1, <1>5, <1>6
  <2>2. CASE k # n + 1
    <3>1. k \in 0 .. n
      BY <2>2
    <3>2. Within(ws, e, s[k])
      BY <3>1, <1>1, <1>2 DEF Places
    <3>3. e2 \in Nat
      BY CodecSizes
    <3> QED  BY <3>1, <3>2, <3>3, <1>6, WithinKept
  <2> QED  BY <2>1, <2>2
<1>9. ASSUME NEW k \in 1 .. n + 1
      PROVE /\ cs[k] = BitLength(ps[k].number)
            /\ Packed(ws2, t[k - 1], cs[k], Bits(ps[k].number), t[k])
  <2>1. CASE k = n + 1
    <3>1. t[k - 1] = s[n] /\ s[n] = [word |-> Len(ws), free |-> e] /\ t[k] = last
      BY <2>1, <1>1, <1>2, <1>6 DEF Places
    <3> QED  BY <3>1, <2>1, <1>2, <1>4
  <2>2. CASE k # n + 1
    <3>1. k \in 1 .. n /\ k \in 0 .. n /\ k - 1 \in 0 .. n
      BY <2>2
    <3>2. /\ Within(ws, e, s[k]) /\ Within(ws, e, s[k - 1])
          /\ bs[k] = BitLength(ps[k].number)
          /\ Packed(ws, s[k - 1], bs[k], Bits(ps[k].number), s[k])
      BY <3>1, <1>1, <1>2 DEF Places
    <3>3. cs[k] = bs[k] /\ bs[k] \in Nat /\ t[k] = s[k] /\ t[k - 1] = s[k - 1]
      BY <3>1, <1>4, <1>6
    <3>4. Packed(ws2, s[k - 1], bs[k], Bits(ps[k].number), s[k])
      BY <3>2, <3>3, PackedKept
    <3> QED  BY ONLY <3>2, <3>3, <3>4
  <2> QED  BY <2>1, <2>2
<1>10. Places(ws2, e2, cs, ps, t)
  BY <1>4, <1>6, <1>7, <1>8, <1>9 DEF Places
<1> QED  BY <1>3, <1>10 DEF Written

(* What vliEncode does to the words ws, with e free bits, for b bits with  *)
(* the value v.                                                            *)
Appended(ws, e, b, v) ==
    LET rest == b - e
        free == IF rest <= 0 THEN e - b ELSE WordBits - rest
        last == IF rest <= 0 THEN v * Pow[free] ELSE v \div Pow[rest]
        filled == [ws EXCEPT ![Len(ws)] = @ + last]
    IN [words |-> IF rest <= 0 THEN filled ELSE Append(filled, (v * Pow[free]) % Pow[WordBits]),
        empty |-> free]

(* vliEncode writes one number more.                                       *)
LEMMA WrittenMore ==
    ASSUME NEW ws, NEW e, WordTypes(ws, e), NEW bs \in Seq(0 .. MaxBits), NEW ps,
           Written(ws, e, bs, ps), Small(ps[Len(bs) + 1].number),
           NEW b, b = BitLength(ps[Len(bs) + 1].number),
           NEW a, a = Appended(ws, e, b, Bits(ps[Len(bs) + 1].number))
    PROVE  /\ WordTypes(a.words, a.empty) /\ b \in 0 .. MaxBits
           /\ Written(a.words, a.empty, Append(bs, b), ps)
<1>1. PICK v \in Nat : v = Bits(ps[Len(bs) + 1].number) /\ v < Pow[b]
  BY SignKept
<1>2. b \in 0 .. MaxBits
  BY Lengths
<1>3. WordBits \in Nat /\ MaxBits \in 1 .. WordBits /\ e \in 0 .. WordBits
  BY CodecSizes DEF WordTypes
<1>4. PICK L \in Nat \ {0} : L = Len(ws)
  BY DEF WordTypes
<1>5. ws \in Seq(Nat) /\ Free(ws[L], e) /\ \A i \in 1 .. L : ws[i] \in Nat /\ ws[i] < Pow[WordBits]
  BY <1>4 DEF WordTypes
<1>6. CASE b <= e
  <2>1. b \in 0 .. e /\ e - b \in 0 .. WordBits /\ b - e <= 0 /\ e - b <= e
    BY <1>2, <1>3, <1>6
  <2>2. PICK w : w = ws[L] + (v * Pow[e - b])
    OBVIOUS
  <2>3. /\ w \in Nat /\ (w % Pow[e]) \div Pow[e - b] = v
        /\ w \div Pow[e] = ws[L] \div Pow[e] /\ Free(w, e - b)
    <3>1. PICK u : u = ws[L]
      OBVIOUS
    <3>2. Free(u, e) /\ w = u + (v * Pow[e - b])
      BY ONLY <1>5, <2>2, <3>1
    <3>3. /\ w \in Nat /\ (w % Pow[e]) \div Pow[e - b] = v
          /\ w \div Pow[e] = u \div Pow[e] /\ Free(w, e - b)
      BY ONLY <1>1, <1>3, <2>1, <3>2, FillWithin, SMTT(30)
    <3> QED  BY ONLY <3>1, <3>3
  <2>4. PICK z : z = [ws EXCEPT ![L] = w]
    OBVIOUS
  <2>5. z \in Seq(Nat) /\ Len(z) = L /\ z[L] = w /\ \A i \in 1 .. L - 1 : z[i] = ws[i]
    BY <1>4, <1>5, <2>3, <2>4
  <2>6. a.words = z /\ a.empty = e - b
    BY <1>1, <1>4, <2>1, <2>2, <2>4 DEF Appended
  <2>7. Grown(ws, e, z)
    BY <1>4, <2>3, <2>5 DEF Grown
  <2>8. Packed(z, [word |-> L, free |-> e], b, v, [word |-> L, free |-> e - b])
    BY <1>2, <1>3, <1>6, <2>3, <2>5 DEF Packed
  <2>9. Written(z, e - b, Append(bs, b), ps)
    BY <1>1, <1>2, <1>4, <2>1, <2>5, <2>7, <2>8, PlacesMore
  <2>10. w < Pow[WordBits]
    BY <2>1, <2>3, FreeBelow
  <2>11. WordTypes(z, e - b)
    <3>1. ASSUME NEW i \in 1 .. L PROVE z[i] < Pow[WordBits]
      <4>1. i = L \/ i \in 1 .. L - 1
        OBVIOUS
      <4> QED  BY <4>1, <1>5, <2>5, <2>10
    <3>2. Len(z) > 0 /\ Free(z[Len(z)], e - b)
      BY <2>3, <2>5
    <3> QED  BY <2>1, <2>5, <3>1, <3>2 DEF WordTypes
  <2> QED  BY ONLY <2>6, <2>9, <2>11, <1>2
<1>7. CASE b > e
  <2>1. PICK r \in 0 .. WordBits : r = b - e
    BY <1>2, <1>3, <1>7
  <2>2. e + r = b /\ e + r <= WordBits /\ ~(b - e <= 0) /\ WordBits - r \in 0 .. WordBits
    BY <1>2, <1>3, <1>7, <2>1
  <2>3. PICK w, y : w = ws[L] + (v \div Pow[r]) /\ y = (v * Pow[WordBits - r]) % Pow[WordBits]
    OBVIOUS
  <2>4. /\ w \in Nat /\ y \in Nat
        /\ ((w % Pow[e]) * Pow[r]) + (y \div Pow[WordBits - r]) = v
        /\ w \div Pow[e] = ws[L] \div Pow[e] /\ w < Pow[WordBits] /\ Free(y, WordBits - r)
    <3>1. PICK u : u = ws[L]
      OBVIOUS
    <3>2. Free(u, e) /\ w = u + (v \div Pow[r])
      BY ONLY <1>5, <2>3, <3>1
    <3>3. v < Pow[e + r] /\ y = (v * Pow[WordBits - r]) % Pow[WordBits]
      BY ONLY <1>1, <2>2, <2>3
    <3>4. /\ w \in Nat /\ y \in Nat
          /\ ((w % Pow[e]) * Pow[r]) + (y \div Pow[WordBits - r]) = v
          /\ w \div Pow[e] = u \div Pow[e] /\ w < Pow[WordBits] /\ Free(y, WordBits - r)
      BY <1>3, <2>2, <3>2, <3>3, FillAcross
    <3> QED  BY ONLY <3>1, <3>4
  <2>5. PICK x : x = [ws EXCEPT ![L] = w]
    OBVIOUS
  <2>6. x \in Seq(Nat) /\ Len(x) = L /\ x[L] = w /\ \A i \in 1 .. L - 1 : x[i] = ws[i]
    BY <1>4, <1>5, <2>4, <2>5
  <2>7. PICK z : z = Append(x, y)
    OBVIOUS
  <2>8. /\ z \in Seq(Nat) /\ Len(z) = L + 1 /\ z[L] = w /\ z[L + 1] = y
        /\ \A i \in 1 .. L - 1 : z[i] = ws[i]
    BY <2>4, <2>6, <2>7
  <2>9. a.words = z /\ a.empty = WordBits - r
    BY <1>1, <1>4, <2>1, <2>2, <2>3, <2>5, <2>7 DEF Appended
  <2>10. Grown(ws, e, z)
    BY <1>4, <2>4, <2>8 DEF Grown
  <2>11. Packed(z, [word |-> L, free |-> e], b, v, [word |-> L + 1, free |-> WordBits - r])
    <3>1. ~(b <= e) /\ b - e = r /\ WordBits - (b - e) = WordBits - r
      BY <1>2, <1>3, <1>7, <2>1
    <3>2. ((z[L] % Pow[e]) * Pow[r]) + (z[L + 1] \div Pow[WordBits - r]) = v
      BY ONLY <2>4, <2>8
    <3> QED  BY ONLY <3>1, <3>2 DEF Packed
  <2>12. Written(z, WordBits - r, Append(bs, b), ps)
    <3>1. Len(z) = Len(ws) => WordBits - r <= e
      BY <1>4, <2>8
    <3>2. WordBits - r \in 0 .. WordBits /\ Grown(ws, e, z) /\ Len(ws) = L /\ Len(z) = L + 1
      BY <1>4, <2>2, <2>8, <2>10
    <3> QED  BY <1>1, <1>2, <2>11, <3>1, <3>2, PlacesMore
  <2>13. y < Pow[WordBits]
    BY <2>2, <2>4, FreeBelow
  <2>14. WordTypes(z, WordBits - r)
    <3>1. ASSUME NEW i \in 1 .. L + 1 PROVE z[i] < Pow[WordBits]
      <4>1. i = L + 1 \/ i = L \/ i \in 1 .. L - 1
        OBVIOUS
      <4> QED  BY ONLY <4>1, <1>5, <2>4, <2>8, <2>13
    <3>2. Len(z) > 0 /\ Free(z[Len(z)], WordBits - r)
      BY <2>4, <2>8
    <3> QED  BY <2>2, <2>8, <3>1, <3>2 DEF WordTypes
  <2> QED  BY ONLY <2>9, <2>12, <2>14, <1>2
<1> QED  BY <1>2, <1>3, <1>6, <1>7
-----------------------------------------------------------------------------
(* vliDecode stands at place m: nx is the word behind it, f bits of the    *)
(* one at it have not been used, and c holds them.                         *)
AtPlace(ws, m, nx, c, f) ==
    nx = m.word + 1 /\ f = m.free /\ c = Unused(ws[m.word], m.free)

(* What vliDecode takes for b bits: their value and what it keeps.         *)
Taken(ws, nx, c, f, b) ==
    LET more == b > 0 /\ f < b
        rest == IF more THEN b - f ELSE b
        word == IF nx \in DOMAIN ws THEN ws[nx] ELSE 0
        from == IF more THEN word ELSE c
        high == IF more THEN (c \div Pow[WordBits - f]) * Pow[rest] ELSE 0
    IN [raw |-> high + (from \div Pow[WordBits - rest]),
        next |-> IF more THEN nx + 1 ELSE nx,
        cur |-> (from * Pow[rest]) % Pow[WordBits],
        full |-> (IF more THEN WordBits ELSE f) - rest]

(* The bits between two places are taken, and then the second is reached.  *)
LEMMA BitsTaken ==
    ASSUME NEW ws, NEW e, WordTypes(ws, e), NEW m, Within(ws, e, m), NEW o, Within(ws, e, o),
           NEW b \in 0 .. MaxBits, NEW v, Packed(ws, m, b, v, o),
           NEW nx, NEW c, NEW f, AtPlace(ws, m, nx, c, f),
           NEW a, a = Taken(ws, nx, c, f, b)
    PROVE  a.raw = v /\ AtPlace(ws, o, a.next, a.cur, a.full) /\ a.next \in Nat /\ a.cur \in Nat
<1>1. WordBits \in Nat /\ MaxBits \in 1 .. WordBits /\ b \in Nat /\ b \in 0 .. WordBits
  BY CodecSizes
<1>2. PICK L \in Nat \ {0} : L = Len(ws) /\ DOMAIN ws = 1 .. L /\ \A i \in 1 .. L : ws[i] \in Nat
  BY DEF WordTypes
<1>3. PICK mw \in 1 .. L, mf \in 0 .. WordBits : mw = m.word /\ mf = m.free
  BY <1>2 DEF Within
<1>4. PICK ow \in 1 .. L, of \in 0 .. WordBits : ow = o.word /\ of = o.free
  BY <1>2 DEF Within
<1>5. PICK x \in Nat : x = ws[mw]
  BY <1>2
<1>6. PICK y \in Nat : y = ws[ow]
  BY <1>2
<1>7. nx = mw + 1 /\ f = mf /\ c = Unused(x, mf)
  BY <1>3, <1>5 DEF AtPlace
<1>8. \A k \in 0 .. WordBits : Unused(y, k) \in Nat
  <2> TAKE k \in 0 .. WordBits
  <2>1. 0 \in 0 .. k
    BY <1>1
  <2> QED  BY <2>1, TakeWithin
<1>9. CASE b <= mf
  <2>1. ow = mw /\ of = mf - b /\ (x % Pow[mf]) \div Pow[of] = v
    BY <1>3, <1>4, <1>5, <1>9 DEF Packed
  <2>2. b \in 0 .. mf /\ ~(b > 0 /\ mf < b) /\ x = y
    BY <1>1, <1>5, <1>6, <1>9, <2>1
  <2>3. /\ c \in Nat /\ c \div Pow[WordBits - b] = v
        /\ (c * Pow[b]) % Pow[WordBits] = Unused(x, of)
    BY <1>7, <2>1, <2>2, TakeWithin
  <2>4. c \div Pow[WordBits - b] \in Nat
    <3>1. WordBits - b \in 0 .. WordBits
      BY <1>1
    <3>2. Pow[WordBits - b] \in Nat \ {0}
      BY <3>1, PowStep
    <3> QED  BY <2>3, <3>2, DivMod
  <2>5. 0 + (c \div Pow[WordBits - b]) = v
    BY <2>3, <2>4
  <2>6. a.raw = v /\ a.next = nx /\ a.cur = Unused(x, of) /\ a.full = mf - b
    <3>1. a = [raw |-> 0 + (c \div Pow[WordBits - b]), next |-> nx,
               cur |-> (c * Pow[b]) % Pow[WordBits], full |-> mf - b]
      BY <1>7, <2>2 DEF Taken
    <3> QED  BY ONLY <3>1, <2>3, <2>5
  <2>7. nx \in Nat /\ Unused(x, of) \in Nat
    BY <1>7, <1>8, <2>2
  <2> QED  BY ONLY <1>4, <1>6, <1>7, <2>1, <2>2, <2>6, <2>7 DEF AtPlace
<1>10. CASE b > mf
  <2>1. PICK r \in 0 .. WordBits : r = b - mf
    BY <1>1, <1>10
  <2>2. /\ ow = mw + 1 /\ of = WordBits - r
        /\ ((x % Pow[mf]) * Pow[r]) + (y \div Pow[of]) = v
    <3>1. ~(b <= mf)
      BY <1>1, <1>10
    <3> QED  BY ONLY <3>1, <1>3, <1>4, <1>5, <1>6, <1>10, <2>1, Packed(ws, m, b, v, o) DEF Packed
  <2>3. b > 0 /\ mf < b /\ nx = ow /\ nx \in DOMAIN ws
    BY <1>1, <1>2, <1>7, <1>10, <2>2
  <2>4. c \div Pow[WordBits - mf] = x % Pow[mf] /\ (y * Pow[r]) % Pow[WordBits] = Unused(y, of)
    BY <1>7, <2>2, TakeAcross
  <2>5. a = [raw |-> ((c \div Pow[WordBits - mf]) * Pow[r]) + (y \div Pow[WordBits - r]),
             next |-> nx + 1, cur |-> (y * Pow[r]) % Pow[WordBits], full |-> WordBits - r]
    BY ONLY <1>6, <1>7, <2>1, <2>3, a = Taken(ws, nx, c, f, b) DEF Taken
  <2>6. a.raw = v /\ a.next = ow + 1 /\ a.cur = Unused(y, of) /\ a.full = of
    BY ONLY <2>2, <2>3, <2>4, <2>5
  <2>7. ow + 1 \in Nat /\ Unused(y, of) \in Nat
    BY <1>8
  <2> QED  BY ONLY <1>4, <1>6, <2>6, <2>7 DEF AtPlace
<1> QED  BY <1>1, <1>9, <1>10
-----------------------------------------------------------------------------
Coefficient == -Pow[MaxBits - 1] .. Pow[MaxBits - 1] - 1

(* Every place of the zigzag order is some coefficient's.                  *)
LEMMA ZigZagOnto == \A k \in Index : \E i \in Index : ZigZag[i] = k
<1>1. IsFiniteSet(Index)
  BY CodecSizes, FS_Interval DEF Index
<1>2. ZigZag \in Injection(Index, Index)
  BY CodecAssumption DEF Injection, IsInjective
<1>3. ZigZag \in Surjection(Index, Index)
  BY <1>1, <1>2, FS_Injection
<1> QED  BY <1>3 DEF Surjection

(* Zigzag order loses nothing.                                             *)
LEMMA ScanKept ==
    ASSUME NEW S, NEW b \in [Index -> S]
    PROVE  Scanned(b) \in [Index -> S] /\ Unscanned(Scanned(b)) = b
<1> DEFINE from(k) == CHOOSE i \in Index : ZigZag[i] = k
<1>1. \A k \in Index : from(k) \in Index /\ ZigZag[from(k)] = k
  BY ZigZagOnto
<1>2. Scanned(b) = [k \in Index |-> b[from(k)]]
  BY DEF Scanned
<1> HIDE DEF from
<1>3. Scanned(b) \in [Index -> S]
  BY <1>1, <1>2
<1>4. ASSUME NEW i \in Index PROVE Scanned(b)[ZigZag[i]] = b[i]
  <2>1. ZigZag[i] \in Index
    BY CodecAssumption
  <2>2. from(ZigZag[i]) = i
    BY <1>1, <2>1, CodecAssumption
  <2> QED  BY <1>2, <2>1, <2>2
<1>5. Unscanned(Scanned(b)) = [i \in Index |-> b[i]]
  BY <1>4 DEF Unscanned
<1>6. b = [i \in Index |-> b[i]]
  OBVIOUS
<1> QED  BY <1>3, <1>5, <1>6

(* The last of the first n blocks' first coefficient, and what rleEncode   *)
(* turns into pairs for block n.                                           *)
DC(given, n) == IF n = 0 THEN 0 ELSE Scanned(given[n])[0]
Diff(given, n) == [Scanned(given[n]) EXCEPT ![0] = @ - DC(given, n - 1)]

(* The differences have bit lengths.                                       *)
LEMMA DiffSmall ==
    ASSUME NEW given \in Seq([Index -> Coefficient]), NEW n \in 1 .. Len(given)
    PROVE  /\ Scanned(given[n]) \in [Index -> Int] /\ Unscanned(Scanned(given[n])) = given[n]
           /\ DC(given, n - 1) \in Int /\ DC(given, n) \in Int /\ 0 \in Index
           /\ Diff(given, n) \in [Index -> Int]
           /\ \A i \in Index : Small(Diff(given, n)[i])
<1>1. PICK p \in Nat \ {0} : p = Pow[MaxBits - 1] /\ Pow[MaxBits] = 2 * p
  <2>1. MaxBits \in 0 .. WordBits /\ MaxBits > 0
    BY CodecSizes
  <2> QED  BY <2>1, PowStep
<1>2. 0 \in Index
  BY CodecSizes DEF Index
<1>3. \A x \in Coefficient : x \in Int /\ -p <= x /\ x < p
  BY <1>1 DEF Coefficient
<1>4. \A k \in 1 .. Len(given) : /\ Scanned(given[k]) \in [Index -> Coefficient]
                               /\ Unscanned(Scanned(given[k])) = given[k]
  <2> TAKE k \in 1 .. Len(given)
  <2>1. given[k] \in [Index -> Coefficient]
    <3> DEFINE T == [Index -> Coefficient]
    <3>1. given \in Seq(T)
      OBVIOUS
    <3> HIDE DEF T
    <3>2. given[k] \in T
      BY <3>1
    <3> QED  BY <3>2 DEF T
  <2> QED  BY <2>1, ScanKept
<1>5. PICK d \in Int : d = DC(given, n - 1) /\ -p <= d /\ d < p
  <2>1. CASE n = 1
    BY <2>1, <1>1 DEF DC
  <2>2. CASE n # 1
    <3>1. n - 1 \in 1 .. Len(given) /\ n - 1 # 0
      BY <2>2
    <3>2. Scanned(given[n - 1])[0] \in Coefficient
      BY <3>1, <1>2, <1>4
    <3> QED  BY <3>1, <3>2, <1>3 DEF DC
  <2> QED  BY <2>1, <2>2
<1>6. PICK s \in [Index -> Coefficient] : s = Scanned(given[n])
  BY <1>4
<1>7. DC(given, n) = s[0]
  BY <1>6 DEF DC
<1>8. Diff(given, n) = [s EXCEPT ![0] = @ - d]
  BY <1>5, <1>6 DEF Diff
<1>9. ASSUME NEW i \in Index PROVE Diff(given, n)[i] \in Int /\ Small(Diff(given, n)[i])
  <2>1. PICK x \in Int : x = s[i] /\ -p <= x /\ x < p
    BY <1>3
  <2>2. Diff(given, n)[i] = x \/ Diff(given, n)[i] = x - d
    BY <1>8, <2>1
  <2>3. Small(x)
    BY <1>1, <2>1 DEF Small, Magnitude
  <2>4. Small(x - d)
    <3>1. x - d \in Int /\ x - d < 2 * p /\ -(x - d) < 2 * p
      BY <1>5, <2>1
    <3> QED  BY <3>1, <1>1 DEF Small, Magnitude
  <2> QED  BY <2>1, <2>2, <2>3, <2>4, <1>5
<1>10. Diff(given, n) \in [Index -> Int]
  <2>1. Diff(given, n) = [i \in Index |-> Diff(given, n)[i]]
    BY <1>8
  <2> QED  BY <2>1, <1>9
<1>11. s[0] \in Int /\ s \in [Index -> Int]
  BY <1>2, <1>3, <1>6
<1> QED  BY <1>2, <1>4, <1>5, <1>6, <1>7, <1>9, <1>10, <1>11

(* How many coefficients of a block are used.                              *)
LEMMA UsedIs ==
    ASSUME NEW b
    PROVE  /\ Used(b) \in 0 .. BlockLen
           /\ Used(b) > 0 => b[Used(b) - 1] # 0
           /\ \A k \in Used(b) .. BlockLen - 1 : b[k] = 0
<1>1. BlockLen \in Nat
  BY CodecSizes
<1> DEFINE U == {u \in 0 .. BlockLen : u > 0 => b[u - 1] # 0}
<1>2. 0 \in U
  BY <1>1
<1>3. PICK m \in U : \A u \in U : u <= m
  <2>1. U \subseteq 0 .. BlockLen /\ U # {}
    BY <1>2
  <2> HIDE DEF U
  <2> QED  BY <1>1, <2>1, Greatest
<1>4. \A k \in m .. BlockLen - 1 : b[k] = 0
  <2> SUFFICES ASSUME NEW k \in m .. BlockLen - 1, b[k] # 0 PROVE FALSE
    OBVIOUS
  <2>1. m \in 0 .. BlockLen
    OBVIOUS
  <2>2. k + 1 \in 0 .. BlockLen /\ (k + 1) - 1 = k /\ ~(k + 1 <= m)
    BY <1>1, <2>1
  <2>3. k + 1 \in U
    BY <2>2
  <2> HIDE DEF U
  <2> QED  BY <1>3, <2>2, <2>3
<1> DEFINE P(u) == (u > 0 => b[u - 1] # 0) /\ \A k \in u .. BlockLen - 1 : b[k] = 0
<1>5. \E u \in 0 .. BlockLen : P(u)
  BY <1>4
<1>6. Used(b) = CHOOSE u \in 0 .. BlockLen : P(u)
  BY DEF Used
<1>7. Used(b) \in 0 .. BlockLen /\ P(Used(b))
  <2> HIDE DEF P
  <2> QED  BY <1>5, <1>6
<1> QED  BY <1>7
-----------------------------------------------------------------------------
(* Where rleEncode and rleDecode stand between two pairs: blocks behind,   *)
(* and coefficients of the next one.                                       *)
Stop == [block : Nat, pos : Index]

(* p coefficients of the block after the c-th are behind. *)
StopAt(c, p) == IF p = BlockLen THEN [block |-> c + 1, pos |-> 0] ELSE [block |-> c, pos |-> p]

PairType == [run : Nat, number : {n \in Int : Small(n)}]

(* A pair stands for the coefficients between the stops m and o.           *)
Covers(given, m, run, num, o) ==
    /\ m.block < Len(given)
    /\ run = 0 /\ num = 0 =>
         /\ o = [block |-> m.block + 1, pos |-> 0]
         /\ \A i \in m.pos .. BlockLen - 1 : Diff(given, m.block + 1)[i] = 0
    /\ run > 0 \/ num # 0 =>
         /\ m.pos + run < BlockLen
         /\ o = StopAt(m.block, m.pos + run + 1)
         /\ Diff(given, m.block + 1)[m.pos + run] = num
         /\ \A i \in m.pos .. m.pos + run - 1 : Diff(given, m.block + 1)[i] = 0

(* t are the stops before, between and behind the pairs ps, the last is m. *)
Stops(given, ps, m, t) ==
    /\ t \in [0 .. Len(ps) -> Stop]
    /\ t[0] = [block |-> 0, pos |-> 0]
    /\ t[Len(ps)] = m
    /\ \A k \in 1 .. Len(ps) : Covers(given, t[k - 1], ps[k].run, ps[k].number, t[k])

(* The pairs stand for the blocks of given up to the stop m. *)
Coded(given, ps, m) == \E t : Stops(given, ps, m, t)

(* No pair stands for nothing.                                             *)
LEMMA CodedFirst == ASSUME NEW given PROVE Coded(given, <<>>, StopAt(0, 0))
<1>1. BlockLen # 0 /\ 0 \in Index
  BY CodecSizes DEF Index
<1> DEFINE t == [k \in 0 .. 0 |-> [block |-> 0, pos |-> 0]]
<1>2. Stops(given, <<>>, StopAt(0, 0), t)
  BY <1>1 DEF Stops, StopAt, Stop
<1> HIDE DEF t
<1> QED  BY <1>2 DEF Coded

(* A stop is one.                                                          *)
LEMMA StopAtIs ==
    ASSUME NEW c \in Nat, NEW p \in 0 .. BlockLen
    PROVE  StopAt(c, p) \in Stop
<1>1. p = BlockLen \/ p \in Index
  BY CodecSizes DEF Index
<1>2. 0 \in Index
  BY CodecSizes DEF Index
<1> QED  BY <1>1, <1>2 DEF StopAt, Stop

(* One pair more.                                                          *)
LEMMA CodedMore ==
    ASSUME NEW given, NEW ps \in Seq(PairType), NEW m, Coded(given, ps, m),
           NEW q \in PairType, NEW o \in Stop, Covers(given, m, q.run, q.number, o)
    PROVE  Append(ps, q) \in Seq(PairType) /\ Coded(given, Append(ps, q), o)
<1>1. PICK t : Stops(given, ps, m, t)
  BY DEF Coded
<1>2. PICK n \in Nat : n = Len(ps)
  OBVIOUS
<1>3. PICK qs : qs = Append(ps, q)
  OBVIOUS
<1>4. qs \in Seq(PairType) /\ Len(qs) = n + 1 /\ qs[n + 1] = q /\ \A i \in 1 .. n : qs[i] = ps[i]
  BY <1>2, <1>3
<1> DEFINE u == [k \in 0 .. n + 1 |-> IF k = n + 1 THEN o ELSE t[k]]
<1>5. u \in [0 .. n + 1 -> Stop] /\ u[n + 1] = o /\ \A k \in 0 .. n : u[k] = t[k]
  BY <1>1, <1>2 DEF Stops
<1> HIDE DEF u
<1>6. u[0] = [block |-> 0, pos |-> 0]
  BY <1>1, <1>5 DEF Stops
<1>7. ASSUME NEW k \in 1 .. n + 1 PROVE Covers(given, u[k - 1], qs[k].run, qs[k].number, u[k])
  <2>1. CASE k = n + 1
    <3>1. u[k - 1] = m /\ u[k] = o /\ qs[k] = q
      BY <2>1, <1>1, <1>2, <1>4, <1>5 DEF Stops
    <3> QED  BY <3>1
  <2>2. CASE k # n + 1
    <3>1. k \in 1 .. n /\ k \in 0 .. n /\ k - 1 \in 0 .. n
      BY <2>2
    <3>2. u[k - 1] = t[k - 1] /\ u[k] = t[k] /\ qs[k] = ps[k]
      BY <3>1, <1>4, <1>5
    <3>3. Covers(given, t[k - 1], ps[k].run, ps[k].number, t[k])
      BY <3>1, <1>1, <1>2 DEF Stops
    <3> QED  BY ONLY <3>2, <3>3
  <2> QED  BY <2>1, <2>2
<1>8. Stops(given, qs, o, u)
  BY <1>4, <1>5, <1>6, <1>7 DEF Stops
<1> QED  BY <1>3, <1>4, <1>8 DEF Coded

AccType == [pairs : Seq(PairType), zeros : Nat]

(* rleEncode has come to coefficient k of the block after the c-th: what   *)
(* it has counted are zeros, and the pairs stand for what is before them.  *)
Partly(given, c, k, acc) ==
    /\ acc \in AccType /\ acc.zeros <= k /\ acc.zeros <= RunMax
    /\ Coded(given, acc.pairs, StopAt(c, k - acc.zeros))
    /\ \A i \in k - acc.zeros .. k - 1 : Diff(given, c + 1)[i] = 0
    /\ k = 0 \/ Diff(given, c + 1)[k - 1] # 0 => acc.zeros = 0

(* One coefficient more.                                                   *)
LEMMA PutMore ==
    ASSUME NEW given \in Seq([Index -> Coefficient]), NEW c \in Nat, c < Len(given),
           NEW k \in 1 .. BlockLen, NEW acc, Partly(given, c, k - 1, acc)
    PROVE  Partly(given, c, k, Put(acc, Diff(given, c + 1)[k - 1]))
<1>1. BlockLen \in Nat \ {0} /\ RunMax \in Nat \ {0} /\ k - 1 \in Index /\ k - 1 \in Nat
      /\ k - 1 # BlockLen /\ k \in Nat
  BY CodecSizes DEF Index
<1>2. PICK d : d = Diff(given, c + 1)
  OBVIOUS
<1>3. PICK n \in Int : n = d[k - 1] /\ Small(n)
  <2>1. c + 1 \in 1 .. Len(given)
    OBVIOUS
  <2> QED  BY <2>1, <1>1, <1>2, DiffSmall
<1>4. PICK z \in Nat, ps \in Seq(PairType) : z = acc.zeros /\ ps = acc.pairs
  BY DEF Partly, AccType
<1>5. /\ acc = [pairs |-> ps, zeros |-> z] /\ z <= k - 1 /\ z <= RunMax
      /\ Coded(given, ps, StopAt(c, k - 1 - z))
      /\ \A i \in k - 1 - z .. k - 2 : d[i] = 0
  BY <1>2, <1>4 DEF Partly, AccType
<1>6. PICK a : a = Put(acc, n)
  OBVIOUS
<1>7. PICK p \in Nat : p = k - 1 - z /\ p < BlockLen /\ p # BlockLen /\ p \in Index
  BY <1>1, <1>5 DEF Index
<1>8. StopAt(c, p) = [block |-> c, pos |-> p] /\ Coded(given, ps, StopAt(c, p))
  BY <1>5, <1>7 DEF StopAt
<1>9. StopAt(c, k) \in Stop
  BY <1>1, StopAtIs
<1>10. 0 <= RunMax /\ k - 0 = k /\ \A i \in k - 0 .. k - 1 : d[i] = 0
  BY <1>1
<1>11. CASE n # 0
  <2>1. a = [pairs |-> Append(ps, Pair(z, n)), zeros |-> 0]
    BY <1>5, <1>6, <1>11 DEF Put
  <2>2. Pair(z, n) \in PairType /\ Pair(z, n).run = z /\ Pair(z, n).number = n
    BY <1>3 DEF Pair, PairType
  <2>3. p + z = k - 1 /\ p + z + 1 = k /\ p + z - 1 = k - 2
    BY <1>7
  <2>4. Covers(given, StopAt(c, p), z, n, StopAt(c, k))
    BY <1>1, <1>2, <1>3, <1>5, <1>7, <1>8, <1>11, <2>3 DEF Covers
  <2>5. PICK qs : qs = Append(ps, Pair(z, n))
    OBVIOUS
  <2>6. qs \in Seq(PairType) /\ Coded(given, qs, StopAt(c, k))
    BY <1>8, <1>9, <2>2, <2>4, <2>5, CodedMore
  <2>7. a \in AccType /\ a.zeros = 0 /\ a.pairs = qs
    BY <2>1, <2>5, <2>6 DEF AccType
  <2> QED  BY <1>1, <1>2, <1>3, <1>6, <1>10, <2>6, <2>7 DEF Partly
<1>12. CASE n = 0 /\ z = RunMax
  <2>1. a = [pairs |-> Append(ps, Pair(RunMax, 0)), zeros |-> 0]
    BY <1>5, <1>6, <1>12 DEF Put
  <2>2. Pair(RunMax, 0) \in PairType /\ Pair(RunMax, 0).run = RunMax /\ Pair(RunMax, 0).number = 0
    BY <1>1, <1>3, <1>12 DEF Pair, PairType
  <2>3. p + RunMax = k - 1 /\ p + RunMax + 1 = k /\ p + RunMax - 1 = k - 2
    BY <1>1, <1>7, <1>12
  <2>4. Covers(given, StopAt(c, p), RunMax, 0, StopAt(c, k))
    BY <1>1, <1>2, <1>3, <1>5, <1>7, <1>8, <1>12, <2>3 DEF Covers
  <2>5. PICK qs : qs = Append(ps, Pair(RunMax, 0))
    OBVIOUS
  <2>6. qs \in Seq(PairType) /\ Coded(given, qs, StopAt(c, k))
    BY <1>8, <1>9, <2>2, <2>4, <2>5, CodedMore
  <2>7. a \in AccType /\ a.zeros = 0 /\ a.pairs = qs
    BY <2>1, <2>5, <2>6 DEF AccType
  <2> QED  BY <1>1, <1>2, <1>3, <1>6, <1>10, <2>6, <2>7 DEF Partly
<1>13. CASE n = 0 /\ z # RunMax
  <2>1. a = [pairs |-> ps, zeros |-> z + 1]
    BY <1>5, <1>6, <1>13 DEF Put
  <2>2. a \in AccType /\ a.zeros = z + 1 /\ a.pairs = ps /\ z + 1 <= RunMax /\ z + 1 <= k
        /\ k - (z + 1) = p
    BY <1>1, <1>5, <1>7, <1>13, <2>1 DEF AccType
  <2>3. \A i \in k - (z + 1) .. k - 1 : d[i] = 0
    <3> TAKE i \in k - (z + 1) .. k - 1
    <3>1. i = k - 1 \/ i \in k - 1 - z .. k - 2
      OBVIOUS
    <3> QED  BY <3>1, <1>3, <1>5, <1>13
  <2>4. ~(k = 0 \/ d[k - 1] # 0)
    BY <1>3, <1>13
  <2> QED  BY <1>2, <1>3, <1>6, <1>8, <2>2, <2>3, <2>4 DEF Partly
<1> QED  BY <1>11, <1>12, <1>13

(* What rleEncode has made of a block is a recursion along it.             *)
LEMMA FoldedIs ==
    ASSUME NEW diff, \A i \in 0 .. Used(diff) - 1 : Small(diff[i]),
           pairs \in Seq(PairType), zeros \in Nat
    PROVE  \E f : /\ f = [k \in 0 .. Used(diff) |->
                             IF k = 0 THEN [pairs |-> pairs, zeros |-> zeros]
                             ELSE Put(f[k - 1], diff[k - 1])]
                  /\ Folded(diff) = f[Used(diff)]
<1>1. PICK u \in Nat : u = Used(diff)
  BY CodecSizes, UsedIs
<1>2. PICK a : a = [pairs |-> pairs, zeros |-> zeros]
  OBVIOUS
<1> DEFINE h == [x \in AccType \X (1 .. u) |-> Put(x[1], diff[x[2] - 1])]
           G(f) == [k \in 0 .. u |-> IF k = 0 THEN a ELSE Put(f[k - 1], diff[k - 1])]
<1>3. ASSUME NEW acc \in AccType, NEW k \in 1 .. u PROVE Put(acc, diff[k - 1]) \in AccType
  <2>1. k - 1 \in 0 .. u - 1
    OBVIOUS
  <2>2. PICK n \in Int : n = diff[k - 1] /\ Small(n)
    BY <2>1, <1>1 DEF Small
  <2>3. acc.pairs \in Seq(PairType) /\ acc.zeros \in Nat
    BY DEF AccType
  <2>4. n # 0 => Pair(acc.zeros, n) \in PairType
    BY <2>2, <2>3 DEF Pair, PairType
  <2>5. n = 0 => Pair(RunMax, 0) \in PairType
    BY <2>2, CodecSizes DEF Pair, PairType
  <2>6. CASE n # 0
    <3>1. Append(acc.pairs, Pair(acc.zeros, n)) \in Seq(PairType)
      BY <2>3, <2>4, <2>6
    <3>2. Put(acc, n) = [pairs |-> Append(acc.pairs, Pair(acc.zeros, n)), zeros |-> 0]
      BY <2>6 DEF Put
    <3> QED  BY <2>2, <3>1, <3>2 DEF AccType
  <2>7. CASE n = 0 /\ acc.zeros = RunMax
    <3>1. Append(acc.pairs, Pair(RunMax, 0)) \in Seq(PairType)
      BY <2>3, <2>5, <2>7
    <3>2. Put(acc, n) = [pairs |-> Append(acc.pairs, Pair(RunMax, 0)), zeros |-> 0]
      BY <2>7 DEF Put
    <3> QED  BY <2>2, <3>1, <3>2 DEF AccType
  <2>8. CASE n = 0 /\ acc.zeros # RunMax
    <3>1. Put(acc, n) = [acc EXCEPT !.zeros = @ + 1]
      BY <2>8 DEF Put
    <3>2. [acc EXCEPT !.zeros = @ + 1] \in AccType
      BY <2>3 DEF AccType
    <3> QED  BY <2>2, <3>1, <3>2
  <2> QED  BY <2>6, <2>7, <2>8
<1>4. h \in [AccType \X (1 .. u) -> AccType]
  BY <1>3
<1>5. a \in AccType
  BY <1>2 DEF AccType
<1>6. PICK f : Follows(f, u, AccType, a, h)
  <2> HIDE DEF h
  <2> QED  BY <1>4, <1>5, Recursion
<1>7. ASSUME NEW k \in 1 .. u PROVE f[k] = Put(f[k - 1], diff[k - 1])
  <2>1. k - 1 \in 0 .. u
    OBVIOUS
  <2>2. f[k] = h[<<f[k - 1], k>>] /\ f[k - 1] \in AccType
    <3> HIDE DEF h
    <3> QED  BY <2>1, <1>6 DEF Follows
  <2> QED  BY <2>2
<1>8. f = G(f)
  <2>1. f \in [0 .. u -> AccType] /\ f[0] = a
    BY <1>6 DEF Follows
  <2> QED  BY <2>1, <1>7
<1>9. PICK g : g = CHOOSE x : x = G(x)
  OBVIOUS
<1>10. g = G(g)
  <2> HIDE DEF G
  <2> QED  BY <1>8, <1>9
<1>11. Folded(diff) = g[u]
  BY <1>1, <1>2, <1>9 DEF Folded
<1> QED  BY <1>1, <1>2, <1>10, <1>11
(* rleEncode has turned one block more into pairs.                         *)
LEMMA BlockCoded ==
    ASSUME NEW given \in Seq([Index -> Coefficient]), NEW c \in Nat, c < Len(given),
           NEW d, d = Diff(given, c + 1),
           pairs \in Seq(PairType), zeros = 0, Coded(given, pairs, StopAt(c, 0)),
           NEW qs, qs = IF Used(d) < BlockLen THEN Append(Folded(d).pairs, Pair(0, 0))
                        ELSE Folded(d).pairs
    PROVE  Folded(d).zeros = 0 /\ qs \in Seq(PairType) /\ Coded(given, qs, StopAt(c + 1, 0))
<1>1. BlockLen \in Nat \ {0} /\ RunMax \in Nat /\ 0 \in Index /\ 0 \in 0 .. BlockLen
      /\ c + 1 \in 1 .. Len(given) /\ c + 1 \in Nat
  BY CodecSizes DEF Index
<1>2. /\ d \in [Index -> Int] /\ \A i \in Index : Small(d[i])
  BY <1>1, DiffSmall
<1>3. PICK u \in 0 .. BlockLen : /\ u = Used(d) /\ (u > 0 => d[u - 1] # 0)
                                 /\ \A i \in u .. BlockLen - 1 : d[i] = 0
  BY UsedIs
<1>4. PICK f : /\ f = [k \in 0 .. u |-> IF k = 0 THEN [pairs |-> pairs, zeros |-> zeros]
                                        ELSE Put(f[k - 1], d[k - 1])]
               /\ Folded(d) = f[u]
  <2>1. \A i \in 0 .. Used(d) - 1 : Small(d[i])
    BY <1>1, <1>2, <1>3 DEF Index
  <2>2. zeros \in Nat
    OBVIOUS
  <2>3. \E f : /\ f = [k \in 0 .. Used(d) |->
                          IF k = 0 THEN [pairs |-> pairs, zeros |-> zeros]
                          ELSE Put(f[k - 1], d[k - 1])]
               /\ Folded(d) = f[Used(d)]
    BY ONLY <2>1, <2>2, pairs \in Seq(PairType), FoldedIs
  <2> QED  BY ONLY <1>3, <2>3
<1> DEFINE S == {k \in 0 .. u : Partly(given, c, k, f[k])}
<1>5. 0 \in S
  <2>1. f[0] = [pairs |-> pairs, zeros |-> 0] /\ 0 \in 0 .. u
    BY <1>3, <1>4
  <2>2. Partly(given, c, 0, f[0])
    BY <1>1, <2>1 DEF Partly, AccType
  <2> QED  BY <2>1, <2>2
<1>6. ASSUME NEW k \in 1 .. u, k - 1 \in S PROVE k \in S
  <2>1. k \in 1 .. BlockLen /\ k \in 0 .. u
    BY <1>1, <1>3
  <2>2. f[k] = Put(f[k - 1], d[k - 1])
    BY <2>1, <1>4
  <2>3. Partly(given, c, k - 1, f[k - 1])
    BY <1>6
  <2>4. Partly(given, c, k, f[k])
    BY <2>1, <2>2, <2>3, PutMore
  <2> QED  BY <2>1, <2>4
<1>7. u \in S
  <2>1. u \in Nat /\ u \in 0 .. u
    BY <1>1, <1>3
  <2> HIDE DEF S
  <2> QED  BY <2>1, <1>5, <1>6, InductionTo
<1>8. Partly(given, c, u, Folded(d))
  BY <1>4, <1>7
<1>9. PICK acc : acc = Folded(d)
  OBVIOUS
<1>10. acc.zeros = 0
  BY <1>3, <1>8, <1>9 DEF Partly
<1>11. PICK ps \in Seq(PairType) : ps = acc.pairs /\ Coded(given, ps, StopAt(c, u))
  <2>1. u - 0 = u
    BY <1>1, <1>3
  <2> QED  BY <2>1, <1>8, <1>9, <1>10 DEF Partly, AccType
<1>12. CASE u = BlockLen
  <2>1. StopAt(c, u) = StopAt(c + 1, 0)
    BY <1>1, <1>12 DEF StopAt
  <2>2. qs = ps
    BY <1>1, <1>3, <1>9, <1>11, <1>12
  <2> QED  BY <2>1, <2>2, <1>9, <1>10, <1>11
<1>13. CASE u # BlockLen
  <2>1. u < BlockLen /\ u \in Index
    BY <1>1, <1>3, <1>13 DEF Index
  <2>2. StopAt(c, u) = [block |-> c, pos |-> u] /\ StopAt(c + 1, 0) = [block |-> c + 1, pos |-> 0]
    BY <1>1, <1>13 DEF StopAt
  <2>3. Pair(0, 0) \in PairType /\ Pair(0, 0).run = 0 /\ Pair(0, 0).number = 0
    <3>1. Small(0)
      <4>1. MaxBits \in 0 .. WordBits
        BY CodecSizes
      <4>2. Pow[MaxBits] \in Nat \ {0}
        BY <4>1, PowStep
      <4> QED  BY <4>2 DEF Small, Magnitude
    <3> QED  BY <3>1 DEF Pair, PairType
  <2>4. Covers(given, StopAt(c, u), 0, 0, StopAt(c + 1, 0))
    BY <1>3, <2>2 DEF Covers
  <2>5. StopAt(c + 1, 0) \in Stop
    BY <1>1, StopAtIs
  <2>6. qs = Append(ps, Pair(0, 0))
    BY <1>3, <1>9, <1>11, <2>1
  <2>7. qs \in Seq(PairType) /\ Coded(given, qs, StopAt(c + 1, 0))
    <3>1. PICK q \in PairType : q = Pair(0, 0) /\ q.run = 0 /\ q.number = 0
      BY <2>3
    <3>2. Covers(given, StopAt(c, u), q.run, q.number, StopAt(c + 1, 0))
      BY <2>4, <3>1
    <3>3. Append(ps, q) \in Seq(PairType) /\ Coded(given, Append(ps, q), StopAt(c + 1, 0))
      BY <1>11, <2>5, <3>2, CodedMore
    <3> QED  BY ONLY <2>6, <3>1, <3>3
  <2> QED  BY <2>7, <1>9, <1>10
<1> QED  BY <1>12, <1>13

-----------------------------------------------------------------------------
(* rleDecode stands at stop m: it has put out the blocks behind m, and of  *)
(* the one at m the coefficients before.                                   *)
AtStop(given, m, blk, lft, dc, outp) ==
    /\ outp \in Seq([Index -> Int]) /\ Len(outp) = m.block
    /\ m.block <= Len(given) /\ \A i \in 1 .. m.block : outp[i] = given[i]
    /\ m.block = Len(given) => m.pos = 0
    /\ lft = BlockLen - m.pos /\ dc = DC(given, m.block)
    /\ blk = [i \in Index |-> IF i < m.pos THEN Diff(given, m.block + 1)[i] ELSE 0]

(* What rleDecode makes of a pair.                                         *)
Unrun(blk, lft, dc, outp, run, n) ==
    LET rest == lft - (IF run > 0 \/ n # 0 THEN run + 1 ELSE lft)
        placed == IF run = 0 /\ n = 0 THEN blk
                  ELSE [blk EXCEPT ![BlockLen - lft + run] = n]
        whole == [placed EXCEPT ![0] = @ + dc]
    IN IF rest = 0
       THEN [block |-> NoBlock, left |-> BlockLen, dc |-> whole[0],
             output |-> Append(outp, Unscanned(whole))]
       ELSE [block |-> placed, left |-> rest, dc |-> dc, output |-> outp]

(* A block that has all its differences becomes the block that it was.     *)
LEMMA BlockWhole ==
    ASSUME NEW given \in Seq([Index -> Coefficient]), NEW c \in Nat, c < Len(given),
           NEW outp \in Seq([Index -> Int]), Len(outp) = c, \A i \in 1 .. c : outp[i] = given[i],
           NEW b, b = Diff(given, c + 1),
           NEW w, w = [b EXCEPT ![0] = @ + DC(given, c)],
           NEW o, o = [block |-> c + 1, pos |-> 0]
    PROVE  AtStop(given, o, NoBlock, BlockLen, w[0], Append(outp, Unscanned(w)))
<1>1. /\ BlockLen \in Nat \ {0} /\ c + 1 \in 1 .. Len(given) /\ c + 1 \in Nat /\ (c + 1) - 1 = c
      /\ c + 1 # 0
  BY CodecSizes
<1>2. PICK s \in [Index -> Int], k \in Int :
        /\ s = Scanned(given[c + 1]) /\ Unscanned(s) = given[c + 1] /\ k = DC(given, c) /\ 0 \in Index
  BY <1>1, DiffSmall
<1>3. b = [s EXCEPT ![0] = @ - k]
  BY <1>1, <1>2 DEF Diff
<1>4. w = s
  <2>1. w = [[s EXCEPT ![0] = @ - k] EXCEPT ![0] = @ + k]
    BY <1>2, <1>3
  <2>2. s[0] - k + k = s[0] /\ s[0] \in Int
    BY <1>2
  <2>3. [s EXCEPT ![0] = @ - k][0] = s[0] - k
    BY <1>2
  <2>4. w = [s EXCEPT ![0] = s[0]]
    BY ONLY <1>2, <2>1, <2>2, <2>3, s \in [Index -> Int]
  <2> QED  BY <2>4, <1>2
<1>5. w[0] = DC(given, c + 1)
  BY <1>1, <1>2, <1>4 DEF DC
<1>6. PICK x : x = given[c + 1]
  OBVIOUS
<1>7. x \in [Index -> Int]
  <2>1. Unscanned(s) \in [Index -> Int]
    BY <1>2, CodecAssumption DEF Unscanned
  <2> QED  BY <2>1, <1>2, <1>6
<1>8. PICK z : z = Append(outp, x)
  OBVIOUS
<1>9. z \in Seq([Index -> Int]) /\ Len(z) = c + 1 /\ \A i \in 1 .. c + 1 : z[i] = given[i]
  <2> DEFINE T == [Index -> Int]
  <2>1. outp \in Seq(T) /\ x \in T
    BY <1>7
  <2> HIDE DEF T
  <2>2. z \in Seq(T) /\ Len(z) = c + 1 /\ z[c + 1] = x /\ \A i \in 1 .. c : z[i] = outp[i]
    BY <2>1, <1>8
  <2>3. \A i \in 1 .. c + 1 : z[i] = given[i]
    BY <2>2, <1>6
  <2> QED  BY <2>2, <2>3 DEF T
<1>10. Unscanned(w) = x
  BY <1>2, <1>4, <1>6
<1>11. NoBlock = [i \in Index |-> IF i < 0 THEN Diff(given, c + 1 + 1)[i] ELSE 0]
  BY CodecSizes DEF NoBlock, Index
<1>12. BlockLen = BlockLen - 0 /\ c + 1 <= Len(given)
  BY <1>1
<1> QED  BY <1>5, <1>8, <1>9, <1>10, <1>11, <1>12 DEF AtStop

(* rleDecode gets from stop to stop.                                       *)
LEMMA RunPlaced ==
    ASSUME NEW given \in Seq([Index -> Coefficient]), NEW m \in Stop, NEW o,
           NEW run \in Nat, NEW n \in Int, Covers(given, m, run, n, o),
           NEW blk, NEW lft, NEW dc, NEW outp, AtStop(given, m, blk, lft, dc, outp),
           NEW a, a = Unrun(blk, lft, dc, outp, run, n)
    PROVE  AtStop(given, o, a.block, a.left, a.dc, a.output)
<1>1. BlockLen \in Nat \ {0}
  BY CodecSizes
<1>2. PICK c \in Nat, p \in Index : c = m.block /\ p = m.pos /\ c < Len(given) /\ c + 1 \in 1 .. Len(given)
  BY DEF Stop, Covers
<1>3. PICK d : d = Diff(given, c + 1)
  OBVIOUS
<1>4. d \in [Index -> Int] /\ p \in Nat /\ p < BlockLen
  <2>1. d \in [Index -> Int]
    BY <1>2, <1>3, DiffSmall
  <2>2. p \in Nat /\ p < BlockLen
    BY <1>1 DEF Index
  <2> QED  BY <2>1, <2>2
<1>5. /\ outp \in Seq([Index -> Int]) /\ Len(outp) = c /\ \A i \in 1 .. c : outp[i] = given[i]
      /\ lft = BlockLen - p /\ dc = DC(given, c)
      /\ blk = [i \in Index |-> IF i < p THEN d[i] ELSE 0]
  BY <1>2, <1>3 DEF AtStop
<1>6. CASE run = 0 /\ n = 0
  <2>1. o = [block |-> c + 1, pos |-> 0] /\ \A i \in p .. BlockLen - 1 : d[i] = 0
    BY <1>2, <1>3, <1>6 DEF Covers
  <2>2. blk = d
    <3>1. ASSUME NEW i \in Index PROVE (IF i < p THEN d[i] ELSE 0) = d[i]
      <4>1. i < p \/ i \in p .. BlockLen - 1
        BY <1>1, <1>4 DEF Index
      <4> QED  BY <4>1, <2>1
    <3> QED  BY <3>1, <1>4, <1>5
  <2>3. lft - lft = 0 /\ ~(run > 0 \/ n # 0)
    BY <1>1, <1>4, <1>5, <1>6
  <2>4. PICK w : w = [d EXCEPT ![0] = @ + DC(given, c)]
    OBVIOUS
  <2>5. a = [block |-> NoBlock, left |-> BlockLen, dc |-> w[0],
             output |-> Append(outp, Unscanned(w))]
    BY ONLY <1>5, <1>6, <2>2, <2>3, <2>4, a = Unrun(blk, lft, dc, outp, run, n) DEF Unrun
  <2>6. AtStop(given, o, NoBlock, BlockLen, w[0], Append(outp, Unscanned(w)))
    BY <1>2, <1>3, <1>5, <2>1, <2>4, BlockWhole
  <2> QED  BY ONLY <2>5, <2>6
<1>7. CASE run > 0 \/ n # 0
  <2>1. /\ p + run < BlockLen /\ o = StopAt(c, p + run + 1) /\ d[p + run] = n
        /\ \A i \in p .. p + run - 1 : d[i] = 0
    BY <1>2, <1>3, <1>7 DEF Covers
  <2>2. PICK e \in Index : e = p + run
    <3>1. p + run \in 0 .. BlockLen - 1
      BY <1>1, <1>4, <2>1
    <3> QED  BY <3>1 DEF Index
  <2>3. BlockLen - lft + run = e /\ lft - (run + 1) = BlockLen - (e + 1) /\ e \in Nat
    BY <1>1, <1>4, <1>5, <2>2
  <2>4. PICK b : b = [blk EXCEPT ![e] = n]
    OBVIOUS
  <2>5. b = [i \in Index |-> IF i < e + 1 THEN d[i] ELSE 0]
    <3>1. ASSUME NEW i \in Index PROVE b[i] = IF i < e + 1 THEN d[i] ELSE 0
      <4>1. i \in Int /\ (i = e \/ i > e \/ i < p \/ i \in p .. p + run - 1)
        BY <1>4, <2>2, <2>3 DEF Index
      <4>2. CASE i = e
        BY <4>2, <1>5, <2>1, <2>2, <2>3, <2>4
      <4>3. CASE i > e
        <5>1. ~(i < p) /\ ~(i < e + 1) /\ i # e
          BY <4>1, <4>3, <1>4, <2>2, <2>3
        <5> QED  BY <5>1, <1>5, <2>4
      <4>4. CASE i < p
        <5>1. i < e + 1 /\ i # e
          BY <4>1, <4>4, <1>4, <2>2, <2>3
        <5> QED  BY <5>1, <4>4, <1>5, <2>4
      <4>5. CASE i \in p .. p + run - 1
        <5>1. ~(i < p) /\ i < e + 1 /\ i # e /\ d[i] = 0
          BY <4>5, <1>4, <2>1, <2>2, <2>3
        <5> QED  BY <5>1, <1>5, <2>4
      <4> QED  BY <4>1, <4>2, <4>3, <4>4, <4>5
    <3>2. b = [i \in Index |-> b[i]]
      BY <1>5, <2>4
    <3> QED  BY <3>1, <3>2
  <2>6. CASE e + 1 = BlockLen
    <3>1. BlockLen - (e + 1) = 0
      BY <1>1, <2>6
    <3>2. o = [block |-> c + 1, pos |-> 0]
      <4>1. p + run + 1 = BlockLen
        BY <2>2, <2>6
      <4> QED  BY <4>1, <2>1 DEF StopAt
    <3>3. b = d
      <4>1. \A i \in Index : i < e + 1
        BY <1>1, <2>6 DEF Index
      <4> QED  BY <4>1, <2>5, <1>4
    <3>4. PICK w : w = [d EXCEPT ![0] = @ + DC(given, c)]
      OBVIOUS
    <3>5. ~(run = 0 /\ n = 0)
      BY <1>7
    <3>6. a = [block |-> NoBlock, left |-> BlockLen, dc |-> w[0],
               output |-> Append(outp, Unscanned(w))]
      BY ONLY <1>5, <1>7, <2>3, <2>4, <3>1, <3>3, <3>4, <3>5,
              a = Unrun(blk, lft, dc, outp, run, n) DEF Unrun
    <3>7. AtStop(given, o, NoBlock, BlockLen, w[0], Append(outp, Unscanned(w)))
      BY <1>2, <1>3, <1>5, <3>2, <3>4, BlockWhole
    <3> QED  BY ONLY <3>6, <3>7
  <2>7. CASE e + 1 # BlockLen
    <3>1. BlockLen - (e + 1) # 0
      BY <1>1, <2>3, <2>7
    <3>2. o = [block |-> c, pos |-> e + 1]
      <4>1. p + run + 1 # BlockLen /\ p + run + 1 = e + 1
        BY <2>2, <2>7
      <4> QED  BY <4>1, <2>1 DEF StopAt
    <3>3. ~(run = 0 /\ n = 0)
      BY <1>7
    <3>4. a = [block |-> b, left |-> BlockLen - (e + 1), dc |-> dc, output |-> outp]
      BY ONLY <1>7, <2>3, <2>4, <3>1, <3>3, a = Unrun(blk, lft, dc, outp, run, n) DEF Unrun
    <3>5. c <= Len(given) /\ c # Len(given)
      BY <1>2
    <3> QED  BY ONLY <1>3, <1>5, <2>5, <3>2, <3>4, <3>5 DEF AtStop
  <2> QED  BY <2>6, <2>7
<1> QED  BY <1>6, <1>7
-----------------------------------------------------------------------------
(* The values of the variables.                                            *)
CodecTypes == /\ input \in Inputs /\ coded \in 0 .. Len(input)
              /\ pairs \in Seq(PairType)
              /\ bits \in Seq(0 .. MaxBits) /\ WordTypes(words, empty)
              /\ next \in Nat /\ cur \in Nat /\ full \in 0 .. WordBits
              /\ numbers \in Seq(Int) /\ decoded \in Nat
              /\ block \in [Index -> Int] /\ left \in 1 .. BlockLen /\ prevDC \in Int
              /\ output \in Seq([Index -> Int])

(* The four passes follow each other.                                      *)
Passes == /\ Len(bits) <= Len(pairs) /\ Len(numbers) <= Len(bits) /\ decoded <= Len(numbers)
          /\ coded < Len(input) => Len(bits) = 0 /\ next = 0
          /\ next = 0 => Len(numbers) = 0
          /\ next > 0 => Len(bits) = Len(pairs)
          /\ decoded > 0 => Len(numbers) = Len(pairs)

(* The pairs stand for the blocks behind, between two blocks.              *)
RleInv == /\ zeros = 0 /\ lastDC = DC(input, coded)
          /\ Coded(input, pairs, StopAt(coded, 0))

(* The words hold the numbers that vliEncode has come to.                  *)
VliInv == Written(words, empty, bits, pairs)

(* vliDecode stands behind the numbers that it has read.                   *)
UnvliInv == /\ \A i \in 1 .. Len(numbers) : numbers[i] = pairs[i].number
            /\ next > 0 => \E s : /\ Places(words, empty, bits, pairs, s)
                                  /\ AtPlace(words, s[Len(numbers)], next, cur, full)

(* rleDecode stands behind the pairs that it has placed.                   *)
UnrleInv == \E t : /\ Stops(input, pairs, StopAt(coded, 0), t)
                   /\ AtStop(input, t[decoded], block, left, prevDC, output)

CodecInv == CodecTypes /\ Passes /\ RleInv /\ VliInv /\ UnvliInv /\ UnrleInv

(* The blocks of an input.                                                 *)
LEMMA InputBlocks ==
    ASSUME NEW given \in Inputs
    PROVE  given \in Seq([Index -> Coefficient])
BY CodecAssumption DEF Coefficient

(* What the decoder's stop says of its variables.                          *)
LEMMA AtStopTypes ==
    ASSUME NEW given \in Seq([Index -> Coefficient]), NEW m \in Stop, NEW blk, NEW lft, NEW dc, NEW outp,
           AtStop(given, m, blk, lft, dc, outp)
    PROVE  /\ blk \in [Index -> Int] /\ lft \in 1 .. BlockLen /\ dc \in Int
           /\ outp \in Seq([Index -> Int])
<1>1. BlockLen \in Nat \ {0} /\ 0 \in Index
  BY CodecSizes DEF Index
<1>2. PICK c \in Nat, p \in Index : c = m.block /\ p = m.pos /\ c <= Len(given)
  BY DEF Stop, AtStop
<1>3. p \in 0 .. BlockLen - 1
  BY <1>2 DEF Index
<1>4. lft \in 1 .. BlockLen
  BY <1>1, <1>2, <1>3 DEF AtStop
<1>5. dc \in Int
  <2>1. CASE c = 0
    BY <1>2, <2>1 DEF AtStop, DC
  <2>2. CASE c # 0
    <3>1. c \in 1 .. Len(given)
      BY <1>2, <2>2
    <3> QED  BY <3>1, <1>2, DiffSmall DEF AtStop
  <2> QED  BY <2>1, <2>2
<1>6. blk = [i \in Index |-> IF i < p THEN Diff(given, c + 1)[i] ELSE 0]
  BY <1>2 DEF AtStop
<1>7. CASE c = Len(given)
  <2>1. \A i \in Index : ~(i < p)
    BY <1>1, <1>2, <1>7 DEF Index, AtStop
  <2> QED  BY <2>1, <1>4, <1>5, <1>6 DEF AtStop
<1>8. CASE c < Len(given)
  <2>1. c + 1 \in 1 .. Len(given)
    BY <1>2, <1>8
  <2>2. Diff(given, c + 1) \in [Index -> Int]
    BY <2>1, DiffSmall
  <2> QED  BY <2>2, <1>4, <1>5, <1>6 DEF AtStop
<1> QED  BY <1>2, <1>7, <1>8

LEMMA CodecInitInv == CodecInit => CodecInv
<1> SUFFICES ASSUME CodecInit PROVE CodecInv
  OBVIOUS
<1>1. /\ BlockLen \in Nat \ {0} /\ 0 \in Index /\ WordBits \in Nat /\ MaxBits \in Nat
      /\ BlockLen \in 1 .. BlockLen
  BY CodecSizes DEF Index
<1>2. input \in Inputs /\ input \in Seq([Index -> Coefficient])
  BY InputBlocks DEF CodecInit
<1>3. WordTypes(words, empty) /\ Written(words, empty, bits, pairs)
  BY WrittenFirst DEF CodecInit
<1>4. CodecTypes
  <2>1. 0 \in 0 .. Len(input)
    BY <1>2
  <2>2. block \in [Index -> Int]
    BY DEF CodecInit, NoBlock
  <2>3. pairs \in Seq(PairType) /\ bits \in Seq(0 .. MaxBits) /\ numbers \in Seq(Int)
        /\ output \in Seq([Index -> Int])
    BY DEF CodecInit
  <2> QED  BY <1>1, <1>2, <1>3, <2>1, <2>2, <2>3 DEF CodecInit, CodecTypes
<1>5. Passes
  BY DEF CodecInit, Passes
<1>6. RleInv
  BY CodedFirst DEF CodecInit, RleInv, DC
<1>7. UnvliInv
  BY DEF CodecInit, UnvliInv
<1>8. UnrleInv
  <2>1. PICK t : Stops(input, pairs, StopAt(coded, 0), t)
    BY <1>6 DEF RleInv, Coded
  <2>2. t[decoded] = [block |-> 0, pos |-> 0]
    BY <2>1 DEF Stops, CodecInit
  <2>3. block = [i \in Index |-> IF i < 0 THEN Diff(input, 0 + 1)[i] ELSE 0]
    <3>1. \A i \in Index : ~(i < 0)
      BY DEF Index
    <3> QED  BY <3>1 DEF CodecInit, NoBlock
  <2>4. /\ output \in Seq([Index -> Int]) /\ Len(output) = 0 /\ 0 <= Len(input)
        /\ left = BlockLen - 0 /\ prevDC = DC(input, 0)
    BY <1>1, <1>2 DEF CodecInit, DC
  <2>5. AtStop(input, [block |-> 0, pos |-> 0], block, left, prevDC, output)
    BY <2>3, <2>4 DEF AtStop
  <2> QED  BY <2>1, <2>2, <2>5 DEF UnrleInv
<1> QED  BY <1>3, <1>4, <1>5, <1>6, <1>7, <1>8 DEF CodecInv, VliInv

LEMMA CodecRleEncode == ASSUME CodecInv, RleEncode PROVE CodecInv'
<1>1. PICK c \in Nat : c = coded /\ c < Len(input) /\ coded' = c + 1 /\ c + 1 \in 0 .. Len(input)
  BY DEF CodecInv, CodecTypes, RleEncode
<1>2. input \in Inputs /\ input \in Seq([Index -> Coefficient])
  BY InputBlocks DEF CodecInv, CodecTypes
<1>3. /\ next = 0 /\ Len(bits) = 0 /\ Len(numbers) = 0 /\ decoded = 0
      /\ numbers \in Seq(Int) /\ bits \in Seq(0 .. MaxBits)
  BY <1>1 DEF CodecInv, CodecTypes, Passes
<1>4. UNCHANGED <<input, bits, words, empty, next, cur, full, numbers, decoded, block, left,
                  prevDC, output>>
  BY DEF RleEncode, vli, unvli, unrle
<1>5. PICK d : d = Diff(input, c + 1)
  OBVIOUS
<1>6. d = [Scanned(input[coded + 1]) EXCEPT ![0] = @ - lastDC] /\ (c + 1) - 1 = c /\ c + 1 # 0
  BY <1>1, <1>5 DEF CodecInv, RleInv, Diff
<1>7. /\ pairs' = IF Used(d) < BlockLen THEN Append(Folded(d).pairs, Pair(0, 0))
                  ELSE Folded(d).pairs
      /\ zeros' = Folded(d).zeros
      /\ lastDC' = Scanned(input[c + 1])[0]
  BY <1>1, <1>6 DEF RleEncode
<1>8. zeros' = 0 /\ pairs' \in Seq(PairType) /\ Coded(input, pairs', StopAt(c + 1, 0))
  <2>1. pairs \in Seq(PairType) /\ zeros = 0 /\ Coded(input, pairs, StopAt(c, 0))
    BY <1>1 DEF CodecInv, CodecTypes, RleInv
  <2>2. PICK qs : qs = IF Used(d) < BlockLen THEN Append(Folded(d).pairs, Pair(0, 0))
                       ELSE Folded(d).pairs
    OBVIOUS
  <2>3. Folded(d).zeros = 0 /\ qs \in Seq(PairType) /\ Coded(input, qs, StopAt(c + 1, 0))
    BY <1>1, <1>2, <1>5, <2>1, <2>2, BlockCoded
  <2> QED  BY ONLY <1>7, <2>2, <2>3
<1>9. RleInv'
  <2>1. lastDC' = DC(input, c + 1)
    BY <1>6, <1>7 DEF DC
  <2> QED  BY <1>1, <1>4, <1>8, <2>1 DEF RleInv
<1>10. CodecTypes'
  BY <1>1, <1>4, <1>8 DEF CodecInv, CodecTypes
<1>11. Passes'
  BY <1>3, <1>4, <1>8 DEF CodecInv, Passes
<1>12. VliInv'
  <2>1. PICK s : Places(words, empty, bits, pairs, s)
    BY DEF CodecInv, VliInv, Written
  <2>2. Places(words, empty, bits, pairs', s)
    BY <1>3, <2>1 DEF Places
  <2> QED  BY <1>4, <2>2 DEF VliInv, Written
<1>13. UnvliInv'
  BY <1>3, <1>4 DEF CodecInv, UnvliInv
<1>14. UnrleInv'
  <2>1. PICK t : Stops(input, pairs, StopAt(coded, 0), t)
                 /\ AtStop(input, t[decoded], block, left, prevDC, output)
    BY DEF CodecInv, UnrleInv
  <2>2. PICK u : Stops(input, pairs', StopAt(c + 1, 0), u)
    BY <1>8 DEF Coded
  <2>3. u[decoded] = t[decoded]
    BY <1>3, <2>1, <2>2 DEF Stops
  <2> QED  BY <1>1, <1>4, <2>1, <2>2, <2>3 DEF UnrleInv
<1> QED  BY <1>9, <1>10, <1>11, <1>12, <1>13, <1>14 DEF CodecInv

LEMMA CodecVliEncode == ASSUME CodecInv, VliEncode PROVE CodecInv'
<1>1. UNCHANGED <<input, coded, lastDC, zeros, pairs, next, cur, full, numbers, decoded, block,
                  left, prevDC, output>>
  BY DEF VliEncode, rle, unvli, unrle
<1>2. PICK n \in Nat : n = Len(bits) /\ n < Len(pairs) /\ n + 1 \in 1 .. Len(pairs)
  BY DEF CodecInv, CodecTypes, VliEncode
<1>3. next = 0 /\ Len(numbers) = 0 /\ decoded = 0 /\ coded = Len(input)
  BY <1>2 DEF CodecInv, CodecTypes, Passes, VliEncode
<1>4. PICK v, b : v = pairs[n + 1].number /\ b = BitLength(v)
  OBVIOUS
<1>5. Small(v)
  <2>1. pairs[n + 1] \in PairType
    BY <1>2 DEF CodecInv, CodecTypes
  <2> QED  BY <2>1, <1>4 DEF PairType
<1>6. PICK a : a = Appended(words, empty, b, Bits(v))
  OBVIOUS
<1>7. bits' = Append(bits, b) /\ words' = a.words /\ empty' = a.empty
  BY <1>2, <1>4, <1>6 DEF VliEncode, Appended
<1>8. bits \in Seq(0 .. MaxBits) /\ WordTypes(words, empty) /\ Written(words, empty, bits, pairs)
  BY DEF CodecInv, CodecTypes, VliInv
<1>9. /\ WordTypes(a.words, a.empty) /\ b \in 0 .. MaxBits
      /\ Written(a.words, a.empty, Append(bits, b), pairs)
  BY <1>2, <1>4, <1>5, <1>6, <1>8, WrittenMore
<1>10. bits' \in Seq(0 .. MaxBits) /\ Len(bits') = n + 1
  <2> DEFINE S == 0 .. MaxBits
  <2>1. bits \in Seq(S) /\ b \in S
    BY <1>8, <1>9
  <2> HIDE DEF S
  <2>2. bits' \in Seq(S) /\ Len(bits') = n + 1
    BY <1>2, <1>7, <2>1
  <2> QED  BY <2>2 DEF S
<1>11. CodecTypes'
  BY <1>1, <1>7, <1>9, <1>10 DEF CodecInv, CodecTypes
<1>12. Passes'
  BY <1>1, <1>2, <1>3, <1>10 DEF CodecInv, Passes
<1>13. VliInv'
  BY <1>1, <1>7, <1>9 DEF VliInv
<1>14. RleInv' /\ UnrleInv'
  BY <1>1 DEF CodecInv, RleInv, UnrleInv
<1>15. UnvliInv'
  BY <1>1, <1>3 DEF CodecInv, CodecTypes, UnvliInv
<1> QED  BY <1>11, <1>12, <1>13, <1>14, <1>15 DEF CodecInv

LEMMA CodecOpen == ASSUME CodecInv, Open PROVE CodecInv'
<1>1. UNCHANGED <<input, coded, lastDC, zeros, pairs, bits, words, empty, numbers, decoded, block,
                  left, prevDC, output>>
  BY DEF Open, rle, vli, unrle
<1>2. /\ coded = Len(input) /\ Len(bits) = Len(pairs) /\ next = 0
      /\ cur' = words[1] /\ full' = WordBits /\ next' = 2
  BY DEF Open
<1>3. PICK s : Places(words, empty, bits, pairs, s)
  BY DEF CodecInv, VliInv, Written
<1>4. Len(numbers) = 0 /\ decoded = 0
  BY <1>2 DEF CodecInv, CodecTypes, Passes
<1>5. PICK x \in Nat : x = words[1] /\ x < Pow[WordBits]
  <2>1. words \in Seq(Nat) /\ Len(words) > 0 /\ \A i \in 1 .. Len(words) : words[i] < Pow[WordBits]
    BY DEF CodecInv, CodecTypes, WordTypes
  <2>2. 1 \in 1 .. Len(words)
    BY ONLY <2>1
  <2> QED  BY ONLY <2>1, <2>2
<1>6. WordBits \in Nat /\ WordBits \in 0 .. WordBits
  BY CodecSizes
<1>7. Unused(x, WordBits) = x
  <2>1. Pow[WordBits] \in Nat \ {0} /\ Pow[WordBits - WordBits] = 1
    BY <1>6, PowStep, PowUnfolded
  <2>2. x % Pow[WordBits] = x
    BY <1>5, <2>1
  <2> QED  BY <2>1, <2>2 DEF Unused
<1>8. AtPlace(words, s[Len(numbers)], 2, x, WordBits)
  <2>1. s[Len(numbers)] = [word |-> 1, free |-> WordBits]
    BY <1>3, <1>4 DEF Places
  <2> QED  BY <2>1, <1>5, <1>7 DEF AtPlace
<1>9. UnvliInv'
  BY <1>1, <1>2, <1>3, <1>4, <1>5, <1>8 DEF CodecInv, UnvliInv
<1>10. CodecTypes'
  BY <1>1, <1>2, <1>5, <1>6 DEF CodecInv, CodecTypes
<1>11. Passes'
  BY <1>1, <1>2 DEF CodecInv, Passes
<1>12. RleInv' /\ UnrleInv' /\ VliInv'
  BY <1>1 DEF CodecInv, RleInv, UnrleInv, VliInv
<1> QED  BY <1>9, <1>10, <1>11, <1>12 DEF CodecInv

LEMMA CodecVliDecode == ASSUME CodecInv, VliDecode PROVE CodecInv'
<1>1. UNCHANGED <<input, coded, lastDC, zeros, pairs, bits, words, empty, decoded, block, left,
                  prevDC, output>>
  BY DEF VliDecode, rle, vli, unrle
<1>2. PICK n \in Nat : /\ n = Len(numbers) /\ n < Len(bits) /\ n + 1 \in 1 .. Len(bits)
                       /\ n \in 0 .. Len(bits) /\ n + 1 \in 0 .. Len(bits) /\ (n + 1) - 1 = n
                       /\ next > 0 /\ Len(bits) = Len(pairs) /\ n + 1 \in 1 .. Len(pairs)
  <2>1. Len(numbers) < Len(bits) /\ next > 0
    BY DEF VliDecode
  <2>2. Len(numbers) \in Nat /\ Len(bits) \in Nat
    BY DEF CodecInv, CodecTypes
  <2>3. Len(bits) = Len(pairs)
    BY <2>1 DEF CodecInv, Passes
  <2> QED  BY ONLY <2>1, <2>2, <2>3
<1>3. PICK s : Places(words, empty, bits, pairs, s) /\ AtPlace(words, s[n], next, cur, full)
  BY <1>2 DEF CodecInv, UnvliInv
<1>4. PICK b, v : b = bits[n + 1] /\ v = pairs[n + 1].number
  OBVIOUS
<1>5. Small(v) /\ b = BitLength(v) /\ b \in 0 .. MaxBits
  <2>1. pairs[n + 1] \in PairType
    BY <1>2 DEF CodecInv, CodecTypes
  <2>2. Small(v)
    BY <2>1, <1>4 DEF PairType
  <2>3. b = BitLength(v)
    BY <1>2, <1>3, <1>4 DEF Places
  <2> QED  BY <2>2, <2>3, Lengths
<1>6. Packed(words, s[n], b, Bits(v), s[n + 1])
  BY <1>2, <1>3, <1>4 DEF Places
<1>7. Within(words, empty, s[n]) /\ Within(words, empty, s[n + 1])
  BY <1>2, <1>3 DEF Places
<1>8. PICK a : a = Taken(words, next, cur, full, b)
  OBVIOUS
<1>9. a.raw = Bits(v) /\ AtPlace(words, s[n + 1], a.next, a.cur, a.full)
      /\ a.next \in Nat /\ a.cur \in Nat
  <2>1. WordTypes(words, empty)
    BY DEF CodecInv, CodecTypes
  <2> QED  BY <1>3, <1>5, <1>6, <1>7, <1>8, <2>1, BitsTaken
<1>10. /\ numbers' = Append(numbers, Number(b, a.raw))
       /\ cur' = a.cur /\ full' = a.full /\ next' = a.next
  BY <1>2, <1>4, <1>8 DEF VliDecode, Taken, More, Word, Number
<1>11. numbers' = Append(numbers, v) /\ v \in Int
  BY <1>5, <1>9, <1>10, SignKept DEF Small
<1>12. /\ numbers' \in Seq(Int) /\ Len(numbers') = n + 1 /\ numbers'[n + 1] = v
       /\ \A i \in 1 .. n : numbers'[i] = numbers[i]
  BY <1>2, <1>11 DEF CodecInv, CodecTypes
<1>13. a.full \in 0 .. WordBits
  BY <1>7, <1>9 DEF Within, AtPlace
<1>14. CodecTypes'
  BY <1>1, <1>9, <1>10, <1>12, <1>13 DEF CodecInv, CodecTypes
<1>15. next' > 0
  <2>1. s[n + 1].word \in 1 .. Len(words)
    BY <1>7 DEF Within
  <2>2. next' = s[n + 1].word + 1
    BY <1>9, <1>10 DEF AtPlace
  <2> QED  BY <2>1, <2>2
<1>16. decoded = 0 /\ coded = Len(input)
  BY <1>2 DEF CodecInv, CodecTypes, Passes
<1>17. Passes'
  BY <1>1, <1>2, <1>12, <1>15, <1>16 DEF CodecInv, Passes
<1>18. UnvliInv'
  <2>1. \A i \in 1 .. Len(numbers') : numbers'[i] = pairs[i].number
    <3> TAKE i \in 1 .. Len(numbers')
    <3>1. i = n + 1 \/ i \in 1 .. n
      BY <1>12
    <3>2. \A k \in 1 .. n : numbers[k] = pairs[k].number
      BY <1>2 DEF CodecInv, UnvliInv
    <3> QED  BY <3>1, <3>2, <1>4, <1>12
  <2>2. AtPlace(words, s[Len(numbers')], next', cur', full')
    BY <1>9, <1>10, <1>12
  <2> QED  BY <1>1, <1>3, <2>1, <2>2 DEF UnvliInv
<1>19. RleInv' /\ UnrleInv' /\ VliInv'
  BY <1>1 DEF CodecInv, RleInv, UnrleInv, VliInv
<1> QED  BY <1>14, <1>17, <1>18, <1>19 DEF CodecInv

LEMMA CodecRleDecode == ASSUME CodecInv, RleDecode PROVE CodecInv'
<1>1. UNCHANGED <<input, coded, lastDC, zeros, pairs, bits, words, empty, next, cur, full, numbers>>
  BY DEF RleDecode, rle, vli, unvli
<1>2. input \in Seq([Index -> Coefficient])
  BY InputBlocks DEF CodecInv, CodecTypes
<1>3. PICK n \in Nat : /\ n = decoded /\ n + 1 \in 1 .. Len(pairs) /\ n + 1 \in 0 .. Len(pairs)
                       /\ n \in 0 .. Len(pairs) /\ (n + 1) - 1 = n /\ decoded' = n + 1
                       /\ Len(numbers) = Len(pairs) /\ next > 0
  BY DEF CodecInv, CodecTypes, RleDecode
<1>4. PICK t : /\ Stops(input, pairs, StopAt(coded, 0), t)
               /\ AtStop(input, t[n], block, left, prevDC, output)
  BY <1>3 DEF CodecInv, UnrleInv
<1>5. PICK run \in Nat, v \in Int : run = pairs[n + 1].run /\ v = pairs[n + 1].number
  <2>1. pairs[n + 1] \in PairType
    BY <1>3 DEF CodecInv, CodecTypes
  <2> QED  BY <2>1 DEF PairType
<1>6. numbers[n + 1] = v
  BY <1>3, <1>5 DEF CodecInv, UnvliInv
<1>7. t[n] \in Stop /\ t[n + 1] \in Stop /\ Covers(input, t[n], run, v, t[n + 1])
  BY <1>3, <1>4, <1>5 DEF Stops
<1>8. PICK a : a = Unrun(block, left, prevDC, output, run, v)
  OBVIOUS
<1>9. block' = a.block /\ left' = a.left /\ prevDC' = a.dc /\ output' = a.output
  BY <1>3, <1>5, <1>6, <1>8 DEF RleDecode, Unrun, Span
<1>10. AtStop(input, t[n + 1], block', left', prevDC', output')
  <2>1. AtStop(input, t[n + 1], a.block, a.left, a.dc, a.output)
    BY <1>2, <1>4, <1>7, <1>8, RunPlaced
  <2> QED  BY ONLY <1>9, <2>1
<1>11. /\ block' \in [Index -> Int] /\ left' \in 1 .. BlockLen /\ prevDC' \in Int
       /\ output' \in Seq([Index -> Int])
  BY <1>2, <1>7, <1>10, AtStopTypes
<1>12. CodecTypes'
  BY <1>1, <1>3, <1>11 DEF CodecInv, CodecTypes
<1>13. Passes'
  BY <1>1, <1>3 DEF CodecInv, Passes
<1>14. UnrleInv'
  BY <1>1, <1>3, <1>4, <1>10 DEF UnrleInv
<1>15. RleInv' /\ VliInv' /\ UnvliInv'
  BY <1>1 DEF CodecInv, RleInv, VliInv, UnvliInv
<1> QED  BY <1>12, <1>13, <1>14, <1>15 DEF CodecInv

LEMMA CodecInvHolds == CodecSpec => []CodecInv
<1>1. ASSUME CodecInv, UNCHANGED codecVars PROVE CodecInv'
  BY <1>1 DEF CodecInv, CodecTypes, Passes, RleInv, VliInv, UnvliInv, UnrleInv,
              codecVars, rle, vli, unvli, unrle
<1>2. CodecInv /\ [CodecNext]_codecVars => CodecInv'
  BY <1>1, CodecRleEncode, CodecVliEncode, CodecOpen, CodecVliDecode, CodecRleDecode
     DEF CodecNext
<1> QED  BY CodecInitInv, <1>2, PTL DEF CodecSpec

(* vliDecode takes no word that vliEncode did not write.                   *)
THEOREM OnlyWrittenRead == CodecSpec => []ReadsWritten
<1>1. CodecInv => ReadsWritten
  <2> SUFFICES ASSUME CodecInv PROVE next <= Len(words) + 1
    BY DEF ReadsWritten
  <2>1. next \in Nat /\ Len(words) \in Nat
    BY DEF CodecInv, CodecTypes, WordTypes
  <2>2. CASE next > 0
    <3>1. PICK s : /\ Places(words, empty, bits, pairs, s)
                   /\ AtPlace(words, s[Len(numbers)], next, cur, full)
      BY <2>2 DEF CodecInv, UnvliInv
    <3>2. Len(numbers) \in 0 .. Len(bits)
      BY DEF CodecInv, CodecTypes, Passes
    <3>3. s[Len(numbers)].word \in 1 .. Len(words)
      BY <3>1, <3>2 DEF Places, Within
    <3>4. next = s[Len(numbers)].word + 1
      BY <3>1 DEF AtPlace
    <3> QED  BY <3>3, <3>4, <2>1
  <2> QED  BY <2>1, <2>2
<1> QED  BY <1>1, CodecInvHolds, PTL

(* What comes back is what went in.                                        *)
THEOREM CodingLossless == CodecSpec => []Lossless
<1>1. CodecInv => Lossless
  <2> SUFFICES ASSUME CodecInv PROVE Lossless
    OBVIOUS
  <2>1. input \in Seq([Index -> Coefficient])
    BY InputBlocks DEF CodecInv, CodecTypes
  <2>2. PICK t : /\ Stops(input, pairs, StopAt(coded, 0), t)
                 /\ AtStop(input, t[decoded], block, left, prevDC, output)
    BY DEF CodecInv, UnrleInv
  <2>3. decoded \in 0 .. Len(pairs)
    BY DEF CodecInv, CodecTypes, Passes
  <2>4. PICK c \in Nat : /\ c = t[decoded].block /\ c = Len(output) /\ c <= Len(input)
                         /\ \A i \in 1 .. c : output[i] = input[i]
    BY <2>2, <2>3 DEF Stops, Stop, AtStop
  <2>5. \A i \in DOMAIN numbers : numbers[i] = pairs[i].number
    <3>1. numbers \in Seq(Int)
      BY DEF CodecInv, CodecTypes
    <3>2. DOMAIN numbers = 1 .. Len(numbers)
      BY ONLY <3>1
    <3>3. \A i \in 1 .. Len(numbers) : numbers[i] = pairs[i].number
      BY DEF CodecInv, UnvliInv
    <3> QED  BY ONLY <3>2, <3>3
  <2>6. IsPrefix(output, input)
    <3>1. output \in Seq([Index -> Int])
      BY DEF CodecInv, CodecTypes
    <3> QED  BY <2>1, <2>4, <3>1 DEF IsPrefix
  <2>7. ASSUME next > 0, decoded = Len(pairs) PROVE output = input /\ left = BlockLen
    <3>1. coded = Len(input)
      BY <2>7 DEF CodecInv, CodecTypes, Passes
    <3>2. t[decoded] = [block |-> Len(input), pos |-> 0]
      <4>1. BlockLen # 0
        BY CodecSizes
      <4> QED  BY <4>1, <2>2, <2>7, <3>1 DEF Stops, StopAt
    <3>3. left = BlockLen - 0
      BY <2>2, <3>2 DEF AtStop
    <3>4. left = BlockLen
      BY <3>3, CodecSizes
    <3>5. Len(output) = Len(input) /\ \A i \in 1 .. Len(input) : output[i] = input[i]
      <4>0. t[decoded].block = Len(input)
        BY ONLY <3>2
      <4>1. c = Len(input)
        BY ONLY <2>4, <4>0, Zenon
      <4> QED  BY ONLY <4>1, <2>4
    <3>6. output = input
      <4>1. output \in Seq([Index -> Int])
        BY DEF CodecInv, CodecTypes
      <4>2. output = [i \in 1 .. Len(output) |-> output[i]]
        BY <4>1
      <4>3. input = [i \in 1 .. Len(input) |-> input[i]]
        BY <2>1
      <4> QED  BY ONLY <4>2, <4>3, <3>5
    <3> QED  BY <3>4, <3>6
  <2> QED  BY <2>5, <2>6, <2>7 DEF Lossless
<1> QED  BY <1>1, CodecInvHolds, PTL
=============================================================================
