--------------------------- MODULE RestoreProofs ----------------------------
(***************************************************************************)
(* Proofs about Restore for any folder: any raw copies and deltas, any     *)
(* bases, any order in which they are read.                                *)
(***************************************************************************)
EXTENDS Restore, QueueLemmas

TypeInv == /\ base \in [Deltas -> Raws \cup Deltas]
           /\ files \subseteq Raws \cup Deltas
           /\ list \in [Lists -> Seq(Deltas)]
           /\ ending \in [Lists -> BOOLEAN]
           /\ told \in [Lists -> BOOLEAN]
           /\ consumer \in [Lists -> {"runs", "waits", "woken", "left"}]
           /\ batch \in [Lists -> Seq(Deltas)]
           /\ queue \in Seq(Deltas)
           /\ written \subseteq Deltas
           /\ spurious \in BOOLEAN

(* Who has ended, and what that leaves.  A consumer that waits, was woken  *)
(* or has left has done all it took.                                       *)
Ended == /\ \A l \in Lists : told[l] => ending[l]
         /\ ending["read"] => files = {}
         /\ ending["dedup"] => SecondPhase /\ queue = <<>>
         /\ \A l \in Lists : consumer[l] # "runs" => batch[l] = <<>>

(* Without a spurious wakeup a consumer was woken for something, and has   *)
(* left for the end.                                                       *)
Heard == \A l \in Lists :
            ~spurious => /\ consumer[l] = "woken" => list[l] # <<>> \/ told[l]
                         /\ consumer[l] = "left" => list[l] = <<>> /\ ending[l]

Control == TypeInv /\ Ended /\ Heard /\ NoMissedSignal

-----------------------------------------------------------------------------
(* A list that was appended to is not empty. *)
LEMMA AppendedTo ==
    ASSUME NEW S, NEW s \in Seq(S), NEW x \in S
    PROVE  Append(s, x) \in Seq(S) /\ Append(s, x) # <<>>
BY AppendProperties, LenProperties, EmptySeq

LEMMA InitControl == Init => Control
<1> SUFFICES ASSUME Init PROVE Control
  OBVIOUS
<1> USE DEF Init
<1>1. TypeInv
  BY FilesAssumption, EmptySeq DEF TypeInv
<1>2. Ended /\ Heard /\ NoMissedSignal
  BY DEF Ended, Heard, NoMissedSignal, SecondPhase, Lists
<1> QED  BY <1>1, <1>2 DEF Control

(* Once the second phase has begun, nothing of the first one happens.      *)
LEMMA PhasesFollow ==
    ASSUME TypeInv, Ended, SecondPhase
    PROVE  files = {} /\ batch["read"] = <<>>
BY DEF TypeInv, Ended, SecondPhase, Lists

(* What a step does to the threads' bookkeeping, one action at a time.     *)
LEMMA ReadDeltaControl == ASSUME Control, NEW x \in Deltas, ReadDelta(x) PROVE Control'
<1> USE DEF Control, ReadDelta, Woken, Lists
<1>1. TypeInv'
  BY AppendedTo DEF TypeInv
<1>2. Append(list["read"], x) # <<>>
  BY AppendedTo DEF TypeInv
<1>3. ~ending["read"] /\ ~told["read"] /\ ~SecondPhase
  BY DEF Ended, SecondPhase
<1>4. Ended'
  BY <1>3 DEF Ended, TypeInv, SecondPhase
<1>5. Heard' /\ NoMissedSignal'
  BY <1>2, <1>3 DEF Heard, NoMissedSignal, Ended, TypeInv
<1> QED  BY <1>1, <1>4, <1>5

LEMMA ReadRawControl == ASSUME Control, NEW r \in Raws, ReadRaw(r) PROVE Control'
<1> USE DEF Control, ReadRaw
<1>1. TypeInv'
  BY DEF TypeInv
<1>2. Ended' /\ Heard' /\ NoMissedSignal'
  BY DEF Ended, Heard, NoMissedSignal, SecondPhase
<1> QED  BY <1>1, <1>2

LEMMA EndReadingControl == ASSUME Control, EndReading PROVE Control'
<1> USE DEF Control, EndReading, Lists
<1>1. TypeInv'
  BY DEF TypeInv
<1>2. Ended' /\ Heard' /\ NoMissedSignal'
  BY DEF Ended, Heard, NoMissedSignal, SecondPhase, TypeInv
<1> QED  BY <1>1, <1>2

LEMMA TellEndControl == ASSUME Control, NEW l \in Lists, TellEnd(l) PROVE Control'
<1> USE DEF Control, TellEnd, Woken
<1>1. TypeInv'
  BY DEF TypeInv
<1>2. SecondPhase => SecondPhase'
  BY DEF SecondPhase, TypeInv, Lists
<1>3. Ended'
  BY <1>2 DEF Ended, TypeInv, Lists, NoMissedSignal
<1>4. Heard' /\ NoMissedSignal'
  BY DEF Heard, NoMissedSignal, Ended, TypeInv
<1> QED  BY <1>1, <1>3, <1>4

LEMMA TakeAllControl ==
    ASSUME Control, NEW l \in Lists, TakeAll(l), consumer[l] \in {"runs", "woken"}
    PROVE  Control'
<1> USE DEF Control, TakeAll
<1>1. TypeInv'
  BY EmptySeq DEF TypeInv
<1>2. SecondPhase => SecondPhase'
  BY DEF SecondPhase, TypeInv, Lists
<1>3. Ended'
  BY <1>2 DEF Ended, TypeInv
<1>4. Heard' /\ NoMissedSignal'
  BY DEF Heard, NoMissedSignal, TypeInv
<1> QED  BY <1>1, <1>3, <1>4

LEMMA TestControl == ASSUME Control, NEW l \in Lists, Test(l) \/ Retest(l) PROVE Control'
<1>1. CASE TakeAll(l) /\ consumer[l] \in {"runs", "woken"}
  BY <1>1, TakeAllControl
<1>2. ASSUME NEW state \in {"waits", "left"}, Become(l, state), UNCHANGED spurious,
             list[l] = <<>>, batch[l] = <<>>,
             state = "waits" => ~ending[l],
             state = "left" => spurious \/ ending[l],
             consumer[l] \in {"runs", "woken"}
      PROVE  Control'
  <2> USE <1>2 DEF Control, Become
  <2>1. TypeInv'
    BY DEF TypeInv
  <2>2. SecondPhase => SecondPhase'
    BY DEF SecondPhase, TypeInv, Lists
  <2>3. Ended'
    BY <2>2 DEF Ended, TypeInv
  <2>4. Heard' /\ NoMissedSignal'
    BY DEF Heard, NoMissedSignal, Ended, TypeInv
  <2> QED  BY <2>1, <2>3, <2>4
<1>3. CASE Test(l) /\ ~TakeAll(l)
  BY <1>2, <1>3 DEF Test
<1>4. CASE Retest(l) /\ ~TakeAll(l)
  <2>1. batch[l] = <<>> /\ (spurious \/ ending[l])
    BY <1>4 DEF Control, Ended, Heard, Retest
  <2> QED  BY <2>1, <1>2, <1>4 DEF Retest
<1> QED  BY <1>1, <1>3, <1>4 DEF Test, Retest

LEMMA SpuriousControl == ASSUME Control, NEW l \in Lists, Spurious(l) PROVE Control'
<1> USE DEF Control, Spurious, Become
<1>1. TypeInv'
  BY DEF TypeInv
<1>2. SecondPhase => SecondPhase'
  BY DEF SecondPhase, TypeInv, Lists
<1>3. Ended' /\ Heard' /\ NoMissedSignal'
  BY <1>2 DEF Ended, Heard, NoMissedSignal, TypeInv
<1> QED  BY <1>1, <1>3

LEMMA DecodeControl == ASSUME Control, Decode PROVE Control'
<1> USE DEF Control, Decode, Lists
<1>1. Head(batch["read"]) \in Deltas /\ Tail(batch["read"]) \in Seq(Deltas)
  BY HeadTailProperties DEF TypeInv
<1>2. Append(queue, Head(batch["read"])) \in Seq(Deltas)
  BY <1>1, AppendProperties DEF TypeInv
<1>3. TypeInv'
  BY <1>1, <1>2 DEF TypeInv
<1>4. ~SecondPhase /\ consumer["read"] = "runs"
  BY PhasesFollow DEF Ended, TypeInv
<1>5. Ended' /\ Heard' /\ NoMissedSignal'
  BY <1>4 DEF Ended, Heard, NoMissedSignal, SecondPhase, TypeInv
<1> QED  BY <1>3, <1>5

LEMMA ApplyControl == ASSUME Control, Apply PROVE Control'
<1> USE DEF Control, Apply, Woken, Lists
<1>1. Head(queue) \in Deltas /\ Tail(queue) \in Seq(Deltas)
  BY HeadTailProperties DEF TypeInv
<1>2. /\ Append(list["dedup"], Head(queue)) \in Seq(Deltas)
      /\ Append(list["dedup"], Head(queue)) # <<>>
  <2>1. list["dedup"] \in Seq(Deltas)
    BY DEF TypeInv
  <2> QED  BY <1>1, <2>1, AppendedTo
<1>3. TypeInv'
  BY <1>1, <1>2 DEF TypeInv
<1>4. ~ending["dedup"] /\ ~told["dedup"]
  BY DEF Ended
<1>5. Ended'
  BY <1>4 DEF Ended, SecondPhase, TypeInv
<1>6. Heard' /\ NoMissedSignal'
  BY <1>2, <1>4 DEF Heard, NoMissedSignal, TypeInv
<1> QED  BY <1>3, <1>5, <1>6

LEMMA PutBackControl == ASSUME Control, PutBack PROVE Control'
<1> USE DEF Control, PutBack
<1>1. Head(queue) \in Deltas /\ Tail(queue) \in Seq(Deltas)
  BY HeadTailProperties DEF TypeInv
<1>2. TypeInv'
  BY <1>1, AppendProperties DEF TypeInv
<1>3. Ended' /\ Heard' /\ NoMissedSignal'
  BY DEF Ended, Heard, NoMissedSignal, SecondPhase
<1> QED  BY <1>2, <1>3

LEMMA EndApplyingControl == ASSUME Control, EndApplying PROVE Control'
<1> USE DEF Control, EndApplying, Lists
<1>1. TypeInv'
  BY DEF TypeInv
<1>2. Ended' /\ Heard' /\ NoMissedSignal'
  BY DEF Ended, Heard, NoMissedSignal, SecondPhase, TypeInv
<1> QED  BY <1>1, <1>2

LEMMA EncodeControl == ASSUME Control, Encode PROVE Control'
<1> USE DEF Control, Encode, Lists
<1>1. Head(batch["dedup"]) \in Deltas /\ Tail(batch["dedup"]) \in Seq(Deltas)
  BY HeadTailProperties DEF TypeInv
<1>2. TypeInv'
  BY <1>1 DEF TypeInv
<1>3. Ended' /\ Heard' /\ NoMissedSignal'
  BY DEF Ended, Heard, NoMissedSignal, SecondPhase, TypeInv
<1> QED  BY <1>2, <1>3

LEMMA NextControl == Control /\ [Next]_vars => Control'
<1> SUFFICES ASSUME Control, [Next]_vars PROVE Control'
  OBVIOUS
<1>1. "read" \in Lists /\ "dedup" \in Lists
  BY DEF Lists
<1>2. CASE Read
  BY <1>1, <1>2, ReadDeltaControl, ReadRawControl, EndReadingControl, TellEndControl DEF Read
<1>3. CASE Unpack
  BY <1>1, <1>3, TestControl, DecodeControl DEF Unpack
<1>4. CASE Rebuilder
  BY <1>1, <1>4, ApplyControl, PutBackControl, EndApplyingControl, TellEndControl DEF Rebuilder
<1>5. CASE Output
  BY <1>1, <1>5, TestControl, EncodeControl DEF Output
<1>6. CASE \E l \in Lists : Spurious(l)
  BY <1>6, SpuriousControl
<1>7. CASE UNCHANGED vars
  BY <1>7 DEF vars, Control, TypeInv, Ended, Heard, NoMissedSignal, SecondPhase
<1> QED  BY <1>2, <1>3, <1>4, <1>5, <1>6, <1>7 DEF Next

(* The bookkeeping of the four threads holds in every state.               *)
THEOREM Controlled == Spec => []Control
BY InitControl, NextControl, PTL DEF Spec

(* No consumer of the restorer waits for what is in its list already, or   *)
(* for an end that was signalled before, for any folder.                   *)
THEOREM SignalsHeard == Spec => []NoMissedSignal
<1>1. Control => NoMissedSignal
  BY DEF Control
<1> QED  BY <1>1, Controlled, PTL

(* The reader and the decoder are done when the rebuilder begins: what it  *)
(* walks without a mutex is its own.                                       *)
THEOREM PhasesKeptApart == Spec => []PhasesApart
<1>1. Control => PhasesApart
  BY PhasesFollow DEF Control, PhasesApart
<1> QED  BY <1>1, Controlled, PTL

-----------------------------------------------------------------------------
(* Where the deltas are, as sets: a, b, c, d, e for the five places on the *)
(* way in its order, u unread and w written.                               *)
Apart(a, b, c, d, e, u, w) ==
    /\ a \cap (b \cup c \cup d \cup e \cup u \cup w) = {}
    /\ b \cap (c \cup d \cup e \cup u \cup w) = {}
    /\ c \cap (d \cup e \cup u \cup w) = {}
    /\ d \cap (e \cup u \cup w) = {}
    /\ e \cap (u \cup w) = {}
    /\ u \cap w = {}
    /\ Deltas = a \cup b \cup c \cup d \cup e \cup u \cup w

(* Every delta is in one place, once. *)
Placed == /\ Distinct(batch["dedup"]) /\ Distinct(list["dedup"]) /\ Distinct(queue)
          /\ Distinct(batch["read"]) /\ Distinct(list["read"])
          /\ Apart(Range(batch["dedup"]), Range(list["dedup"]), Range(queue),
                   Range(batch["read"]), Range(list["read"]), files \cap Deltas, written)

LEMMA EmptyRange == Range(<<>>) = {} /\ Distinct(<<>>)
BY DEF Range, Distinct

LEMMA InitPlaced == Init => Placed
<1> SUFFICES ASSUME Init PROVE Placed
  OBVIOUS
<1>1. /\ batch["dedup"] = <<>> /\ list["dedup"] = <<>> /\ queue = <<>>
      /\ batch["read"] = <<>> /\ list["read"] = <<>>
      /\ files \cap Deltas = Deltas /\ written = {}
  BY DEF Init, Lists
<1> QED  BY <1>1, EmptyRange DEF Placed, Apart

LEMMA ReadDeltaPlaced ==
    ASSUME TypeInv, Placed, NEW x \in Deltas, ReadDelta(x) PROVE Placed'
<1>1. list["read"] \in Seq(Deltas)
  BY DEF TypeInv, Lists
<1>2. x \notin Range(list["read"])
  BY DEF Placed, Apart, ReadDelta
<1>3. list'["read"] = Append(list["read"], x) /\ list'["dedup"] = list["dedup"]
  BY DEF ReadDelta, TypeInv, Lists
<1>4. Distinct(list'["read"]) /\ Range(list'["read"]) = Range(list["read"]) \cup {x}
  BY <1>1, <1>2, <1>3, RangeAppend, DistinctAppend DEF Placed
<1>5. x \in files \cap Deltas /\ files' \cap Deltas = (files \cap Deltas) \ {x}
  BY DEF ReadDelta
<1>6. UNCHANGED <<batch, queue, written>>
  BY DEF ReadDelta
<1> QED  BY <1>3, <1>4, <1>5, <1>6 DEF Placed, Apart

LEMMA ReadRawPlaced ==
    ASSUME Placed, NEW r \in Raws, ReadRaw(r) PROVE Placed'
<1>1. files' \cap Deltas = files \cap Deltas
  BY FilesAssumption DEF ReadRaw
<1> QED  BY <1>1 DEF ReadRaw, Placed

LEMMA TakeAllPlaced ==
    ASSUME TypeInv, Placed, NEW l \in Lists, TakeAll(l), batch[l] = <<>> PROVE Placed'
<1>1. /\ batch'[l] = list[l] /\ list'[l] = <<>>
      /\ \A k \in Lists \ {l} : batch'[k] = batch[k] /\ list'[k] = list[k]
      /\ UNCHANGED <<files, queue, written>>
  BY DEF TakeAll, TypeInv
<1>2. CASE l = "read"
  <2>1. batch'["dedup"] = batch["dedup"] /\ list'["dedup"] = list["dedup"]
    BY <1>1, <1>2 DEF Lists
  <2> QED  BY <1>1, <1>2, <2>1, EmptyRange DEF Placed, Apart
<1>3. CASE l = "dedup"
  <2>1. batch'["read"] = batch["read"] /\ list'["read"] = list["read"]
    BY <1>1, <1>3 DEF Lists
  <2> QED  BY <1>1, <1>3, <2>1, EmptyRange DEF Placed, Apart
<1> QED  BY <1>2, <1>3 DEF Lists

LEMMA DecodePlaced == ASSUME TypeInv, Placed, Decode PROVE Placed'
<1> DEFINE x == Head(batch["read"])
<1>1. batch["read"] \in Seq(Deltas) /\ batch["read"] # <<>> /\ queue \in Seq(Deltas)
  BY DEF Decode, TypeInv, Lists
<1>2. /\ x \in Range(batch["read"]) /\ x \in Deltas
      /\ Range(Tail(batch["read"])) = Range(batch["read"]) \ {x}
      /\ Distinct(Tail(batch["read"]))
  BY <1>1, RangeTail, HeadTailProperties DEF Placed
<1>3. x \notin Range(queue)
  BY <1>2 DEF Placed, Apart
<1>4. Range(Append(queue, x)) = Range(queue) \cup {x} /\ Distinct(Append(queue, x))
  BY <1>1, <1>2, <1>3, RangeAppend, DistinctAppend DEF Placed
<1>5. /\ queue' = Append(queue, x)
      /\ batch'["read"] = Tail(batch["read"]) /\ batch'["dedup"] = batch["dedup"]
      /\ UNCHANGED <<files, list, written>>
  BY DEF Decode, TypeInv, Lists
<1> HIDE DEF x
<1> QED  BY <1>2, <1>4, <1>5 DEF Placed, Apart

LEMMA ApplyPlaced == ASSUME TypeInv, Placed, Apply PROVE Placed'
<1> DEFINE x == Head(queue)
<1>1. queue \in Seq(Deltas) /\ queue # <<>> /\ list["dedup"] \in Seq(Deltas)
  BY DEF Apply, TypeInv, Lists
<1>2. /\ x \in Range(queue) /\ x \in Deltas
      /\ Range(Tail(queue)) = Range(queue) \ {x} /\ Distinct(Tail(queue))
  BY <1>1, RangeTail, HeadTailProperties DEF Placed
<1>3. x \notin Range(list["dedup"])
  BY <1>2 DEF Placed, Apart
<1>4. /\ Range(Append(list["dedup"], x)) = Range(list["dedup"]) \cup {x}
      /\ Distinct(Append(list["dedup"], x))
  BY <1>1, <1>2, <1>3, RangeAppend, DistinctAppend DEF Placed
<1>5. /\ queue' = Tail(queue)
      /\ list'["dedup"] = Append(list["dedup"], x) /\ list'["read"] = list["read"]
      /\ UNCHANGED <<files, batch, written>>
  BY DEF Apply, TypeInv, Lists
<1> HIDE DEF x
<1> QED  BY <1>2, <1>4, <1>5 DEF Placed, Apart

(* Turning the queue over changes neither what is in it nor how often. *)
LEMMA PutBackPlaced == ASSUME TypeInv, Placed, PutBack PROVE Placed'
<1> DEFINE x == Head(queue)
           t == Tail(queue)
<1>1. queue \in Seq(Deltas) /\ queue # <<>>
  BY DEF PutBack, TypeInv
<1>2. /\ x \in Range(queue) /\ x \in Deltas /\ t \in Seq(Deltas)
      /\ Range(t) = Range(queue) \ {x} /\ Distinct(t)
  BY <1>1, RangeTail, HeadTailProperties DEF Placed
<1>4. queue' = Append(t, x) /\ UNCHANGED <<files, list, batch, written>>
  BY DEF PutBack
<1> HIDE DEF x, t
<1>3. Range(Append(t, x)) = Range(t) \cup {x} /\ Distinct(Append(t, x))
  BY <1>2, RangeAppend, DistinctAppend
<1>5. Range(queue') = Range(queue)
  BY <1>2, <1>3, <1>4
<1> QED  BY <1>3, <1>4, <1>5 DEF Placed

LEMMA EncodePlaced == ASSUME TypeInv, Placed, Encode PROVE Placed'
<1> DEFINE x == Head(batch["dedup"])
<1>1. batch["dedup"] \in Seq(Deltas) /\ batch["dedup"] # <<>>
  BY DEF Encode, TypeInv, Lists
<1>2. /\ x \in Range(batch["dedup"])
      /\ Range(Tail(batch["dedup"])) = Range(batch["dedup"]) \ {x}
      /\ Distinct(Tail(batch["dedup"]))
  BY <1>1, RangeTail DEF Placed
<1>3. /\ batch'["dedup"] = Tail(batch["dedup"]) /\ batch'["read"] = batch["read"]
      /\ written' = written \cup {x}
      /\ UNCHANGED <<files, list, queue>>
  BY DEF Encode, TypeInv, Lists
<1> HIDE DEF x
<1> QED  BY <1>2, <1>3 DEF Placed, Apart

LEMMA NextPlaced == Control /\ Placed /\ [Next]_vars => Placed'
<1> SUFFICES ASSUME Control, Placed, [Next]_vars PROVE Placed'
  OBVIOUS
<1>1. TypeInv
  BY DEF Control
<1>2. CASE Read
  <2>1. CASE EndReading \/ TellEnd("read")
    BY <2>1 DEF EndReading, TellEnd, Placed
  <2> QED  BY <1>1, <1>2, <2>1, ReadDeltaPlaced, ReadRawPlaced DEF Read
<1>3. ASSUME NEW l \in Lists, Test(l) \/ Retest(l) PROVE Placed'
  <2>1. CASE TakeAll(l)
    <3>1. batch[l] = <<>>
      BY <1>3 DEF Test, Retest, Control, Ended
    <3> QED  BY <1>1, <2>1, <3>1, TakeAllPlaced
  <2>2. CASE ~TakeAll(l)
    BY <1>3, <2>2 DEF Test, Retest, Become, Placed
  <2> QED  BY <2>1, <2>2
<1>4. CASE Rebuilder
  <2>1. CASE EndApplying \/ TellEnd("dedup")
    BY <2>1 DEF EndApplying, TellEnd, Placed
  <2> QED  BY <1>1, <1>4, <2>1, ApplyPlaced, PutBackPlaced DEF Rebuilder
<1>5. CASE Decode \/ Encode
  BY <1>1, <1>5, DecodePlaced, EncodePlaced
<1>6. CASE (\E l \in Lists : Spurious(l)) \/ UNCHANGED vars
  BY <1>6 DEF Spurious, Become, Placed, vars
<1>7. "read" \in Lists /\ "dedup" \in Lists
  BY DEF Lists
<1> QED  BY <1>2, <1>3, <1>4, <1>5, <1>6, <1>7 DEF Next, Unpack, Output

(* Two queues in a row, without a node in common. *)
LEMMA Joined ==
    ASSUME NEW S, NEW s \in Seq(S), NEW t \in Seq(S), Distinct(s), Distinct(t),
           Range(s) \cap Range(t) = {}
    PROVE  /\ s \o t \in Seq(S)
           /\ Range(s \o t) = Range(s) \cup Range(t)
           /\ Distinct(s \o t)
<1> DEFINE r == s \o t
<1>1. /\ r \in Seq(S) /\ Len(r) = Len(s) + Len(t) /\ Len(s) \in Nat /\ Len(t) \in Nat
      /\ \A i \in 1 .. Len(s) + Len(t) : r[i] = IF i <= Len(s) THEN s[i] ELSE t[i - Len(s)]
  BY ConcatProperties, LenProperties
<1>2. /\ Range(r) = {r[i] : i \in 1 .. Len(r)}
      /\ Range(s) = {s[i] : i \in 1 .. Len(s)} /\ Range(t) = {t[i] : i \in 1 .. Len(t)}
  BY <1>1, RangeEquality
<1> HIDE DEF r
<1>3. ASSUME NEW i \in 1 .. Len(r)
      PROVE  \/ i \in 1 .. Len(s) /\ r[i] = s[i]
             \/ i - Len(s) \in 1 .. Len(t) /\ r[i] = t[i - Len(s)] /\ i > Len(s)
  BY <1>1
<1>4. ASSUME NEW i \in 1 .. Len(s) PROVE i \in 1 .. Len(r) /\ r[i] = s[i]
  BY <1>1
<1>5. ASSUME NEW i \in 1 .. Len(t)
      PROVE  Len(s) + i \in 1 .. Len(r) /\ r[Len(s) + i] = t[i]
  <2>1. Len(s) + i \in 1 .. Len(s) + Len(t) /\ ~(Len(s) + i <= Len(s)) /\ (Len(s) + i) - Len(s) = i
    BY <1>1
  <2> QED  BY <2>1, <1>1
<1>6. Range(r) = Range(s) \cup Range(t)
  <2>1. \A i \in 1 .. Len(r) : r[i] \in Range(s) \cup Range(t)
    BY <1>2, <1>3
  <2>2. \A i \in 1 .. Len(s) : s[i] \in Range(r)
    BY <1>2, <1>4
  <2>3. \A i \in 1 .. Len(t) : t[i] \in Range(r)
    BY <1>2, <1>5
  <2>4. \A y \in Range(r) : \E i \in 1 .. Len(r) : y = r[i]
    BY <1>2
  <2>5. \A y \in Range(s) : \E i \in 1 .. Len(s) : y = s[i]
    BY <1>2
  <2>6. \A y \in Range(t) : \E i \in 1 .. Len(t) : y = t[i]
    BY <1>2
  <2> QED  BY <2>1, <2>2, <2>3, <2>4, <2>5, <2>6
<1>7. Distinct(r)
  <2> SUFFICES ASSUME NEW i \in 1 .. Len(r), NEW j \in 1 .. Len(r), r[i] = r[j] PROVE i = j
    BY DEF Distinct
  <2>1. \A k \in 1 .. Len(s) : s[k] \in Range(s)
    BY <1>2
  <2>2. \A k \in 1 .. Len(t) : t[k] \in Range(t)
    BY <1>2
  <2>3. CASE i \in 1 .. Len(s) /\ j \in 1 .. Len(s)
    BY <2>3, <1>4 DEF Distinct
  <2>4. CASE i \notin 1 .. Len(s) /\ j \notin 1 .. Len(s)
    <3>1. /\ i - Len(s) \in 1 .. Len(t) /\ r[i] = t[i - Len(s)]
          /\ j - Len(s) \in 1 .. Len(t) /\ r[j] = t[j - Len(s)]
      BY <2>4, <1>3
    <3>2. i - Len(s) = j - Len(s)
      BY <3>1 DEF Distinct
    <3> QED  BY <3>2, <1>1
  <2>5. CASE i \in 1 .. Len(s) /\ j \notin 1 .. Len(s)
    BY <2>5, <2>1, <2>2, <1>3, SMTT(20)
  <2>6. CASE i \notin 1 .. Len(s) /\ j \in 1 .. Len(s)
    BY <2>6, <2>1, <2>2, <1>3, SMTT(20)
  <2> QED  BY <2>3, <2>4, <2>5, <2>6
<1> QED  BY <1>1, <1>6, <1>7 DEF r

(* A queue has as many nodes as places when no node stands twice in it. *)
LEMMA Counted ==
    ASSUME NEW S, NEW s \in Seq(S), Distinct(s)
    PROVE  Cardinality(Range(s)) = Len(s)
<1> DEFINE f == [i \in 1 .. Len(s) |-> s[i]]
<1>1. Len(s) \in Nat /\ Range(s) = {s[i] : i \in 1 .. Len(s)}
  BY LenProperties, RangeEquality
<1>2. f \in Bijection(1 .. Len(s), Range(s))
  <2>1. f \in [1 .. Len(s) -> Range(s)]
    BY <1>1
  <2>2. \A i, j \in 1 .. Len(s) : f[i] = f[j] => i = j
    BY DEF Distinct
  <2>3. \A y \in Range(s) : \E i \in 1 .. Len(s) : f[i] = y
    BY <1>1
  <2> QED  BY <2>1, <2>2, <2>3 DEF Bijection, Injection, Surjection, IsInjective
<1>3. ExistsBijection(1 .. Len(s), Range(s))
  BY <1>2 DEF ExistsBijection
<1>4. IsFiniteSet(1 .. Len(s)) /\ Cardinality(1 .. Len(s)) = Len(s)
  <2>1. PICK k \in Nat : k = Len(s)
    BY <1>1
  <2>2. IsFiniteSet(1 .. k) /\ Cardinality(1 .. k) = IF 1 > k THEN 0 ELSE k - 1 + 1
    BY FS_Interval
  <2>3. (IF 1 > k THEN 0 ELSE k - 1 + 1) = k
    OBVIOUS
  <2> QED  BY ONLY <2>1, <2>2, <2>3
<1> QED  BY <1>3, <1>4, FS_Bijection

LEMMA PlacedOnTheWay == ASSUME TypeInv, Placed PROVE NoneLost
<1> DEFINE s1 == batch["dedup"]
           s2 == list["dedup"]
           s4 == batch["read"]
           s5 == list["read"]
           s12 == s1 \o s2
           s123 == s12 \o queue
           s1234 == s123 \o s4
<1>1. /\ s1 \in Seq(Deltas) /\ s2 \in Seq(Deltas) /\ queue \in Seq(Deltas)
      /\ s4 \in Seq(Deltas) /\ s5 \in Seq(Deltas)
  BY DEF TypeInv, Lists
<1>2. /\ Distinct(s1) /\ Distinct(s2) /\ Distinct(queue) /\ Distinct(s4) /\ Distinct(s5)
      /\ Apart(Range(s1), Range(s2), Range(queue), Range(s4), Range(s5), files \cap Deltas,
               written)
  BY DEF Placed
<1>3. OnTheWay = s1234 \o s5
  BY DEF OnTheWay
<1> HIDE DEF s1, s2, s4, s5, s12, s123, s1234
<1>4. /\ s12 \in Seq(Deltas) /\ Distinct(s12)
      /\ Range(s12) = Range(s1) \cup Range(s2)
  BY <1>1, <1>2, Joined DEF Apart, s12
<1>5. /\ s123 \in Seq(Deltas) /\ Distinct(s123)
      /\ Range(s123) = Range(s12) \cup Range(queue)
  <2>1. Range(s12) \cap Range(queue) = {}
    BY <1>2, <1>4 DEF Apart
  <2> QED  BY <1>1, <1>2, <1>4, <2>1, Joined DEF s123
<1>6. /\ s1234 \in Seq(Deltas) /\ Distinct(s1234)
      /\ Range(s1234) = Range(s123) \cup Range(s4)
  <2>1. Range(s123) \cap Range(s4) = {}
    BY <1>2, <1>4, <1>5 DEF Apart
  <2> QED  BY <1>1, <1>2, <1>5, <2>1, Joined DEF s1234
<1>7. /\ OnTheWay \in Seq(Deltas) /\ Distinct(OnTheWay)
      /\ Range(OnTheWay)
             = Range(s1) \cup Range(s2) \cup Range(queue) \cup Range(s4) \cup Range(s5)
  <2>1. Range(s1234) \cap Range(s5) = {}
    BY <1>2, <1>4, <1>5, <1>6 DEF Apart
  <2>2. /\ OnTheWay \in Seq(Deltas) /\ Distinct(OnTheWay)
        /\ Range(OnTheWay) = Range(s1234) \cup Range(s5)
    BY <1>1, <1>2, <1>3, <1>6, <2>1, Joined
  <2> QED  BY <1>4, <1>5, <1>6, <2>2
<1>8. Cardinality(Range(OnTheWay)) = Len(OnTheWay)
  BY <1>7, Counted
<1> QED  BY <1>2, <1>7, <1>8 DEF NoneLost, Apart

(* A delta that was read is handed on from thread to thread and written at *)
(* most once, and none disappears on the way, for any folder.              *)
THEOREM DeltasKept == Spec => []NoneLost
<1>1. Control /\ Placed => NoneLost
  BY PlacedOnTheWay DEF Control
<1> QED  BY <1>1, InitPlaced, NextPlaced, Controlled, PTL DEF Spec

(* When the consumers were only woken by signals, both phases leave        *)
(* nothing behind: every delta of the folder is written.                   *)
THEOREM FolderRestored == Spec => []AllRestored
<1>1. Control /\ Placed => AllRestored
  <2> SUFFICES ASSUME Control, Placed, Finished, ~spurious PROVE written = Deltas
    BY DEF AllRestored
  <2> USE DEF Control
  <2>1. ending["dedup"] /\ SecondPhase /\ queue = <<>>
    BY DEF Finished, Ended, Lists
  <2>2. files = {} /\ batch["read"] = <<>>
    BY <2>1, PhasesFollow
  <2>3. list["dedup"] = <<>> /\ list["read"] = <<>> /\ batch["dedup"] = <<>>
    BY <2>1 DEF Finished, SecondPhase, Heard, Ended, Lists
  <2> QED  BY <2>1, <2>2, <2>3, EmptyRange DEF Placed, Apart
<1> QED  BY <1>1, InitPlaced, NextPlaced, Controlled, PTL DEF Spec

-----------------------------------------------------------------------------
(* The images that wait to be encoded are in the table: what was taken     *)
(* from decdList was put there before it was put into dedupList.           *)
Back == Range(batch["dedup"]) \cup Range(list["dedup"]) \subseteq table

LEMMA InitBack == Init => Back
<1> SUFFICES ASSUME Init PROVE Back
  OBVIOUS
<1>1. batch["dedup"] = <<>> /\ list["dedup"] = <<>>
  BY DEF Init, Lists
<1> QED  BY <1>1, EmptyRange DEF Back

LEMMA NextBack == Control /\ Placed /\ Back /\ [Next]_vars => Back'
<1> SUFFICES ASSUME Control, Placed, Back, [Next]_vars PROVE Back'
  OBVIOUS
<1>1. TypeInv
  BY DEF Control
<1>2. ASSUME batch'["dedup"] = batch["dedup"], list'["dedup"] = list["dedup"],
             table \subseteq table'
      PROVE  Back'
  BY <1>2 DEF Back
<1>3. CASE Read
  <2>1. /\ batch'["dedup"] = batch["dedup"] /\ list'["dedup"] = list["dedup"]
        /\ table \subseteq table'
    BY <1>1, <1>3 DEF Read, ReadDelta, ReadRaw, EndReading, TellEnd, TypeInv, Lists
  <2> QED  BY <1>2, <2>1
<1>4. ASSUME NEW l \in Lists, Test(l) \/ Retest(l) PROVE Back'
  <2>1. CASE TakeAll(l)
    <3>1. batch[l] = <<>>
      BY <1>4 DEF Test, Retest, Control, Ended
    <3>2. /\ batch'[l] = list[l] /\ list'[l] = <<>> /\ table' = table
          /\ \A k \in Lists \ {l} : batch'[k] = batch[k] /\ list'[k] = list[k]
      BY <1>1, <2>1 DEF TakeAll, TypeInv
    <3>3. CASE l = "dedup"
      BY <3>2, <3>3, EmptyRange DEF Back
    <3>4. CASE l = "read"
      BY <1>2, <3>2, <3>4 DEF Lists
    <3> QED  BY <3>3, <3>4 DEF Lists
  <2>2. CASE ~TakeAll(l)
    BY <1>2, <1>4, <2>2 DEF Test, Retest, Become
  <2> QED  BY <2>1, <2>2
<1>5. CASE Decode
  BY <1>1, <1>2, <1>5 DEF Decode, TypeInv, Lists
<1>6. CASE Encode
  <2> DEFINE s == batch["dedup"]
  <2>1. s \in Seq(Deltas) /\ s # <<>> /\ Distinct(s)
    BY <1>1, <1>6 DEF Encode, TypeInv, Lists, Placed
  <2>2. /\ batch'["dedup"] = Tail(s) /\ UNCHANGED <<list, table>>
    BY <1>1, <1>6 DEF Encode, TypeInv, Lists
  <2>3. Range(Tail(s)) \subseteq Range(s)
    BY <2>1, RangeTail
  <2> QED  BY <2>2, <2>3 DEF Back
<1>7. CASE Apply
  <2>1. /\ list["dedup"] \in Seq(Deltas) /\ Head(queue) \in Deltas
        /\ table' = table \cup {Head(queue)}
        /\ list'["dedup"] = Append(list["dedup"], Head(queue))
        /\ batch' = batch
    BY <1>1, <1>7, HeadTailProperties DEF Apply, TypeInv, Lists
  <2>2. Range(list'["dedup"]) = Range(list["dedup"]) \cup {Head(queue)}
    BY <2>1, RangeAppend
  <2> QED  BY <2>1, <2>2 DEF Back
<1>8. CASE PutBack \/ EndApplying \/ TellEnd("dedup")
  BY <1>2, <1>8 DEF PutBack, EndApplying, TellEnd
<1>9. CASE (\E l \in Lists : Spurious(l)) \/ UNCHANGED vars
  BY <1>2, <1>9 DEF Spurious, Become, vars
<1>10. "read" \in Lists /\ "dedup" \in Lists
  BY DEF Lists
<1> QED
  BY <1>3, <1>4, <1>5, <1>6, <1>7, <1>8, <1>9, <1>10 DEF Next, Unpack, Output, Rebuilder

-----------------------------------------------------------------------------
(* Everything but reading a raw copy, applying a delta and writing an      *)
(* image is hidden from the promise.                                       *)
LEMMA StepKept ==
    ASSUME Control, Placed, Back, [Next]_vars PROVE [Promise!Next]_(Promise!vars)
<1> USE DEF Promise!Next, Promise!vars
<1>1. TypeInv
  BY DEF Control
<1>2. ASSUME UNCHANGED <<base, table, written>> PROVE UNCHANGED Promise!vars
  BY <1>2
<1>3. CASE Read
  <2>1. ASSUME NEW r \in Raws, ReadRaw(r) PROVE Promise!Load(r) \/ UNCHANGED Promise!vars
    BY <2>1 DEF ReadRaw, Promise!Load
  <2>2. CASE (\E x \in Deltas : ReadDelta(x)) \/ EndReading \/ TellEnd("read")
    BY <1>2, <2>2 DEF ReadDelta, EndReading, TellEnd
  <2> QED  BY <1>3, <2>1, <2>2 DEF Read
<1>4. CASE \E l \in Lists : Test(l) \/ Retest(l) \/ Spurious(l)
  BY <1>2, <1>4 DEF Test, Retest, Spurious, TakeAll, Become
<1>5. CASE Apply
  <2>1. Head(queue) \in Deltas
    BY <1>1, <1>5, HeadTailProperties DEF Apply, TypeInv
  <2>2. Promise!Apply(Head(queue)) \/ UNCHANGED Promise!vars
    BY <1>5, <2>1 DEF Apply, Promise!Apply
  <2> QED  BY <2>1, <2>2
<1>6. CASE Encode
  <2> DEFINE x == Head(batch["dedup"])
  <2>1. batch["dedup"] \in Seq(Deltas) /\ batch["dedup"] # <<>> /\ Distinct(batch["dedup"])
    BY <1>1, <1>6 DEF Encode, TypeInv, Lists, Placed
  <2>2. x \in Range(batch["dedup"]) /\ x \in Deltas
    BY <2>1, RangeTail, HeadTailProperties
  <2>3. x \in table /\ x \notin written
    BY <2>2 DEF Back, Placed, Apart
  <2>4. Promise!Write(x)
    BY <1>6, <2>2, <2>3 DEF Encode, Promise!Write
  <2> QED  BY <2>2, <2>4
<1>7. CASE Decode \/ PutBack \/ EndApplying \/ TellEnd("dedup") \/ UNCHANGED vars
  BY <1>2, <1>7 DEF Decode, PutBack, EndApplying, TellEnd, vars
<1>8. "read" \in Lists /\ "dedup" \in Lists
  BY DEF Lists
<1> QED
  BY <1>3, <1>4, <1>5, <1>6, <1>7, <1>8 DEF Next, Unpack, Output, Rebuilder

(* Two threads, a list and a queue that is turned over, for any folder:    *)
(* a delta is applied once its base is back, an image is written after it  *)
(* came back, and nothing is written twice.                                *)
THEOREM RestoringKeepsPromise == Spec => ImplementsRebuild
<1>1. Init => Promise!Init
  BY DEF Init, Promise!Init
<1>2. Control /\ Placed /\ Back /\ [Next]_vars => [Promise!Next]_(Promise!vars)
  BY StepKept
<1> QED
  BY <1>1, <1>2, InitPlaced, NextPlaced, InitBack, NextBack, Controlled, PTL
  DEF Spec, ImplementsRebuild, Promise!Spec
=============================================================================
