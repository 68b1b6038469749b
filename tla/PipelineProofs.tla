--------------------------- MODULE PipelineProofs ---------------------------
(***************************************************************************)
(* Proofs about Pipeline for any batch and any number of threads of each   *)
(* kind: the stages end one after the other, and only the thread that can  *)
(* miss its end sleeps on a list that has ended.                           *)
(***************************************************************************)
EXTENDS Pipeline, QueueLemmas

TypeInv == /\ method \in {"idelta", "xdelta"}
           /\ fate \in [Images -> Fates]
           /\ source \subseteq Images
           /\ held \in [Threads -> Images \cup {NoImage}]
           /\ queue \in [Lists -> Seq(Images)]
           /\ ending \in [Lists -> Nat]
           /\ waitR \subseteq Running \ Sources
           /\ waitW \subseteq Threads
           /\ ended \subseteq Running
           /\ copied \subseteq Images
           /\ cache \in [Writers -> SUBSET Images]
           /\ file \subseteq Images

(* A thread with an image runs, and no write_thread keeps one. *)
Working == \A t \in Threads : held[t] # NoImage => t \in Running \ (ended \cup Sinks)

(* A list counts the threads before it that have ended. *)
Counted == \A l \in Lists : ending[l] = Cardinality(WritersOf(l) \cap ended)

Order == TypeInv /\ Working /\ Counted /\ ShutInOrder

-----------------------------------------------------------------------------
(* Which lists the threads stand between. *)
LEMMA Kinds ==
    ASSUME NEW t \in Threads
    PROVE  /\ t = <<t[1], t[2]>>
           /\ \/ t[1] = "read" /\ t[2] \in Readers /\ t \in Sources
              \/ t[1] = "decode" /\ t[2] \in Decoders /\ t \notin Sources \cup Sinks
              \/ t[1] \in {"detect", "index", "dedup", "rejpeg"} /\ t[2] \in Chains
                 /\ t \notin Sources \cup Sinks
              \/ t[1] = "write" /\ t[2] \in Writers /\ t \in Sinks
           /\ t[1] = "read" <=> t \in Sources
           /\ t[1] = "write" <=> t \in Sinks
BY DEF Threads, Sources, Sinks

LEMMA InList ==
    ASSUME NEW t \in Threads, t \notin Sources PROVE In(t) \in Lists
<1>1. CASE t[1] = "decode"  BY <1>1 DEF In, Lists, Shared
<1>2. CASE t[1] = "write"  BY <1>2 DEF In, Lists, Shared
<1>3. CASE t[1] = "detect"  BY <1>3 DEF In, Lists, Shared
<1>4. CASE t[1] = "index"  BY <1>4, Kinds DEF In, Lists, Private
<1>5. CASE t[1] = "dedup"  BY <1>5, Kinds DEF In, Lists, Private
<1>6. CASE t[1] = "rejpeg"  BY <1>6, Kinds DEF In, Lists, Private
<1> QED  BY <1>1, <1>2, <1>3, <1>4, <1>5, <1>6, Kinds

LEMMA OutList ==
    ASSUME NEW t \in Threads, t \notin Sinks PROVE Out(t) \in Lists
<1>1. CASE t[1] = "read"  BY <1>1 DEF Out, Lists, Shared
<1>2. CASE t[1] = "decode"  BY <1>2 DEF Out, Lists, Shared
<1>3. CASE t[1] = "detect"  BY <1>3, Kinds DEF Out, Lists, Private
<1>4. CASE t[1] = "index"  BY <1>4, Kinds DEF Out, Lists, Private
<1>5. CASE t[1] = "dedup"  BY <1>5, Kinds DEF Out, Lists, Private
<1>6. CASE t[1] = "rejpeg"  BY <1>6 DEF Out, Lists, Shared
<1> QED  BY <1>1, <1>2, <1>3, <1>4, <1>5, <1>6, Kinds

LEMMA FiniteThreads ==
    /\ IsFiniteSet(Threads) /\ IsFiniteSet(Running)
    /\ \A l : IsFiniteSet(WritersOf(l)) /\ IsFiniteSet(ReadersOf(l))
<1>1. /\ IsFiniteSet(Readers) /\ IsFiniteSet(Decoders) /\ IsFiniteSet(Chains)
      /\ IsFiniteSet(Writers)
  BY StagesAssumption
<1>2. IsFiniteSet({"read"}) /\ IsFiniteSet({"decode"}) /\ IsFiniteSet({"write"})
  BY FS_Singleton
<1>3. IsFiniteSet({"detect", "index", "dedup", "rejpeg"})
  <2>1. {"detect", "index", "dedup", "rejpeg"} = ((({"detect"} \cup {"index"}) \cup {"dedup"}) \cup {"rejpeg"})
    OBVIOUS
  <2>2. IsFiniteSet({"detect"} \cup {"index"})
    BY FS_Singleton, FS_AddElement
  <2>3. IsFiniteSet(({"detect"} \cup {"index"}) \cup {"dedup"})
    BY <2>2, FS_AddElement
  <2>4. IsFiniteSet((({"detect"} \cup {"index"}) \cup {"dedup"}) \cup {"rejpeg"})
    BY <2>3, FS_AddElement
  <2> QED  BY <2>1, <2>4
<1>4. /\ IsFiniteSet({"read"} \X Readers) /\ IsFiniteSet({"decode"} \X Decoders)
      /\ IsFiniteSet({"write"} \X Writers)
      /\ IsFiniteSet({"detect", "index", "dedup", "rejpeg"} \X Chains)
  BY <1>1, <1>2, <1>3, FS_Product
<1>5. IsFiniteSet(({"read"} \X Readers) \cup ({"decode"} \X Decoders))
  BY <1>4, FS_Union
<1>6. IsFiniteSet((({"read"} \X Readers) \cup ({"decode"} \X Decoders)) \cup ({"write"} \X Writers))
  BY <1>4, <1>5, FS_Union
<1>7. IsFiniteSet(Threads)
  BY <1>4, <1>6, FS_Union DEF Threads
<1>8. \A S \in SUBSET Threads : IsFiniteSet(S)
  BY <1>7, FS_Subset
<1>9. Running \subseteq Threads
  BY DEF Running
<1>10. \A l : WritersOf(l) \subseteq Threads /\ ReadersOf(l) \subseteq Threads
  BY <1>9 DEF WritersOf, ReadersOf
<1> QED  BY <1>7, <1>8, <1>9, <1>10

(* The number of pairs whose first part is fixed. *)
LEMMA Row ==
    ASSUME NEW k, NEW S, IsFiniteSet(S)
    PROVE  IsFiniteSet({k} \X S) /\ Cardinality({k} \X S) = Cardinality(S)
<1>1. IsFiniteSet({k}) /\ Cardinality({k}) = 1 /\ Cardinality(S) \in Nat
  BY FS_Singleton, FS_CardinalityType
<1>2. IsFiniteSet({k} \X S) /\ Cardinality({k} \X S) = Cardinality({k}) * Cardinality(S)
  BY <1>1, FS_Product
<1> QED  BY <1>1, <1>2

(* The ends a thread waits for are those of the threads before it. *)
Need(t) == IF t[1] = "decode" THEN Cardinality(Readers)
           ELSE IF t[1] = "detect" THEN Cardinality(Decoders)
           ELSE IF t[1] = "write" THEN Cardinality(Chains)
           ELSE 1

LEMMA Before ==
    ASSUME TypeInv, NEW t \in Running \ Sources
    PROVE  \E S : /\ IsFiniteSet(S) /\ Cardinality(S) = Need(t)
                  /\ WritersOf(In(t)) \subseteq S
<1>1. t \in Threads /\ Runs(t)
  BY DEF Running
<1>2. CASE t[1] = "decode"
  <2>1. WritersOf(In(t)) \subseteq {"read"} \X Readers
    BY <1>2, Kinds DEF WritersOf, Running, In, Out
  <2> QED  BY <1>2, <2>1, Row, StagesAssumption DEF Need
<1>3. CASE t[1] = "detect"
  <2>1. WritersOf(In(t)) \subseteq {"decode"} \X Decoders
    BY <1>3, Kinds DEF WritersOf, Running, In, Out
  <2> QED  BY <1>3, <2>1, Row, StagesAssumption DEF Need
<1>4. CASE t[1] = "write"
  <2>1. WritersOf(In(t)) \subseteq {"rejpeg"} \X Chains
    BY <1>4, Kinds DEF WritersOf, Running, In, Out
  <2> QED  BY <1>4, <2>1, Row, StagesAssumption DEF Need
<1>5. ASSUME NEW k, WritersOf(In(t)) \subseteq {<<k, t[2]>>},
             t[1] \in {"index", "dedup", "rejpeg"}
      PROVE  \E S : /\ IsFiniteSet(S) /\ Cardinality(S) = Need(t)
                    /\ WritersOf(In(t)) \subseteq S
  BY <1>5, FS_Singleton DEF Need
<1>6. CASE t[1] = "index"
  <2>1. WritersOf(In(t)) \subseteq {<<"detect", t[2]>>}
    BY <1>6, Kinds DEF WritersOf, Running, In, Out
  <2> QED  BY <1>5, <1>6, <2>1
<1>7. CASE t[1] = "dedup" /\ method = "idelta"
  <2>1. WritersOf(In(t)) \subseteq {<<"index", t[2]>>}
    BY <1>7, Kinds DEF WritersOf, Running, In, Out
  <2> QED  BY <1>5, <1>7, <2>1
<1>8. CASE t[1] = "dedup" /\ method # "idelta"
  <2>1. WritersOf(In(t)) \subseteq {<<"detect", t[2]>>}
    BY <1>8, Kinds DEF WritersOf, Running, In, Out
  <2> QED  BY <1>5, <1>8, <2>1
<1>9. CASE t[1] = "rejpeg"
  <2>1. WritersOf(In(t)) \subseteq {<<"dedup", t[2]>>}
    BY <1>9, Kinds DEF WritersOf, Running, In, Out
  <2> QED  BY <1>5, <1>9, <2>1
<1> QED  BY <1>1, <1>2, <1>3, <1>4, <1>6, <1>7, <1>8, <1>9, Kinds

LEMMA LastEnd ==
    ASSUME TypeInv, Counted, NEW t \in Running \ Sources, Finished(t)
    PROVE  WritersOf(In(t)) \subseteq ended
<1> DEFINE W == WritersOf(In(t))
<1>1. PICK S : IsFiniteSet(S) /\ Cardinality(S) = Need(t) /\ W \subseteq S
  BY Before
<1>2. t \in Threads /\ In(t) \in Lists
  BY InList DEF Running
<1>3. ending[In(t)] = Cardinality(W \cap ended) /\ ending[In(t)] \in Nat
  BY <1>2 DEF Counted, TypeInv
<1>4. ending[In(t)] >= Need(t)
  BY DEF Finished, Need
<1> HIDE DEF W
<1>5. IsFiniteSet(W \cap ended) /\ Cardinality(W \cap ended) <= Cardinality(S)
      /\ (Cardinality(S) = Cardinality(W \cap ended) => S = W \cap ended)
  BY <1>1, FS_Subset
<1>6. Cardinality(S) \in Nat
  BY <1>1, FS_CardinalityType
<1>7. S = W \cap ended
  BY <1>1, <1>3, <1>4, <1>5, <1>6
<1> QED  BY <1>1, <1>7 DEF W

-----------------------------------------------------------------------------
LEMMA InitOrder == Init => Order
<1> SUFFICES ASSUME Init PROVE Order
  OBVIOUS
<1> USE DEF Init
<1>1. TypeInv
  BY BatchesAssumption, EmptySeq DEF TypeInv
<1>2. Working /\ ShutInOrder
  BY DEF Working, ShutInOrder
<1>3. Counted
  BY FS_EmptySet DEF Counted
<1> QED  BY <1>1, <1>2, <1>3 DEF Order

(* While the choice of the delta method stands, so do the threads. *)
LEMMA SameThreads ==
    ASSUME method' = method
    PROVE  /\ Running' = Running
           /\ \A t : In(t)' = In(t) /\ Finished(t)' = (ending'[In(t)] >= Need(t))
           /\ \A l : WritersOf(l)' = WritersOf(l) /\ ReadersOf(l)' = ReadersOf(l)
<1>1. Running' = Running /\ \A t : In(t)' = In(t)
  BY DEF Running, Runs, In
<1>2. \A l : WritersOf(l)' = WritersOf(l) /\ ReadersOf(l)' = ReadersOf(l)
  BY <1>1 DEF WritersOf, ReadersOf
<1>3. \A t : Finished(t)' = (ending'[In(t)] >= Need(t))
  BY <1>1 DEF Finished, Need
<1> QED  BY <1>1, <1>2, <1>3

(* A list that is shut stays so, unless one of its threads that have not   *)
(* ended appends to it.                                                    *)
LEMMA StaysShut ==
    ASSUME Order, method' = method, ended \subseteq ended', ended' \subseteq Running,
           \A u \in (ended' \ ended) \ Sources :
               WritersOf(In(u)) \subseteq ended' /\ queue'[In(u)] = <<>>,
           \A l \in Lists : \/ queue[l] = <<>> => queue'[l] = <<>>
                            \/ \E t \in WritersOf(l) : t \notin ended
    PROVE  ShutInOrder'
<1>1. ASSUME NEW u \in ended' \ Sources
      PROVE  WritersOf(In(u)) \subseteq ended' /\ queue'[In(u)] = <<>>
  <2>1. u \in Threads /\ In(u) \in Lists
    BY InList DEF Running
  <2>2. CASE u \in ended
    <3>1. WritersOf(In(u)) \subseteq ended /\ queue[In(u)] = <<>>
      BY <1>1, <2>2 DEF Order, ShutInOrder
    <3> QED  BY <2>1, <3>1
  <2> QED  BY <1>1, <2>2
<1> QED  BY <1>1, SameThreads DEF ShutInOrder

(* What n signals leave of the threads W when T wait for the condition. *)
LEMMA SignalledFacts ==
    ASSUME NEW W, IsFiniteSet(W), NEW T, NEW n \in Nat \ {0}, NEW V \in Signalled(W, T, n)
    PROVE  /\ V \subseteq W
           /\ W \cap T # {} => \E t \in W \cap T : t \notin V
           /\ Cardinality(W \cap T) <= n => V \cap T = {}
<1> DEFINE B == W \cap T
<1>1. PICK U \in SUBSET B :
         /\ V = (W \ B) \cup U
         /\ Cardinality(U) = IF Cardinality(B) > n THEN Cardinality(B) - n ELSE 0
  BY DEF Signalled
<1>2. IsFiniteSet(B) /\ IsFiniteSet(U) /\ Cardinality(B) \in Nat
  BY <1>1, FS_Subset, FS_CardinalityType
<1>3. Cardinality(B) <= n => U = {}
  BY <1>1, <1>2, FS_EmptySet
<1>4. B # {} => U # B
  <2>1. B # {} => Cardinality(B) # 0
    BY <1>2, FS_EmptySet
  <2> QED  BY <2>1, <1>1, <1>2
<1> QED  BY <1>1, <1>3, <1>4

(* One signal wakes somebody if anybody waits. *)
LEMMA OneSignal ==
    ASSUME NEW W, IsFiniteSet(W), NEW T, NEW V \in Signalled(W, T, 1)
    PROVE  /\ V \subseteq W
           /\ W \cap T # {} => \E t \in W \cap T : t \notin V
<1> DEFINE B == W \cap T
<1>1. PICK U \in SUBSET B :
         /\ V = (W \ B) \cup U
         /\ Cardinality(U) = IF Cardinality(B) > 1 THEN Cardinality(B) - 1 ELSE 0
  BY DEF Signalled
<1>2. IsFiniteSet(B) /\ Cardinality(B) \in Nat
  BY FS_Subset, FS_CardinalityType
<1>3. B # {} => U # B
  <2>1. B # {} => Cardinality(B) # 0
    BY <1>2, FS_EmptySet
  <2> QED  BY <2>1, <1>1, <1>2
<1> QED  BY <1>1, <1>3

LEMMA WaitingFinite == ASSUME TypeInv PROVE IsFiniteSet(waitR) /\ IsFiniteSet(waitW)
<1>1. waitR \subseteq Threads /\ waitW \subseteq Threads
  BY DEF TypeInv, Running
<1> QED  BY <1>1, FiniteThreads, FS_Subset

(* The signals there are. *)
LEMMA SignalNumbers ==
    ASSUME NEW t PROVE EndSignals(t) \in Nat \ {0} /\ TakeSignals(t) \in Nat \ {0}
<1>1. \A S \in {Readers, Decoders, Chains, Writers} : Cardinality(S) \in Nat \ {0}
  BY StagesAssumption, FS_CardinalityType, FS_EmptySet
<1>2. /\ Cardinality(Decoders) \in Nat \ {0} /\ Cardinality(Chains) \in Nat \ {0}
      /\ Cardinality(Writers) \in Nat \ {0}
  BY <1>1
<1>3. EndSignals(t) \in Nat \ {0}
  <2>1. CASE t[1] = "read"  BY <1>2, <2>1 DEF EndSignals
  <2>2. CASE t[1] = "decode"  BY <1>2, <2>2 DEF EndSignals
  <2>3. CASE t[1] = "rejpeg"  BY <1>2, <2>3 DEF EndSignals
  <2>4. CASE t[1] \notin {"read", "decode", "rejpeg"}  BY <2>4 DEF EndSignals
  <2> QED  BY <2>1, <2>2, <2>3, <2>4
<1>4. TakeSignals(t) \in Nat \ {0}
  BY <1>2 DEF TakeSignals
<1> QED  BY <1>3, <1>4

(* Who is signalled to go on does not wait any more; nobody else is moved. *)
LEMMA SignalsOnlyWake ==
    ASSUME TypeInv, NEW T, NEW n \in Nat \ {0}
    PROVE  /\ \A V \in Signalled(waitR, T, n) : V \subseteq waitR
           /\ \A V \in Signalled(waitW, T, n) : V \subseteq waitW
BY DEF Signalled

LEMMA SameCount ==
    ASSUME Counted, UNCHANGED <<method, ended, ending>> PROVE Counted'
BY SameThreads DEF Counted

(* What each action does to the threads and lists. *)
LEMMA FetchOrder ==
    ASSUME Order, NEW t \in Threads, NEW x \in Images, Fetch(t, x) PROVE Order'
<1> USE DEF Order, Fetch
<1>1. t \in Running \ (ended \cup Sinks)
  BY DEF Idle, Running, Sources, Sinks
<1>2. TypeInv'
  BY SameThreads DEF TypeInv
<1>3. Working'
  BY <1>1, SameThreads DEF Working, TypeInv
<1>4. Counted' /\ ShutInOrder'
  BY SameCount, StaysShut DEF TypeInv
<1> QED  BY <1>2, <1>3, <1>4

LEMMA RawCopyOrder == ASSUME Order, NEW t \in Threads, RawCopy(t) PROVE Order'
<1> USE DEF Order, RawCopy
<1>1. held[t] \in Images
  BY DEF Busy, TypeInv
<1>2. TypeInv'
  BY <1>1, SameThreads DEF TypeInv
<1>3. Working'
  BY SameThreads DEF Working, TypeInv
<1>4. Counted' /\ ShutInOrder'
  BY SameCount, StaysShut DEF TypeInv
<1> QED  BY <1>2, <1>3, <1>4

LEMMA WaitsOrder ==
    ASSUME Order, NEW t \in Threads, PutWait(t) \/ Wait(t) \/ Spurious(t) PROVE Order'
<1> USE DEF Order, PutWait, Wait, Spurious
<1>1. Wait(t) => t \in Running
  BY DEF Idle, Running
<1>2. TypeInv'
  BY <1>1, SameThreads DEF TypeInv
<1>3. Working'
  BY SameThreads DEF Working
<1>4. Counted' /\ ShutInOrder'
  BY SameCount, StaysShut DEF TypeInv
<1> QED  BY <1>2, <1>3, <1>4

LEMMA PutOrder == ASSUME Order, NEW t \in Threads, Put(t) PROVE Order'
<1> USE DEF Order
<1>1. /\ held[t] \in Images /\ t \in Running \ (ended \cup Sinks) /\ Out(t) \in Lists
  BY OutList DEF Put, Passes, Busy, TypeInv, Working
<1>2. waitR' \subseteq waitR
  BY SignalsOnlyWake DEF Put
<1>3. Append(queue[Out(t)], held[t]) \in Seq(Images)
  BY <1>1, AppendProperties DEF TypeInv
<1>4. TypeInv'
  BY <1>1, <1>2, <1>3, SameThreads DEF TypeInv, Put
<1>5. Working'
  BY SameThreads DEF Working, TypeInv, Put
<1>6. Counted'
  BY SameCount DEF Put
<1>7. t \in WritersOf(Out(t)) /\ t \notin ended
  BY <1>1 DEF WritersOf
<1>8. ShutInOrder'
  <2>1. \A l \in Lists : l # Out(t) => queue'[l] = queue[l]
    BY DEF Put, TypeInv
  <2> QED  BY <1>7, <2>1, StaysShut DEF Put, TypeInv
<1> QED  BY <1>4, <1>5, <1>6, <1>8

LEMMA TakeOrder == ASSUME Order, NEW t \in Threads, Take(t) PROVE Order'
<1> USE DEF Order
<1>1. /\ t \in Running \ (ended \cup Sinks) /\ In(t) \in Lists
      /\ queue[In(t)] \in Seq(Images) /\ queue[In(t)] # <<>>
  BY InList DEF Take, Idle, Running, TypeInv
<1>2. Head(queue[In(t)]) \in Images /\ Tail(queue[In(t)]) \in Seq(Images)
  BY <1>1, HeadTailProperties
<1>3. waitW' \subseteq waitW
  BY SignalsOnlyWake, SignalNumbers DEF Take
<1>4. TypeInv'
  BY <1>1, <1>2, <1>3, SameThreads DEF TypeInv, Take
<1>5. Working'
  BY <1>1, SameThreads DEF Working, TypeInv, Take
<1>6. Counted'
  BY SameCount DEF Take
<1>7. ShutInOrder'
  <2>1. \A l \in Lists : queue[l] = <<>> => queue'[l] = <<>>
    BY <1>1 DEF Take, TypeInv
  <2> QED  BY <2>1, StaysShut DEF Take, TypeInv
<1> QED  BY <1>4, <1>5, <1>6, <1>7

LEMMA RecordOrder == ASSUME Order, NEW t \in Threads, Record(t) PROVE Order'
<1> USE DEF Order
<1>1. /\ In(t) \in Lists /\ t[2] \in Writers
      /\ queue[In(t)] \in Seq(Images) /\ queue[In(t)] # <<>>
  BY InList DEF Record, Sinks, Sources, TypeInv
<1>2. Head(queue[In(t)]) \in Images /\ Tail(queue[In(t)]) \in Seq(Images)
  BY <1>1, HeadTailProperties
<1>3. waitW' \subseteq waitW
  BY SignalsOnlyWake, SignalNumbers DEF Record
<1>4. TypeInv'
  BY <1>1, <1>2, <1>3, SameThreads DEF TypeInv, Record
<1>5. Working'
  BY SameThreads DEF Working, Record
<1>6. Counted'
  BY SameCount DEF Record
<1>7. ShutInOrder'
  <2>1. \A l \in Lists : queue[l] = <<>> => queue'[l] = <<>>
    BY <1>1 DEF Record, TypeInv
  <2> QED  BY <2>1, StaysShut DEF Record, TypeInv
<1> QED  BY <1>4, <1>5, <1>6, <1>7

(* The count of the list behind a thread grows as it ends, and no other. *)
LEMMA EndCounted ==
    ASSUME TypeInv, Counted, NEW t \in Running \ Sinks, t \notin ended,
           method' = method, ended' = ended \cup {t},
           ending' = [ending EXCEPT ![Out(t)] = @ + 1]
    PROVE  Counted' /\ ending' \in [Lists -> Nat]
<1>1. Out(t) \in Lists
  BY OutList DEF Running
<1>2. ASSUME NEW l \in Lists PROVE ending'[l] = Cardinality(WritersOf(l) \cap ended')
  <2> DEFINE D == WritersOf(l) \cap ended
  <2>1. IsFiniteSet(D)
    BY FiniteThreads, FS_Intersection
  <2>2. ending[l] = Cardinality(D) /\ ending[l] \in Nat
    BY DEF Counted, TypeInv
  <2>3. CASE l = Out(t)
    <3>1. WritersOf(l) \cap ended' = D \cup {t} /\ t \notin D
      BY <2>3 DEF WritersOf
    <3>2. Cardinality(D \cup {t}) = Cardinality(D) + 1
      BY <2>1, <3>1, FS_AddElement
    <3>3. ending'[l] = ending[l] + 1
      BY <1>1, <2>3 DEF TypeInv
    <3> QED  BY <2>2, <3>1, <3>2, <3>3
  <2>4. CASE l # Out(t)
    <3>1. WritersOf(l) \cap ended' = D
      BY <2>4 DEF WritersOf
    <3>2. ending'[l] = ending[l]
      BY <2>4 DEF TypeInv
    <3> QED  BY <2>2, <3>1, <3>2
  <2> QED  BY <2>3, <2>4
<1>3. Counted'
  BY <1>2, SameThreads DEF Counted
<1>4. ending' \in [Lists -> Nat]
  BY <1>1 DEF TypeInv
<1> QED  BY <1>3, <1>4

(* A thread that is done has all the threads before it ended. *)
LEMMA DoneShut ==
    ASSUME Order, NEW t \in Threads, Done(t)
    PROVE  /\ t \in Running \ ended
           /\ t \notin Sources => WritersOf(In(t)) \subseteq ended /\ queue[In(t)] = <<>>
<1>1. t \in Running \ ended
  BY DEF Done, Idle, Running
<1> QED  BY <1>1, LastEnd DEF Done, Order

LEMMA EndOrder == ASSUME Order, NEW t \in Threads, End(t) PROVE Order'
<1> USE DEF Order
<1>1. /\ t \in Running \ (ended \cup Sinks)
      /\ t \notin Sources => WritersOf(In(t)) \subseteq ended /\ queue[In(t)] = <<>>
  BY DoneShut DEF End
<1>2. waitR' \subseteq waitR
  BY SignalsOnlyWake, SignalNumbers DEF End
<1>3. Counted' /\ ending' \in [Lists -> Nat]
  BY <1>1, EndCounted DEF End
<1>4. TypeInv'
  BY <1>1, <1>2, <1>3, SameThreads DEF TypeInv, End
<1>5. Working'
  BY SameThreads DEF Working, End, Done, Idle
<1>6. ShutInOrder'
  BY <1>1, StaysShut DEF End, TypeInv
<1> QED  BY <1>3, <1>4, <1>5, <1>6

LEMMA EndUnheardOrder == ASSUME Order, NEW c \in Chains, EndUnheard(c) PROVE Order'
<1> USE DEF Order
<1> DEFINE t == <<"index", c>>
           u == <<"dedup", c>>
<1>1. t \in Threads /\ t \notin Sinks /\ u \in Threads /\ u \notin Sources
      /\ Out(t) = <<"ind", c>>
  BY DEF Threads, Sinks, Sources, Out
<1>2. /\ t \in Running \ (ended \cup Sinks)
      /\ t \notin Sources => WritersOf(In(t)) \subseteq ended /\ queue[In(t)] = <<>>
  BY <1>1, DoneShut DEF EndUnheard
<1>3. u \in Running
  BY <1>1 DEF EndUnheard, Idle, Running
<1>4. /\ ended' = ended \cup {t} /\ waitR' = waitR \cup {u}
      /\ ending' = [ending EXCEPT ![Out(t)] = @ + 1]
      /\ held[t] = NoImage
      /\ UNCHANGED <<method, fate, source, held, queue, waitW, copied, cache, file>>
  BY <1>1 DEF EndUnheard, Done, Idle
<1> HIDE DEF t, u
<1>5. Counted' /\ ending' \in [Lists -> Nat]
  BY <1>2, <1>4, EndCounted
<1>6. TypeInv'
  BY <1>1, <1>2, <1>3, <1>4, <1>5, SameThreads DEF TypeInv
<1>7. Working'
  BY <1>4, SameThreads DEF Working
<1>8. ShutInOrder'
  BY <1>2, <1>4, StaysShut DEF TypeInv
<1> QED  BY <1>5, <1>6, <1>7, <1>8

LEMMA EndWriterOrder == ASSUME Order, NEW t \in Threads, EndWriter(t) PROVE Order'
<1> USE DEF Order
<1>1. /\ t \in Running \ ended /\ t \in Sinks /\ t[2] \in Writers
      /\ WritersOf(In(t)) \subseteq ended /\ queue[In(t)] = <<>>
  BY DoneShut DEF EndWriter, Sinks, Sources
<1>2. TypeInv'
  BY <1>1, SameThreads DEF TypeInv, EndWriter
<1>3. Working'
  BY SameThreads DEF Working, EndWriter, Done, Idle
<1>4. Counted'
  <2>1. \A l : WritersOf(l) \cap ended' = WritersOf(l) \cap ended
    BY <1>1 DEF WritersOf, EndWriter
  <2> QED  BY <2>1, SameThreads DEF Counted, EndWriter
<1>5. ShutInOrder'
  BY <1>1, StaysShut DEF EndWriter, TypeInv
<1> QED  BY <1>2, <1>3, <1>4, <1>5

LEMMA NextOrder == Order /\ [Next]_vars => Order'
<1> SUFFICES ASSUME Order, [Next]_vars PROVE Order'
  OBVIOUS
<1>1. ASSUME NEW t \in Threads, Thread(t) PROVE Order'
  BY <1>1, FetchOrder, RawCopyOrder, WaitsOrder, PutOrder, TakeOrder, RecordOrder, EndOrder,
     EndWriterOrder DEF Thread
<1>2. ASSUME NEW t \in Threads, Spurious(t) PROVE Order'
  BY <1>2, WaitsOrder
<1>3. CASE UNCHANGED vars
  <2>1. TypeInv'
    BY <1>3, SameThreads DEF Order, TypeInv, vars
  <2>2. Working'
    BY <1>3, SameThreads DEF Order, Working, vars
  <2>3. Counted'
    BY <1>3, SameCount DEF Order, vars
  <2>4. ShutInOrder'
    BY <1>3, SameThreads DEF Order, ShutInOrder, vars
  <2> QED  BY <2>1, <2>2, <2>3, <2>4 DEF Order
<1> QED  BY <1>1, <1>2, <1>3, EndUnheardOrder DEF Next

(* The order of the stages holds in every reachable state: types, which   *)
(* threads hold images, what the lists count, and who has returned.        *)
THEOREM Ordered == Spec => []Order
BY InitOrder, NextOrder, PTL DEF Spec

(* Over all lists of a batch, for any number of threads of each kind: a    *)
(* thread returns after all the threads before it, with its list empty.    *)
THEOREM StagesShutInOrder == Spec => []ShutInOrder
<1>1. Order => ShutInOrder
  BY DEF Order
<1> QED  BY <1>1, Ordered, PTL

-----------------------------------------------------------------------------
(* An end is signalled as often as there are threads behind the list. *)
LEMMA EnoughSignals ==
    ASSUME NEW t \in Running \ Sinks
    PROVE  Cardinality(ReadersOf(Out(t))) <= EndSignals(t)
<1>1. t \in Threads
  BY DEF Running
<1>2. ASSUME NEW S, IsFiniteSet(S), ReadersOf(Out(t)) \subseteq S,
             Cardinality(S) = EndSignals(t)
      PROVE  Cardinality(ReadersOf(Out(t))) <= EndSignals(t)
  BY <1>2, FS_Subset
<1>3. CASE t[1] = "read"
  <2>1. ReadersOf(Out(t)) \subseteq {"decode"} \X Decoders
    BY <1>3, Kinds DEF ReadersOf, Running, In, Out
  <2> QED  BY <1>2, <1>3, <2>1, Row, StagesAssumption DEF EndSignals
<1>4. CASE t[1] = "decode"
  <2>1. ReadersOf(Out(t)) \subseteq {"detect"} \X Chains
    BY <1>4, Kinds DEF ReadersOf, Running, In, Out
  <2> QED  BY <1>2, <1>4, <2>1, Row, StagesAssumption DEF EndSignals
<1>5. CASE t[1] = "rejpeg"
  <2>1. ReadersOf(Out(t)) \subseteq {"write"} \X Writers
    BY <1>5, Kinds DEF ReadersOf, Running, In, Out
  <2> QED  BY <1>2, <1>5, <2>1, Row, StagesAssumption DEF EndSignals
<1>6. CASE t[1] \in {"detect", "index", "dedup"}
  <2>1. \E k : ReadersOf(Out(t)) \subseteq {<<k, t[2]>>}
    <3>1. CASE t[1] = "detect" /\ method = "idelta"
      <4>1. ReadersOf(Out(t)) \subseteq {<<"index", t[2]>>}
        BY <3>1, Kinds DEF ReadersOf, Running, In, Out
      <4> QED  BY <4>1
    <3>2. CASE t[1] = "detect" /\ method # "idelta"
      <4>1. ReadersOf(Out(t)) \subseteq {<<"dedup", t[2]>>}
        BY <3>2, Kinds DEF ReadersOf, Running, Runs, In, Out
      <4> QED  BY <4>1
    <3>3. CASE t[1] = "index"
      <4>1. ReadersOf(Out(t)) \subseteq {<<"dedup", t[2]>>}
        BY <3>3, Kinds DEF ReadersOf, Running, In, Out
      <4> QED  BY <4>1
    <3>4. CASE t[1] = "dedup"
      <4>1. ReadersOf(Out(t)) \subseteq {<<"rejpeg", t[2]>>}
        BY <3>4, Kinds DEF ReadersOf, Running, In, Out
      <4> QED  BY <4>1
    <3> QED  BY <1>6, <3>1, <3>2, <3>3, <3>4
  <2>2. EndSignals(t) = 1
    BY <1>6 DEF EndSignals
  <2> QED  BY <1>2, <2>1, <2>2, FS_Singleton
<1> QED  BY <1>1, <1>3, <1>4, <1>5, <1>6, Kinds

(* No list is without a thread that reads it. *)
LEMMA SomeoneReads ==
    ASSUME TypeInv, NEW t \in Running \ Sinks PROVE ReadersOf(Out(t)) # {}
<1>1. t \in Threads
  BY DEF Running
<1>2. CASE t[1] = "read"
  <2>1. PICK d : d \in Decoders
    BY StagesAssumption
  <2>2. <<"decode", d>> \in ReadersOf(Out(t))
    BY <1>2, <2>1 DEF ReadersOf, Running, Runs, Threads, Sources, In, Out
  <2> QED  BY <2>2
<1>3. CASE t[1] = "decode"
  <2>1. PICK c : c \in Chains
    BY StagesAssumption
  <2>2. <<"detect", c>> \in ReadersOf(Out(t))
    BY <1>3, <2>1 DEF ReadersOf, Running, Runs, Threads, Sources, In, Out
  <2> QED  BY <2>2
<1>4. CASE t[1] = "rejpeg"
  <2>1. PICK w : w \in Writers
    BY StagesAssumption
  <2>2. <<"write", w>> \in ReadersOf(Out(t))
    BY <1>4, <2>1 DEF ReadersOf, Running, Runs, Threads, Sources, In, Out
  <2> QED  BY <2>2
<1>5. CASE t[1] = "detect"
  <2>1. t[2] \in Chains
    BY <1>1, <1>5, Kinds
  <2>2. CASE method = "idelta"
    <3>1. <<"index", t[2]>> \in ReadersOf(Out(t))
      BY <1>5, <2>1, <2>2 DEF ReadersOf, Running, Runs, Threads, Sources, In, Out
    <3> QED  BY <3>1
  <2>3. CASE method # "idelta"
    <3>1. <<"dedup", t[2]>> \in ReadersOf(Out(t))
      BY <1>5, <2>1, <2>3 DEF ReadersOf, Running, Runs, Threads, Sources, In, Out
    <3> QED  BY <3>1
  <2> QED  BY <2>2, <2>3
<1>6. CASE t[1] = "index"
  <2>1. t[2] \in Chains /\ method = "idelta"
    BY <1>1, <1>6, Kinds DEF Running, Runs
  <2>2. <<"dedup", t[2]>> \in ReadersOf(Out(t))
    BY <1>6, <2>1 DEF ReadersOf, Running, Runs, Threads, Sources, In, Out
  <2> QED  BY <2>2
<1>7. CASE t[1] = "dedup"
  <2>1. t[2] \in Chains
    BY <1>1, <1>7, Kinds
  <2>2. <<"rejpeg", t[2]>> \in ReadersOf(Out(t))
    BY <1>7, <2>1 DEF ReadersOf, Running, Runs, Threads, Sources, In, Out
  <2> QED  BY <2>2
<1> QED  BY <1>1, <1>2, <1>3, <1>4, <1>5, <1>6, <1>7, Kinds

(* The two halves of NoneOversleeps. *)
Woke(t) == Finished(t) => t[1] = "dedup" /\ Overslept(t[2])
Attended(l) == queue[l] # <<>> => ReadersOf(l) \ waitR # {}

LEMMA Halves == NoneOversleeps <=> (\A t \in waitR : Woke(t)) /\ (\A l \in Lists : Attended(l))
BY DEF NoneOversleeps, Woke, Attended

LEMMA HalvesNext ==
    ASSUME \A t \in waitR' : Woke(t)', \A l \in Lists : Attended(l)' PROVE NoneOversleeps'
BY DEF NoneOversleeps, Woke, Attended

(* A thread that slept and still sleeps, with nothing new to hear, has     *)
(* missed no more than before.                                             *)
LEMMA SleepsOn ==
    ASSUME TypeInv, NoneOversleeps, method' = method,
           NEW t \in waitR, t \in waitR', ending'[In(t)] = ending[In(t)]
    PROVE  Woke(t)'
<1>1. t \in Threads /\ In(t) \in Lists
  BY InList DEF TypeInv, Running
<1>2. CASE ~Finished(t)
  <2>1. ~Finished(t)'
    BY <1>2, SameThreads DEF Finished, Need
  <2> QED  BY <2>1 DEF Woke
<1>3. CASE Finished(t)
  <2>1. t[1] = "dedup" /\ method = "idelta" /\ <<"dedup", t[2]>> \in waitR
        /\ ending[<<"ind", t[2]>>] = 1
    BY <1>3 DEF NoneOversleeps, Overslept
  <2>2. In(t) = <<"ind", t[2]>> /\ t = <<"dedup", t[2]>>
    BY <1>1, <2>1, Kinds DEF In
  <2>3. Overslept(t[2])'
    BY <2>1, <2>2 DEF Overslept
  <2> QED  BY <2>1, <2>3 DEF Woke
<1> QED  BY <1>2, <1>3

LEMMA KeepsAwake ==
    ASSUME TypeInv, NoneOversleeps, method' = method, ending' = ending, waitR' \subseteq waitR,
           \A l \in Lists : queue'[l] # <<>> => queue[l] # <<>>
    PROVE  NoneOversleeps'
<1>1. \A t \in waitR' : Woke(t)'
  BY SleepsOn
<1>2. \A l \in Lists : Attended(l)'
  BY SameThreads, Halves DEF Attended
<1> QED  BY <1>1, <1>2, HalvesNext

LEMMA PutAwake == ASSUME Order, NoneOversleeps, NEW t \in Threads, Put(t) PROVE NoneOversleeps'
<1> DEFINE l == Out(t)
<1>1. TypeInv /\ t \in Running \ Sinks /\ l \in Lists
  BY OutList DEF Put, Passes, Busy, Order, Working
<1>2. /\ waitR' \subseteq waitR
      /\ waitR \cap ReadersOf(l) # {} => \E u \in waitR \cap ReadersOf(l) : u \notin waitR'
  <2>1. waitR' \in Signalled(waitR, ReadersOf(l), 1) /\ IsFiniteSet(waitR)
    <3>1. IsFiniteSet(waitR)
      BY <1>1, WaitingFinite
    <3> QED  BY <3>1 DEF Put
  <2> QED  BY <2>1, OneSignal
<1>3. \A u \in waitR' : Woke(u)'
  BY <1>1, <1>2, SleepsOn DEF Put
<1>4. ASSUME NEW k \in Lists PROVE Attended(k)'
  <2>1. CASE k = l
    <3>1. ReadersOf(l) # {}
      BY <1>1, SomeoneReads
    <3> QED  BY <1>2, <2>1, <3>1, SameThreads DEF Attended, Put
  <2>2. CASE k # l
    BY <1>1, <1>2, <2>2, SameThreads, Halves DEF Attended, Put, TypeInv
  <2> QED  BY <2>1, <2>2
<1> QED  BY <1>3, <1>4, HalvesNext

LEMMA WaitAwake == ASSUME Order, NoneOversleeps, NEW t \in Threads, Wait(t) PROVE NoneOversleeps'
<1>1. TypeInv /\ In(t) \in Lists
  BY InList DEF Order, Wait
<1>2. ~Finished(t)'
  BY SameThreads DEF Wait, Finished, Need
<1>3. \A u \in waitR' : Woke(u)'
  BY <1>1, <1>2, SleepsOn DEF Wait, Woke
<1>4. ASSUME NEW k \in Lists PROVE Attended(k)'
  BY SameThreads, Halves DEF Attended, Wait, ReadersOf
<1> QED  BY <1>3, <1>4, HalvesNext

LEMMA EndAwake == ASSUME Order, NoneOversleeps, NEW t \in Threads, End(t) PROVE NoneOversleeps'
<1> DEFINE l == Out(t)
<1>1. TypeInv /\ t \in Running \ Sinks /\ l \in Lists
  BY OutList, DoneShut DEF End, Order
<1>2. EndSignals(t) \in Nat \ {0} /\ Cardinality(ReadersOf(l)) <= EndSignals(t)
  BY <1>1, SignalNumbers, EnoughSignals
<1>3. Cardinality(waitR \cap ReadersOf(l)) <= EndSignals(t)
  <2>1. /\ IsFiniteSet(ReadersOf(l))
        /\ Cardinality(waitR \cap ReadersOf(l)) <= Cardinality(ReadersOf(l))
    BY FiniteThreads, FS_Intersection
  <2>2. Cardinality(waitR \cap ReadersOf(l)) \in Nat /\ Cardinality(ReadersOf(l)) \in Nat
    BY <2>1, FS_Intersection, FS_CardinalityType
  <2> QED  BY <1>2, <2>1, <2>2
<1>4. waitR' \subseteq waitR /\ waitR' \cap ReadersOf(l) = {}
  BY <1>1, <1>2, <1>3, WaitingFinite, SignalledFacts DEF End
<1>5. ASSUME NEW u \in waitR' PROVE Woke(u)'
  <2>1. In(u) # l
    BY <1>1, <1>4 DEF ReadersOf, TypeInv
  <2> QED  BY <1>1, <1>4, <2>1, SleepsOn DEF End, TypeInv
<1>6. \A k \in Lists : Attended(k)'
  BY <1>4, SameThreads, Halves DEF Attended, End
<1> QED  BY <1>5, <1>6, HalvesNext

(* What index_thread ends unheard, its dedup_thread has overslept, and     *)
(* nobody else.                                                            *)
LEMMA EndUnheardAwake ==
    ASSUME Order, NoneOversleeps, NEW c \in Chains, EndUnheard(c) PROVE NoneOversleeps'
<1> DEFINE t == <<"index", c>>
           u == <<"dedup", c>>
           l == <<"ind", c>>
<1>1. TypeInv /\ method = "idelta" /\ l \in Lists
  BY DEF EndUnheard, Order, Running, Runs, Lists, Private
<1>2. ending[l] = 0
  <2>1. WritersOf(l) \subseteq {t}
    BY Kinds DEF WritersOf, Running, Out
  <2>2. t \notin ended
    BY DEF EndUnheard, Done, Idle
  <2>3. WritersOf(l) \cap ended = {}
    BY <2>1, <2>2
  <2> QED  BY <1>1, <2>3, FS_EmptySet DEF Order, Counted
<1>3. /\ waitR' = waitR \cup {u} /\ ending'[l] = 1 /\ method' = method /\ queue' = queue
      /\ \A k \in Lists : k # l => ending'[k] = ending[k]
  BY <1>1, <1>2 DEF EndUnheard, TypeInv
<1>4. Overslept(c)'
  BY <1>1, <1>3 DEF Overslept
<1>5. ASSUME NEW v \in waitR' PROVE Woke(v)'
  <2>1. CASE v = u
    BY <1>4, <2>1 DEF Woke
  <2>2. CASE v # u
    <3>1. v \in waitR /\ v \in Threads /\ v \notin Sources /\ In(v) \in Lists
      BY <1>1, <1>3, <2>2, InList DEF TypeInv, Running
    <3>2. In(v) # l
      BY <2>2, <3>1, Kinds DEF In
    <3> QED  BY <1>1, <1>3, <3>1, <3>2, SleepsOn
  <2> QED  BY <2>1, <2>2
<1>6. ASSUME NEW k \in Lists PROVE Attended(k)'
  <2>1. CASE k = l
    BY <1>3, <2>1 DEF Attended, EndUnheard
  <2>2. CASE k # l
    <3>1. u \notin ReadersOf(k)
      BY <1>1, <2>2 DEF ReadersOf, In
    <3> QED  BY <1>3, <3>1, SameThreads, Halves DEF Attended
  <2> QED  BY <2>1, <2>2
<1> QED  BY <1>5, <1>6, HalvesNext

LEMMA NextAwake == Order /\ NoneOversleeps /\ [Next]_vars => NoneOversleeps'
<1> SUFFICES ASSUME Order, NoneOversleeps, [Next]_vars PROVE NoneOversleeps'
  OBVIOUS
<1>1. TypeInv
  BY DEF Order
<1>2. ASSUME NEW t \in Threads, (\E x \in Images : Fetch(t, x)) \/ RawCopy(t) \/ PutWait(t)
      PROVE  NoneOversleeps'
  BY <1>1, <1>2, KeepsAwake DEF Fetch, RawCopy, PutWait
<1>3. ASSUME NEW t \in Threads, Take(t) \/ Record(t) PROVE NoneOversleeps'
  BY <1>1, <1>3, KeepsAwake DEF Take, Record, TypeInv
<1>4. ASSUME NEW t \in Threads, EndWriter(t) \/ Spurious(t) PROVE NoneOversleeps'
  BY <1>1, <1>4, KeepsAwake DEF EndWriter, Spurious
<1>5. CASE UNCHANGED vars
  BY <1>1, <1>5, KeepsAwake DEF vars
<1> QED
  BY <1>2, <1>3, <1>4, <1>5, PutAwake, WaitAwake, EndAwake, EndUnheardAwake DEF Next, Thread

LEMMA InitAwake == Init => NoneOversleeps
BY DEF Init, NoneOversleeps

(* Over all lists of a batch, for any number of threads of each kind and   *)
(* for either delta method: the signals of every append and every end are  *)
(* enough, but for the dedup_thread whose index_thread ends unheard.       *)
THEOREM NobodyOversleeps == Spec => []NoneOversleeps
BY InitAwake, NextAwake, Ordered, PTL DEF Spec

-----------------------------------------------------------------------------
(* Every image is in one place: not read yet, with one thread, in one list *)
(* once, or stored.                                                        *)
Apart == /\ \A t, u \in Threads : held[t] = held[u] /\ held[t] # NoImage => t = u
         /\ \A l \in Lists : Distinct(queue[l])
         /\ \A l, k \in Lists : l # k => Range(queue[l]) \cap Range(queue[k]) = {}
         /\ \A t \in Threads : \A l \in Lists : held[t] \notin Range(queue[l])
         /\ \A t \in Threads : held[t] \notin source \cup Stored
         /\ \A l \in Lists : Range(queue[l]) \cap (source \cup Stored) = {}
         /\ source \cap Stored = {}
Somewhere == \A x \in Images : \/ x \in source \cup Stored
                               \/ \E t \in Threads : held[t] = x
                               \/ \E l \in Lists : x \in Range(queue[l])

LEMMA StoredFacts ==
    ASSUME TypeInv PROVE Stored \subseteq Images /\ NoImage \notin source \cup Stored
BY ImagesAssumption DEF TypeInv, Stored

LEMMA RangeFacts ==
    ASSUME TypeInv, NEW l \in Lists
    PROVE  Range(queue[l]) \subseteq Images /\ NoImage \notin Range(queue[l])
<1>1. queue[l] \in Seq(Images)
  BY DEF TypeInv
<1>2. Range(queue[l]) \subseteq Images
  BY <1>1, RangeOfSeq
<1> QED  BY <1>2, ImagesAssumption

LEMMA EmptyRange == Range(<<>>) = {} /\ Distinct(<<>>)
BY DEF Range, Distinct

LEMMA InitPlaced == Init => Apart /\ Somewhere
<1> SUFFICES ASSUME Init PROVE Apart /\ Somewhere
  OBVIOUS
<1>1. Stored = {} /\ source = Images
  BY DEF Init, Stored
<1>2. \A l \in Lists : queue[l] = <<>>
  BY DEF Init
<1>3. \A t \in Threads : held[t] = NoImage
  BY DEF Init
<1> QED  BY <1>1, <1>2, <1>3, EmptyRange, ImagesAssumption DEF Apart, Somewhere

LEMMA FetchPlaced ==
    ASSUME TypeInv, Apart, Somewhere, NEW t \in Threads, NEW x \in Images, Fetch(t, x)
    PROVE  Apart' /\ Somewhere'
<1>1. /\ held[t] = NoImage /\ x \in source /\ source' = source \ {x}
      /\ held'[t] = x /\ \A u \in Threads : u # t => held'[u] = held[u]
      /\ queue' = queue /\ Stored' = Stored
  BY DEF Fetch, Idle, TypeInv, Stored
<1>2. x \notin Stored /\ \A l \in Lists : x \notin Range(queue[l])
  BY <1>1 DEF Apart
<1>3. \A u \in Threads : held[u] # x
  BY <1>1 DEF Apart
<1>4. Apart'
  BY <1>1, <1>2, <1>3 DEF Apart
<1>5. Somewhere'
  <2>1. ASSUME NEW y \in Images
        PROVE  \/ y \in source' \cup Stored'
               \/ \E u \in Threads : held'[u] = y
               \/ \E l \in Lists : y \in Range(queue'[l])
    <3>1. CASE y = x
      BY <1>1, <3>1
    <3>2. CASE y # x
      <4>1. y # NoImage
        BY ImagesAssumption
      <4> QED  BY <1>1, <3>2, <4>1 DEF Somewhere
    <3> QED  BY <3>1, <3>2
  <2> QED  BY <2>1 DEF Somewhere
<1> QED  BY <1>4, <1>5

LEMMA RawCopyPlaced ==
    ASSUME TypeInv, Apart, Somewhere, NEW t \in Threads, RawCopy(t)
    PROVE  Apart' /\ Somewhere'
<1> DEFINE x == held[t]
<1>1. x # NoImage /\ x \in Images
  BY DEF RawCopy, Busy, TypeInv
<1>2. /\ held'[t] = NoImage /\ \A u \in Threads : u # t => held'[u] = held[u]
      /\ queue' = queue /\ source' = source
  BY DEF RawCopy, TypeInv
<1>3. Stored' = Stored \cup {x}
  BY DEF RawCopy, Stored
<1>4. /\ \A u \in Threads : u # t => held[u] # x
      /\ \A l \in Lists : x \notin Range(queue[l])
      /\ x \notin source
  BY <1>1 DEF Apart
<1>5. NoImage \notin source \cup Stored /\ \A l \in Lists : NoImage \notin Range(queue[l])
  BY StoredFacts, RangeFacts
<1> HIDE DEF x
<1>6. Apart'
  BY <1>1, <1>2, <1>3, <1>4, <1>5 DEF Apart
<1>7. Somewhere'
  BY <1>2, <1>3 DEF Somewhere, x
<1> QED  BY <1>6, <1>7

LEMMA PutPlaced ==
    ASSUME Order, Apart, Somewhere, NEW t \in Threads, Put(t) PROVE Apart' /\ Somewhere'
<1> DEFINE x == held[t]
           l == Out(t)
<1>1. TypeInv /\ x # NoImage /\ x \in Images /\ l \in Lists /\ queue[l] \in Seq(Images)
  BY OutList DEF Put, Passes, Busy, Order, Working, TypeInv
<1>2. /\ held'[t] = NoImage /\ \A u \in Threads : u # t => held'[u] = held[u]
      /\ queue'[l] = Append(queue[l], x)
      /\ \A k \in Lists : k # l => queue'[k] = queue[k]
      /\ source' = source /\ Stored' = Stored
  BY <1>1 DEF Put, Stored, TypeInv
<1>3. /\ \A u \in Threads : u # t => held[u] # x
      /\ \A k \in Lists : x \notin Range(queue[k])
      /\ x \notin source \cup Stored
  BY <1>1 DEF Apart
<1>4. NoImage \notin source \cup Stored /\ \A k \in Lists : NoImage \notin Range(queue[k])
  BY <1>1, StoredFacts, RangeFacts
<1>5. Range(queue'[l]) = Range(queue[l]) \cup {x} /\ Distinct(queue'[l])
  BY <1>1, <1>2, <1>3, RangeAppend, DistinctAppend DEF Apart
<1> HIDE DEF l
<1>6. Somewhere'
  BY <1>1, <1>2, <1>5 DEF Somewhere
<1> HIDE DEF x
<1>7. Apart'
  <2>1. \A u, v \in Threads : held'[u] = held'[v] /\ held'[u] # NoImage => u = v
    BY <1>2 DEF Apart
  <2>2. \A k \in Lists : Distinct(queue'[k])
    BY <1>2, <1>5 DEF Apart
  <2>3. ASSUME NEW j \in Lists, NEW k \in Lists, j # k
        PROVE  Range(queue'[j]) \cap Range(queue'[k]) = {}
    <3>1. Range(queue[j]) \cap Range(queue[k]) = {}
      BY <2>3 DEF Apart
    <3>2. CASE j = l
      BY <1>2, <1>3, <1>5, <2>3, <3>1, <3>2
    <3>3. CASE k = l
      BY <1>2, <1>3, <1>5, <2>3, <3>1, <3>3
    <3> QED  BY <1>2, <3>1, <3>2, <3>3
  <2>4. \A u \in Threads : \A k \in Lists : held'[u] \notin Range(queue'[k])
    BY <1>1, <1>2, <1>3, <1>4, <1>5 DEF Apart
  <2>5. \A u \in Threads : held'[u] \notin source' \cup Stored'
    BY <1>2, <1>4 DEF Apart
  <2>6. ASSUME NEW k \in Lists PROVE Range(queue'[k]) \cap (source' \cup Stored') = {}
    <3>1. Range(queue[k]) \cap (source \cup Stored) = {}
      BY DEF Apart
    <3>2. CASE k = l
      BY <1>2, <1>3, <1>5, <3>1, <3>2
    <3> QED  BY <1>2, <3>1, <3>2
  <2>7. source' \cap Stored' = {}
    BY <1>2 DEF Apart
  <2> QED  BY <2>1, <2>2, <2>3, <2>4, <2>5, <2>6, <2>7 DEF Apart
<1> QED  BY <1>6, <1>7

(* The head of a list is nowhere else. *)
LEMMA HeadFacts ==
    ASSUME TypeInv, Apart, NEW l \in Lists, queue[l] # <<>>
    PROVE  LET x == Head(queue[l]) IN
           /\ x \in Images /\ x # NoImage /\ x \in Range(queue[l])
           /\ Range(Tail(queue[l])) = Range(queue[l]) \ {x} /\ Distinct(Tail(queue[l]))
           /\ \A u \in Threads : held[u] # x
           /\ \A k \in Lists : k # l => x \notin Range(queue[k])
           /\ x \notin source \cup Stored
<1> DEFINE x == Head(queue[l])
<1>1. queue[l] \in Seq(Images) /\ Distinct(queue[l])
  BY DEF TypeInv, Apart
<1>2. x \in Images /\ x # NoImage
  BY <1>1, HeadTailProperties, ImagesAssumption
<1>3. /\ x \in Range(queue[l]) /\ Distinct(Tail(queue[l]))
      /\ Range(Tail(queue[l])) = Range(queue[l]) \ {x}
  BY <1>1, RangeTail
<1> HIDE DEF x
<1>4. /\ \A u \in Threads : held[u] # x
      /\ \A k \in Lists : k # l => x \notin Range(queue[k])
      /\ x \notin source \cup Stored
  BY <1>3 DEF Apart
<1> QED  BY <1>2, <1>3, <1>4 DEF x

LEMMA TakePlaced ==
    ASSUME TypeInv, Apart, Somewhere, NEW t \in Threads, Take(t) PROVE Apart' /\ Somewhere'
<1> DEFINE l == In(t)
           x == Head(queue[l])
<1>1. l \in Lists /\ queue[l] # <<>> /\ held[t] = NoImage
  BY InList DEF Take, Idle
<1>2. /\ held'[t] = x /\ \A u \in Threads : u # t => held'[u] = held[u]
      /\ queue'[l] = Tail(queue[l])
      /\ \A k \in Lists : k # l => queue'[k] = queue[k]
      /\ source' = source /\ Stored' = Stored
  BY <1>1 DEF Take, Stored, TypeInv
<1>3. /\ x \in Images /\ x # NoImage /\ x \in Range(queue[l])
      /\ Range(queue'[l]) = Range(queue[l]) \ {x} /\ Distinct(queue'[l])
      /\ \A u \in Threads : held[u] # x
      /\ \A k \in Lists : k # l => x \notin Range(queue[k])
      /\ x \notin source \cup Stored
  BY <1>1, <1>2, HeadFacts
<1> HIDE DEF l, x
<1>4. Somewhere'
  <2> SUFFICES ASSUME NEW y \in Images
               PROVE  \/ y \in source' \cup Stored'
                      \/ \E u \in Threads : held'[u] = y
                      \/ \E k \in Lists : y \in Range(queue'[k])
    BY DEF Somewhere
  <2>1. y # NoImage
    BY ImagesAssumption
  <2>2. CASE y = x
    BY <1>2, <2>2
  <2>3. CASE y # x
    BY <1>1, <1>2, <1>3, <2>1, <2>3 DEF Somewhere
  <2> QED  BY <2>2, <2>3
<1>5. Apart'
  <2>1. \A u, v \in Threads : held'[u] = held'[v] /\ held'[u] # NoImage => u = v
    BY <1>2, <1>3 DEF Apart
  <2>2. \A k \in Lists : Distinct(queue'[k])
    BY <1>2, <1>3 DEF Apart
  <2>3. \A k \in Lists : Range(queue'[k]) \subseteq Range(queue[k])
    BY <1>2, <1>3
  <2>4. \A j, k \in Lists : j # k => Range(queue'[j]) \cap Range(queue'[k]) = {}
    BY <2>3 DEF Apart
  <2>5. \A u \in Threads : \A k \in Lists : held'[u] \notin Range(queue'[k])
    BY <1>2, <1>3, <2>3 DEF Apart
  <2>6. /\ \A u \in Threads : held'[u] \notin source' \cup Stored'
        /\ \A k \in Lists : Range(queue'[k]) \cap (source' \cup Stored') = {}
        /\ source' \cap Stored' = {}
    BY <1>2, <1>3, <2>3 DEF Apart
  <2> QED  BY <2>1, <2>2, <2>4, <2>5, <2>6 DEF Apart
<1> QED  BY <1>4, <1>5

LEMMA RecordPlaced ==
    ASSUME TypeInv, Apart, Somewhere, NEW t \in Threads, Record(t)
    PROVE  /\ Apart' /\ Somewhere'
           /\ In(t) \in Lists /\ queue[In(t)] # <<>>
           /\ Stored' = Stored \cup {Head(queue[In(t)])}
<1> DEFINE l == In(t)
           x == Head(queue[l])
<1>1. l \in Lists /\ queue[l] # <<>> /\ t[2] \in Writers
  BY InList DEF Record, Sinks, Sources
<1>2. /\ held' = held
      /\ queue'[l] = Tail(queue[l])
      /\ \A k \in Lists : k # l => queue'[k] = queue[k]
      /\ source' = source
  BY <1>1 DEF Record, TypeInv
<1>3. Stored' = Stored \cup {x}
  <2>1. /\ cache'[t[2]] = cache[t[2]] \cup {x}
        /\ \A w \in Writers : w # t[2] => cache'[w] = cache[w]
        /\ copied' = copied /\ file' = file
    BY <1>1 DEF Record, TypeInv
  <2> HIDE DEF x
  <2>2. \A y : (\E w \in Writers : y \in cache'[w])
                  <=> (\E w \in Writers : y \in cache[w]) \/ y = x
    BY <1>1, <2>1
  <2> DEFINE old == UNION {cache[w] : w \in Writers}
             new == UNION {cache'[w] : w \in Writers}
  <2>3. /\ \A y : y \in old <=> \E w \in Writers : y \in cache[w]
        /\ \A y : y \in new <=> \E w \in Writers : y \in cache'[w]
    BY Zenon
  <2>4. Stored = copied \cup file \cup old /\ Stored' = copied' \cup file' \cup new
    BY DEF Stored
  <2> HIDE DEF old, new
  <2>5. new = old \cup {x}
    BY <2>2, <2>3
  <2> QED  BY <2>1, <2>4, <2>5
<1>4. /\ x \in Images /\ x # NoImage /\ x \in Range(queue[l])
      /\ Range(queue'[l]) = Range(queue[l]) \ {x} /\ Distinct(queue'[l])
      /\ \A u \in Threads : held[u] # x
      /\ \A k \in Lists : k # l => x \notin Range(queue[k])
      /\ x \notin source \cup Stored
  BY <1>1, <1>2, HeadFacts
<1>5. l = In(t) /\ x = Head(queue[In(t)])
  OBVIOUS
<1> HIDE DEF l, x
<1>6. Somewhere'
  BY <1>1, <1>2, <1>3, <1>4 DEF Somewhere
<1>7. Apart'
  <2>1. \A k \in Lists : Distinct(queue'[k]) /\ Range(queue'[k]) \subseteq Range(queue[k])
    BY <1>2, <1>4 DEF Apart
  <2>2. \A k \in Lists : x \notin Range(queue'[k])
    BY <1>2, <1>4
  <2>3. \A j, k \in Lists : j # k => Range(queue'[j]) \cap Range(queue'[k]) = {}
    BY <2>1 DEF Apart
  <2> QED  BY <1>2, <1>3, <1>4, <2>1, <2>2, <2>3 DEF Apart
<1> QED  BY <1>1, <1>3, <1>5, <1>6, <1>7

LEMMA EndWriterStores ==
    ASSUME TypeInv, NEW t \in Threads, EndWriter(t) PROVE Stored' = Stored
<1>1. t[2] \in Writers
  BY DEF EndWriter, Sinks
<1>2. /\ cache'[t[2]] = {} /\ \A w \in Writers : w # t[2] => cache'[w] = cache[w]
      /\ copied' = copied /\ file' = file \cup cache[t[2]]
  BY <1>1 DEF EndWriter, TypeInv
<1>3. file' \cup UNION {cache'[w] : w \in Writers} = file \cup UNION {cache[w] : w \in Writers}
  BY <1>1, <1>2
<1> QED  BY <1>2, <1>3 DEF Stored

LEMMA SamePlaces ==
    ASSUME Apart, Somewhere, UNCHANGED <<source, held, queue, Stored>> PROVE Apart' /\ Somewhere'
BY DEF Apart, Somewhere

(* The steps that move no image. *)
Still == \/ \E t \in Threads : PutWait(t) \/ Wait(t) \/ End(t) \/ EndWriter(t) \/ Spurious(t)
         \/ \E c \in Chains : EndUnheard(c)
         \/ UNCHANGED vars

LEMMA StillPlaces == ASSUME TypeInv, Still PROVE UNCHANGED <<source, held, queue, Stored>>
<1>1. ASSUME NEW t \in Threads, EndWriter(t) PROVE UNCHANGED <<source, held, queue, Stored>>
  BY <1>1, EndWriterStores DEF EndWriter
<1>2. ASSUME NEW t \in Threads, PutWait(t) \/ Wait(t) \/ End(t) \/ Spurious(t)
      PROVE  UNCHANGED <<source, held, queue, Stored>>
  BY <1>2 DEF PutWait, Wait, End, Spurious, Stored
<1>3. ASSUME NEW c \in Chains, EndUnheard(c) PROVE UNCHANGED <<source, held, queue, Stored>>
  BY <1>3 DEF EndUnheard, Stored
<1>4. CASE UNCHANGED vars
  BY <1>4 DEF vars, Stored
<1> QED  BY <1>1, <1>2, <1>3, <1>4 DEF Still

Moves == \/ \E t \in Threads : \/ \E x \in Images : Fetch(t, x)
                               \/ RawCopy(t) \/ Put(t) \/ Take(t) \/ Record(t)

LEMMA StillOrMoves == [Next]_vars <=> Still \/ Moves
BY DEF Next, Thread, Still, Moves

LEMMA NextPlaced == Order /\ Apart /\ Somewhere /\ [Next]_vars => Apart' /\ Somewhere'
<1> SUFFICES ASSUME Order, Apart, Somewhere, [Next]_vars PROVE Apart' /\ Somewhere'
  OBVIOUS
<1>1. TypeInv
  BY DEF Order
<1>2. CASE Still
  BY <1>1, <1>2, StillPlaces, SamePlaces
<1>3. CASE Moves
  BY <1>1, <1>3, FetchPlaced, RawCopyPlaced, PutPlaced, TakePlaced, RecordPlaced DEF Moves
<1> QED  BY <1>2, <1>3, StillOrMoves

(* With all hands and lists empty, what was read is stored. *)
LEMMA AllDelivered ==
    ASSUME TypeInv, Apart, Somewhere,
           \A t \in Threads : held[t] = NoImage, \A l \in Lists : queue[l] = <<>>
    PROVE  Images \ source = Stored
<1>1. \A x \in Images : x \in source \cup Stored
  BY EmptyRange, ImagesAssumption DEF Somewhere
<1> QED  BY <1>1, StoredFacts DEF Apart

(* A step of the batch accepts an image, delivers one, closes the batch,   *)
(* or does nothing that the promise speaks of.                             *)
LEMMA StepKept ==
    ASSUME Order, NoneOversleeps, Apart, Somewhere, Order', NoneOversleeps', [Next]_vars
    PROVE  [Promise!Next]_(Promise!vars)
<1> USE DEF Promise!Next, Promise!vars
<1>1. TypeInv /\ TypeInv' /\ Apart' /\ Somewhere'
  BY NextPlaced DEF Order
<1>2. Stored \subseteq Images
  BY <1>1, StoredFacts
<1>3. ASSUME NEW t \in Running, t \notin ended, UNCHANGED <<method, ended>>
      PROVE  ~Joined /\ ~Joined'
  BY <1>3, SameThreads DEF Joined
<1>4. ASSUME NEW t \in Threads, NEW x \in Images, Fetch(t, x) PROVE Promise!Accept(x)
  <2>1. t \in Running /\ t \notin ended /\ UNCHANGED <<method, ended>>
    BY <1>4 DEF Fetch, Idle, Running
  <2>2. Stored' = Stored /\ x \in source /\ source' = source \ {x}
    BY <1>4 DEF Fetch, Stored
  <2> QED  BY <1>1, <1>3, <2>1, <2>2 DEF Promise!Accept, TypeInv
<1>5. ASSUME NEW x \in Images, x \notin source \cup Stored, Stored' = Stored \cup {x},
             source' = source, ~Joined, ~Joined'
      PROVE  Promise!Deliver(x)
  BY <1>5 DEF Promise!Deliver
<1>6. ASSUME NEW t \in Threads, RawCopy(t) PROVE Promise!Deliver(held[t])
  <2>1. /\ t \in Running /\ t \notin ended /\ UNCHANGED <<method, ended>>
        /\ held[t] \in Images /\ held[t] \notin source \cup Stored
        /\ source' = source
    BY <1>1, <1>6 DEF RawCopy, Busy, Order, Working, Apart, TypeInv
  <2>2. Stored' = Stored \cup {held[t]}
    BY <1>6 DEF RawCopy, Stored
  <2> QED  BY <1>3, <1>5, <2>1, <2>2
<1>7. ASSUME NEW t \in Threads, Record(t) PROVE \E x \in Images : Promise!Deliver(x)
  <2> DEFINE x == Head(queue[In(t)])
  <2>1. /\ t \in Running /\ t \notin ended /\ UNCHANGED <<method, ended>>
        /\ source' = source
    BY <1>7 DEF Record, Idle, Running
  <2>2. In(t) \in Lists /\ queue[In(t)] # <<>> /\ Stored' = Stored \cup {x}
    BY <1>1, <1>7, RecordPlaced
  <2>3. x \in Images /\ x \notin source \cup Stored
    BY <1>1, <2>2, HeadFacts
  <2> HIDE DEF x
  <2> QED  BY <1>3, <1>5, <2>1, <2>2, <2>3
<1>8. ASSUME NEW t \in Threads, Put(t) \/ Take(t) PROVE UNCHANGED Promise!vars
  <2>1. UNCHANGED <<method, ended, source, Stored>>
    BY <1>8 DEF Put, Take, Stored
  <2>2. Joined' = Joined
    BY <2>1, SameThreads DEF Joined
  <2> QED  BY <2>1, <2>2
<1>9. CASE Still
  <2>1. UNCHANGED <<source, Stored>>
    BY <1>1, <1>9, StillPlaces
  <2>2. CASE Joined' = Joined
    BY <2>1, <2>2
  <2>3. CASE Joined /\ ~Joined'
    <3>1. method' = method /\ ended \subseteq ended'
      BY <1>9 DEF Still, PutWait, Wait, End, EndWriter, Spurious, EndUnheard, vars
    <3>2. ended' \subseteq Running
      BY <1>1, <3>1, SameThreads DEF TypeInv
    <3> QED  BY <2>3, <3>1, <3>2, SameThreads DEF Joined
  <2>4. CASE ~Joined /\ Joined'
    <3>1. method' = method /\ Running' = Running /\ ended' = Running
      <4>1. method' = method
        BY <1>9 DEF Still, PutWait, Wait, End, EndWriter, Spurious, EndUnheard, vars
      <4> QED  BY <2>4, <4>1, SameThreads DEF Joined
    <3>2. \A t \in Threads : held[t] = NoImage
      BY <1>1, <1>9, <3>1, StillPlaces DEF Order, Working
    <3>3. ASSUME NEW l \in Lists, queue[l] # <<>> PROVE FALSE
      <4>1. PICK u : u \in ReadersOf(l)
        BY <3>3 DEF NoneOversleeps
      <4>2. u \in ended' \ Sources /\ In(u) = l
        BY <3>1, <4>1 DEF ReadersOf
      <4>3. queue'[In(u)] = <<>>
        BY <3>1, <4>2, SameThreads DEF Order, ShutInOrder
      <4> QED  BY <1>1, <1>9, <3>3, <4>2, <4>3, StillPlaces
    <3>4. Images \ source = Stored
      BY <1>1, <3>2, <3>3, AllDelivered
    <3>5. Promise!Close("batch")
      BY <2>1, <2>4, <3>4 DEF Promise!Close
    <3> QED  BY <3>5
  <2> QED  BY <2>2, <2>3, <2>4 DEF Joined
<1>10. CASE Moves
  <2>1. PICK t \in Threads : \/ \E x \in Images : Fetch(t, x)
                             \/ RawCopy(t) \/ Put(t) \/ Take(t) \/ Record(t)
    BY <1>10 DEF Moves
  <2>2. CASE \E x \in Images : Fetch(t, x)
    BY <1>4, <2>2
  <2>3. CASE RawCopy(t)
    <3>1. held[t] \in Images
      BY <1>1, <2>3 DEF RawCopy, Busy, TypeInv
    <3> QED  BY <1>6, <2>3, <3>1
  <2>4. CASE Record(t)
    BY <1>7, <2>4
  <2>5. CASE Put(t) \/ Take(t)
    BY <1>8, <2>5
  <2> QED  BY <2>1, <2>2, <2>3, <2>4, <2>5
<1> QED  BY <1>9, <1>10, StillOrMoves

(* For any number of threads of each kind and any batch: what was read is  *)
(* stored once, raw or as a record, and the joins return only when all of  *)
(* it is.                                                                  *)
THEOREM BatchKeepsPromise == Spec => ImplementsDelivery
<1>1. Init => Promise!Init
  <2> SUFFICES ASSUME Init PROVE Promise!Init
    OBVIOUS
  <2>1. Images \ source = {} /\ Stored = {}
    BY DEF Init, Stored
  <2>2. ~Joined
    <3>1. PICK r : r \in Readers
      BY StagesAssumption
    <3>2. <<"read", r>> \in Running
      BY <3>1 DEF Running, Runs, Threads
    <3> QED  BY <3>2 DEF Init, Joined
  <2> QED  BY <2>1, <2>2 DEF Promise!Init
<1>2. /\ Order /\ NoneOversleeps /\ Apart /\ Somewhere /\ Order' /\ NoneOversleeps'
      /\ [Next]_vars
      => [Promise!Next]_(Promise!vars)
  BY StepKept
<1> QED
  BY <1>1, <1>2, InitPlaced, NextPlaced, Ordered, NobodyOversleeps, PTL
  DEF Spec, ImplementsDelivery, Promise!Spec
=============================================================================
