---------------------------- MODULE HandoffProofs ---------------------------
(***************************************************************************)
(* Proofs about Handoff for any number of threads on each side, any nodes  *)
(* and any sizes that fit the list.                                        *)
(*                                                                         *)
(* The invariants are proved inductive together: what is in the list       *)
(* (Placement), what it is charged for (SpaceAccounted), who counted       *)
(* himself out (Bookkeeping) and who sleeps.                               *)
(***************************************************************************)
EXTENDS Handoff, QueueLemmas

(* What a thread's position says about the shared state. *)
Bookkeeping ==
    /\ ending = Cardinality(ended \cap Producers)
    /\ \A p \in Producers : p \in ended => held[p] = NoItem
    /\ \A p \in waitW : held[p] # NoItem
    /\ \A c \in Consumers \cap ended : queue = <<>> /\ ending = Cardinality(Producers)

IInv == /\ TypeOK
        /\ Placement
        /\ SpaceAccounted
        /\ Bookkeeping
        /\ NoStrandedConsumer
        /\ NoStrandedProducer

-----------------------------------------------------------------------------
(* n signals leave a subset of the blocked threads, wake one if there is   *)
(* one, and wake all when there are no more of them than signals.          *)
LEMMA SignalledFacts ==
    ASSUME NEW W, IsFiniteSet(W), NEW n \in Nat \ {0}, NEW V \in Signalled(W, n)
    PROVE  /\ V \subseteq W
           /\ W # {} => \E t \in W : t \notin V
           /\ Cardinality(W) <= n => V = {}
<1>1. V \in SUBSET W /\ Cardinality(V) = IF Cardinality(W) > n THEN Cardinality(W) - n ELSE 0
  BY DEF Signalled
<1>2. IsFiniteSet(V) /\ Cardinality(W) \in Nat
  BY <1>1, FS_Subset, FS_CardinalityType
<1>3. Cardinality(W) <= n => V = {}
  BY <1>1, <1>2, FS_EmptySet
<1>4. W # {} => V # W
  <2>1. W # {} => Cardinality(W) # 0
    BY FS_EmptySet
  <2> QED  BY <2>1, <1>1, <1>2
<1> QED  BY <1>1, <1>3, <1>4

(* While a producer is still there, ending is below the number of          *)
(* producers, so no consumer has left.                                     *)
LEMMA ProducerLeft ==
    ASSUME TypeOK, Bookkeeping, NEW p \in Producers, p \notin ended
    PROVE  /\ ending < Cardinality(Producers)
           /\ Consumers \cap ended = {}
<1>1. ended \cap Producers \in SUBSET Producers /\ ended \cap Producers # Producers
  OBVIOUS
<1>2. /\ Cardinality(ended \cap Producers) <= Cardinality(Producers)
      /\ Cardinality(ended \cap Producers) # Cardinality(Producers)
  BY <1>1, FS_Subset, ThreadsAssumption
<1>3. Cardinality(Producers) \in Nat
  BY FS_CardinalityType, ThreadsAssumption
<1>4. ending = Cardinality(ended \cap Producers)
  BY DEF Bookkeeping
<1>5. ending \in Nat
  BY <1>3 DEF TypeOK
<1>6. ending < Cardinality(Producers)
  BY <1>2, <1>3, <1>4, <1>5
<1>7. \A c \in Consumers \cap ended : ending = Cardinality(Producers)
  BY DEF Bookkeeping
<1> QED  BY <1>3, <1>5, <1>6, <1>7

(* When ending has reached the number of producers, all of them are gone.  *)
LEMMA AllProducersGone ==
    ASSUME TypeOK, Bookkeeping, ending = Cardinality(Producers)
    PROVE  Producers \subseteq ended
<1>1. SUFFICES ASSUME NEW p \in Producers, p \notin ended PROVE FALSE
  OBVIOUS
<1>2. ending < Cardinality(Producers) /\ Cardinality(Producers) \in Nat
  BY <1>1, ProducerLeft, FS_CardinalityType, ThreadsAssumption
<1> QED  BY <1>2

(* MemSize as the byte lemmas want it. *)
LEMMA SizeFacts ==
    /\ IsFiniteSet(Items)
    /\ MemSize \in [Items -> Nat]
    /\ Capacity \in Nat
    /\ \A x \in Items : MemSize[x] <= Capacity /\ MemSize[x] \in Nat
<1>1. \A x \in Items : MemSize[x] \in 1 .. Capacity
  BY SizesAssumption
<1> QED  BY <1>1, SizesAssumption

(* An empty list is charged nothing. *)
LEMMA NothingCharged == Range(queue) = {} => Bytes(Range(queue), MemSize) = 0
<1>1. Bytes({}, MemSize) = 0
  BY BytesEmpty
<1> QED  BY <1>1

-----------------------------------------------------------------------------
LEMMA InitIInv == Init => IInv
<1> SUFFICES ASSUME Init PROVE IInv
  OBVIOUS
<1> USE DEF Init
<1>1. Range(queue) = {}
  BY DEF Range
<1>2. Cardinality({}) = 0
  BY FS_EmptySet
<1>3. TypeOK
  <2>1. Cardinality(Producers) \in Nat
    BY FS_CardinalityType, ThreadsAssumption
  <2>2. queue \in Seq(Items)
    BY EmptySeq
  <2> QED  BY <2>1, <2>2, SizesAssumption DEF TypeOK
<1>4. Placement
  BY <1>1, SizesAssumption, EmptySeq DEF Placement
<1>5. SpaceAccounted
  BY <1>1, NothingCharged, SizesAssumption DEF SpaceAccounted
<1>6. Bookkeeping
  <2>1. ended \cap Producers = {}
    OBVIOUS
  <2> QED  BY <2>1, <1>2 DEF Bookkeeping
<1>7. NoStrandedConsumer /\ NoStrandedProducer
  BY DEF NoStrandedConsumer, NoStrandedProducer
<1> QED  BY <1>3, <1>4, <1>5, <1>6, <1>7 DEF IInv

-----------------------------------------------------------------------------
(* An upstream node comes into a producer's hands. *)
LEMMA FetchIInv ==
    ASSUME IInv, NEW p \in Producers, NEW x \in Items, Fetch(p, x)
    PROVE  IInv'
<1> USE DEF Fetch
<1>1. TypeOK /\ Placement /\ SpaceAccounted /\ Bookkeeping
      /\ NoStrandedConsumer /\ NoStrandedProducer
  BY DEF IInv
<1>2. /\ held' \in [Producers -> Items \cup {NoItem}]
      /\ held'[p] = x
      /\ \A q \in Producers : q # p => held'[q] = held[q]
  BY <1>1 DEF TypeOK
<1>3. x # NoItem
  BY SizesAssumption
<1>4. TypeOK'
  BY <1>1, <1>2 DEF TypeOK
<1>5. Placement'
  <2>1. x \in source /\ source' = source \ {x} /\ taken' = taken /\ queue' = queue
        /\ held[p] = NoItem /\ x \in Items
    OBVIOUS
  <2>2. \A i, j \in 1 .. Len(queue') : queue'[i] = queue'[j] => i = j
    BY <1>1 DEF Placement
  <2>3. \A q, r \in Producers : (held'[q] = held'[r] /\ held'[q] # NoItem) => q = r
    BY <1>1, <1>2, <2>1 DEF Placement
  <2>4. \A q \in Producers : held'[q] \notin source' \cup taken' \cup Range(queue')
    BY <1>1, <1>2, <2>1 DEF Placement
  <2>5. source' \cap taken' = {} /\ Range(queue') \cap (source' \cup taken') = {}
    BY <1>1, <2>1 DEF Placement
  <2>6. \A y \in Items \ (source' \cup taken' \cup Range(queue')) :
            \E q \in Producers : held'[q] = y
    <3> SUFFICES ASSUME NEW y \in Items, y \notin source', y \notin taken', y \notin Range(queue')
                 PROVE  \E q \in Producers : held'[q] = y
      OBVIOUS
    <3>1. CASE y = x
      BY <3>1, <1>2
    <3>2. CASE y # x
      <4>1. PICK q \in Producers : held[q] = y
        BY <3>2, <2>1, <1>1 DEF Placement
      <4>2. q # p
        BY <4>1, <2>1, SizesAssumption
      <4> QED  BY <4>1, <4>2, <1>2
    <3> QED  BY <3>1, <3>2
  <2> QED  BY <2>2, <2>3, <2>4, <2>5, <2>6 DEF Placement
<1>6. SpaceAccounted'
  BY <1>1 DEF SpaceAccounted
<1>7. Bookkeeping'
  BY <1>1, <1>2, <1>3 DEF Bookkeeping, TypeOK
<1>8. NoStrandedConsumer'
  BY <1>1 DEF NoStrandedConsumer
<1>9. NoStrandedProducer'
  BY <1>1, <1>2 DEF NoStrandedProducer
<1> QED  BY <1>4, <1>5, <1>6, <1>7, <1>8, <1>9 DEF IInv

(* A producer without room sleeps: the list cannot be empty then. *)
LEMMA PutWaitIInv ==
    ASSUME IInv, NEW p \in Producers, PutWait(p)
    PROVE  IInv'
<1> USE DEF PutWait
<1>1. TypeOK /\ Placement /\ SpaceAccounted /\ Bookkeeping /\ NoStrandedConsumer
  BY DEF IInv
<1>2. TypeOK' /\ Placement' /\ SpaceAccounted' /\ Bookkeeping' /\ NoStrandedConsumer'
  BY <1>1 DEF TypeOK, Placement, SpaceAccounted, Bookkeeping, NoStrandedConsumer
<1>3. queue # <<>>
  <2> SUFFICES ASSUME queue = <<>> PROVE FALSE
    OBVIOUS
  <2>1. Range(queue) = {}
    BY DEF Range
  <2>2. free = Capacity
    BY <2>1, <1>1, NothingCharged DEF SpaceAccounted, TypeOK
  <2>3. held[p] \in Items
    BY <1>1 DEF TypeOK
  <2> QED  BY <2>2, <2>3, SizeFacts
<1>4. NoStrandedProducer'
  BY <1>3 DEF NoStrandedProducer
<1> QED  BY <1>2, <1>4 DEF IInv

(* An append: the node moves from the producer's hands into the list, is   *)
(* charged for, and if every consumer slept one is awake now.              *)
LEMMA PutIInv ==
    ASSUME IInv, NEW p \in Producers, Put(p)
    PROVE  IInv'
<1> DEFINE x == held[p]
<1> USE DEF Put
<1>1. TypeOK /\ Placement /\ SpaceAccounted /\ Bookkeeping
      /\ NoStrandedConsumer /\ NoStrandedProducer
  BY DEF IInv
<1>2. /\ x \in Items /\ x # NoItem /\ queue \in Seq(Items)
      /\ held' \in [Producers -> Items \cup {NoItem}]
      /\ held'[p] = NoItem
      /\ \A q \in Producers : q # p => held'[q] = held[q]
  BY <1>1 DEF TypeOK
<1>3. x \notin source \cup taken \cup Range(queue)
  BY <1>1 DEF Placement
<1>4. Distinct(queue)
  BY <1>1 DEF Placement, Distinct
<1>5. /\ Range(queue') = Range(queue) \cup {x}
      /\ Distinct(queue')
      /\ queue' \in Seq(Items) /\ queue' # <<>>
  BY <1>2, <1>3, <1>4, RangeAppend, DistinctAppend, AppendProperties
<1>6. waitR' \subseteq waitR /\ (waitR # {} => \E c \in waitR : c \notin waitR')
  <2>1. IsFiniteSet(waitR)
    BY <1>1, FS_Subset, ThreadsAssumption DEF TypeOK
  <2> QED  BY <2>1, SignalledFacts
<1>7. p \notin ended
  BY <1>1, <1>2 DEF Bookkeeping
<1>8. Consumers \cap ended = {} /\ ending < Cardinality(Producers)
  BY <1>1, <1>7, ProducerLeft
<1>9. MemSize[x] \in Nat /\ MemSize[x] <= Capacity /\ Capacity \in Nat
  BY <1>2, SizeFacts
<1>10. TypeOK'
  BY <1>1, <1>2, <1>5, <1>6, <1>9 DEF TypeOK
<1>11. Placement'
  <2>1. \A i, j \in 1 .. Len(queue') : queue'[i] = queue'[j] => i = j
    BY <1>5 DEF Distinct
  <2>2. \A q, r \in Producers : (held'[q] = held'[r] /\ held'[q] # NoItem) => q = r
    BY <1>1, <1>2 DEF Placement
  <2>3. \A q \in Producers : held'[q] \notin source' \cup taken' \cup Range(queue')
    <3>1. NoItem \notin source \cup taken \cup Range(queue) \cup {x}
      BY <1>1, <1>2, SizesAssumption, RangeOfSeq DEF TypeOK
    <3>2. \A q \in Producers : q # p => held[q] \notin source \cup taken \cup Range(queue)
      BY <1>1 DEF Placement
    <3>3. \A q \in Producers : q # p => held[q] # x
      BY <1>1, <1>2 DEF Placement
    <3> QED  BY <3>1, <3>2, <3>3, <1>2, <1>5
  <2>4. source' \cap taken' = {} /\ Range(queue') \cap (source' \cup taken') = {}
    BY <1>1, <1>3, <1>5 DEF Placement
  <2>5. \A y \in Items \ (source' \cup taken' \cup Range(queue')) :
            \E q \in Producers : held'[q] = y
    <3> SUFFICES ASSUME NEW y \in Items, y \notin source, y \notin taken,
                        y \notin Range(queue), y # x
                 PROVE  \E q \in Producers : held'[q] = y
      BY <1>5
    <3>1. PICK q \in Producers : held[q] = y
      BY <1>1 DEF Placement
    <3>2. q # p
      BY <3>1
    <3> QED  BY <3>1, <3>2, <1>2
  <2> QED  BY <2>1, <2>2, <2>3, <2>4, <2>5 DEF Placement
<1>12. SpaceAccounted'
  <2>1. Range(queue) \in SUBSET Items /\ x \in Items \ Range(queue)
    BY <1>2, <1>3, RangeOfSeq
  <2>2. /\ Bytes(Range(queue) \cup {x}, MemSize) = Bytes(Range(queue), MemSize) + MemSize[x]
        /\ Bytes(Range(queue), MemSize) \in Nat
    BY <2>1, SizeFacts, BytesAdd
  <2>3. Bytes(Range(queue'), MemSize) = Bytes(Range(queue), MemSize) + MemSize[x]
    BY <2>2, <1>5
  <2>4. free \in Nat /\ free' = free - MemSize[x]
    BY <1>1, <1>9 DEF TypeOK
  <2>5. free + Bytes(Range(queue), MemSize) = Capacity
    BY <1>1 DEF SpaceAccounted
  <2>6. free' + Bytes(Range(queue'), MemSize) = Capacity
    BY <2>2, <2>3, <2>4, <2>5, <1>9
  <2> QED  BY <2>6 DEF SpaceAccounted
<1>13. Bookkeeping'
  BY <1>1, <1>2, <1>8 DEF Bookkeeping, TypeOK
<1>14. NoStrandedConsumer'
  <2>1. Consumers \ waitR' # {}
    BY <1>1, <1>6, ThreadsAssumption DEF TypeOK
  <2> QED  BY <2>1, <1>8 DEF NoStrandedConsumer
<1>15. NoStrandedProducer'
  BY <1>5 DEF NoStrandedProducer
<1> QED  BY <1>10, <1>11, <1>12, <1>13, <1>14, <1>15 DEF IInv

(* A producer counts itself out. *)
LEMMA EndIInv ==
    ASSUME IInv, NEW p \in Producers, End(p)
    PROVE  IInv'
<1> USE DEF End
<1>1. TypeOK /\ Placement /\ SpaceAccounted /\ Bookkeeping
      /\ NoStrandedConsumer /\ NoStrandedProducer
  BY DEF IInv
<1>2. waitR' \subseteq waitR
  <2>1. IsFiniteSet(waitR)
    BY <1>1, FS_Subset, ThreadsAssumption DEF TypeOK
  <2> QED  BY <2>1, SignalledFacts, SignalsAssumption
<1>3. p \notin Consumers /\ Consumers \cap ended' = Consumers \cap ended
  BY ThreadsAssumption
<1>4. Consumers \cap ended = {} /\ ending < Cardinality(Producers)
  BY <1>1, ProducerLeft
<1>5. Cardinality(Producers) \in Nat
  BY FS_CardinalityType, ThreadsAssumption
<1>6. TypeOK'
  <2>1. ending \in Nat /\ ending' \in 0 .. Cardinality(Producers)
    BY <1>1, <1>4, <1>5 DEF TypeOK
  <2> QED  BY <2>1, <1>1, <1>2 DEF TypeOK
<1>7. Placement' /\ SpaceAccounted'
  BY <1>1 DEF Placement, SpaceAccounted
<1>8. Bookkeeping'
  <2>1. ended' \cap Producers = (ended \cap Producers) \cup {p}
    OBVIOUS
  <2>2. IsFiniteSet(ended \cap Producers)
    BY FS_Subset, ThreadsAssumption
  <2>3. Cardinality(ended' \cap Producers) = Cardinality(ended \cap Producers) + 1
    BY <2>1, <2>2, FS_AddElement
  <2>4. ending' = Cardinality(ended' \cap Producers)
    BY <2>3, <1>1 DEF Bookkeeping
  <2> QED  BY <2>4, <1>1, <1>3, <1>4 DEF Bookkeeping
<1>9. NoStrandedConsumer'
  BY <1>1, <1>2, <1>3, ThreadsAssumption DEF NoStrandedConsumer
<1>10. NoStrandedProducer'
  BY <1>1 DEF NoStrandedProducer
<1> QED  BY <1>6, <1>7, <1>8, <1>9, <1>10 DEF IInv

(* A pop: the head leaves the list, its bytes come back, and if every      *)
(* producer slept one is awake now, with its node still in its hands.      *)
LEMMA TakeIInv ==
    ASSUME IInv, NEW c \in Consumers, Take(c)
    PROVE  IInv'
<1> DEFINE x == Head(queue)
<1> USE DEF Take
<1>1. TypeOK /\ Placement /\ SpaceAccounted /\ Bookkeeping
      /\ NoStrandedConsumer /\ NoStrandedProducer
  BY DEF IInv
<1>2. /\ queue \in Seq(Items) /\ queue # <<>> /\ Distinct(queue)
  BY <1>1 DEF TypeOK, Placement, Distinct
<1>3. /\ x \in Items /\ x \in Range(queue)
      /\ queue' \in Seq(Items)
      /\ Range(queue') = Range(queue) \ {x}
      /\ Distinct(queue')
  BY <1>2, RangeTail, HeadTailProperties
<1>4. waitW' \subseteq waitW /\ (waitW # {} => \E p \in waitW : p \notin waitW')
  <2>1. IsFiniteSet(waitW)
    BY <1>1, FS_Subset, ThreadsAssumption DEF TypeOK
  <2> QED  BY <2>1, SignalledFacts, SignalsAssumption
<1>5. x \notin source /\ x \notin taken /\ \A p \in Producers : held[p] # x
  BY <1>1, <1>3 DEF Placement
<1>6. Range(queue) \in SUBSET Items
  BY <1>2, RangeOfSeq
<1>7. SpaceAccounted' /\ free' \in 0 .. Capacity
  <2>1. /\ Bytes(Range(queue), MemSize) = Bytes(Range(queue) \ {x}, MemSize) + MemSize[x]
        /\ Bytes(Range(queue) \ {x}, MemSize) \in Nat
    BY <1>3, <1>6, SizeFacts, BytesRemove
  <2>2. Bytes(Range(queue), MemSize) = Bytes(Range(queue'), MemSize) + MemSize[x]
        /\ Bytes(Range(queue'), MemSize) \in Nat
    BY <2>1, <1>3
  <2>3. free \in Nat /\ free' = free + MemSize[x] /\ MemSize[x] \in Nat /\ Capacity \in Nat
    BY <1>1, <1>3, SizeFacts DEF TypeOK
  <2>4. free + Bytes(Range(queue), MemSize) = Capacity
    BY <1>1 DEF SpaceAccounted
  <2>5. free' + Bytes(Range(queue'), MemSize) = Capacity /\ free' \in 0 .. Capacity
    <3> HIDE DEF x
    <3> QED  BY <2>2, <2>3, <2>4, BudgetKept, SMTT(20)
  <2> QED  BY <2>5 DEF SpaceAccounted
<1>8. TypeOK'
  BY <1>1, <1>3, <1>4, <1>7 DEF TypeOK
<1>9. Placement'
  <2>1. \A i, j \in 1 .. Len(queue') : queue'[i] = queue'[j] => i = j
    BY <1>3 DEF Distinct
  <2>2. \A q, r \in Producers : (held'[q] = held'[r] /\ held'[q] # NoItem) => q = r
    BY <1>1 DEF Placement
  <2>3. \A q \in Producers : held'[q] \notin source' \cup taken' \cup Range(queue')
    BY <1>1, <1>3, <1>5 DEF Placement
  <2>4. source' \cap taken' = {} /\ Range(queue') \cap (source' \cup taken') = {}
    BY <1>1, <1>3, <1>5 DEF Placement
  <2>5. \A y \in Items \ (source' \cup taken' \cup Range(queue')) :
            \E q \in Producers : held'[q] = y
    BY <1>1, <1>3 DEF Placement
  <2> QED  BY <2>1, <2>2, <2>3, <2>4, <2>5 DEF Placement
<1>10. Bookkeeping'
  <2>1. \A d \in Consumers \cap ended : queue' = <<>> /\ ending = Cardinality(Producers)
    BY <1>1, <1>2 DEF Bookkeeping
  <2> QED  BY <2>1, <1>1, <1>4 DEF Bookkeeping
<1>11. NoStrandedConsumer'
  BY DEF NoStrandedConsumer
<1>12. NoStrandedProducer'
  <2> SUFFICES ASSUME waitW' # {}
               PROVE  \E p \in Producers \ waitW' : held[p] # NoItem
    BY DEF NoStrandedProducer
  <2>1. PICK p \in waitW : p \notin waitW'
    BY <1>4
  <2>2. p \in Producers /\ held[p] # NoItem
    BY <1>1 DEF TypeOK, Bookkeeping
  <2> QED  BY <2>1, <2>2
<1> QED  BY <1>7, <1>8, <1>9, <1>10, <1>11, <1>12 DEF IInv

(* A consumer that finds the list empty sleeps or leaves: neither touches  *)
(* the list, and the list being empty no consumer is owed anything.        *)
LEMMA EmptyIInv ==
    ASSUME IInv, NEW c \in Consumers, TakeWait(c) \/ Exit(c)
    PROVE  IInv'
<1> USE DEF TakeWait, Exit
<1>1. TypeOK /\ Placement /\ SpaceAccounted /\ Bookkeeping /\ NoStrandedProducer
  BY DEF IInv
<1>2. c \notin Producers
  BY ThreadsAssumption
<1>3. TypeOK' /\ Placement' /\ SpaceAccounted'
  BY <1>1 DEF TypeOK, Placement, SpaceAccounted
<1>4. Bookkeeping'
  <2>1. ended' \cap Producers = ended \cap Producers
    BY <1>2
  <2>2. ending' = Cardinality(ended' \cap Producers)
    BY <2>1, <1>1 DEF Bookkeeping
  <2> QED  BY <2>1, <2>2, <1>1, <1>2 DEF Bookkeeping
<1>5. NoStrandedConsumer' /\ NoStrandedProducer'
  BY <1>1 DEF NoStrandedConsumer, NoStrandedProducer
<1> QED  BY <1>3, <1>4, <1>5 DEF IInv

(* Waking without a signal only adds awake threads. *)
LEMMA SpuriousIInv ==
    ASSUME IInv,
           (\E c \in Consumers : SpuriousR(c)) \/ (\E p \in Producers : SpuriousW(p))
    PROVE  IInv'
<1> USE DEF SpuriousR, SpuriousW
<1>1. TypeOK /\ Placement /\ SpaceAccounted /\ Bookkeeping
      /\ NoStrandedConsumer /\ NoStrandedProducer
  BY DEF IInv
<1>2. TypeOK' /\ Placement' /\ SpaceAccounted' /\ Bookkeeping'
  BY <1>1 DEF TypeOK, Placement, SpaceAccounted, Bookkeeping
<1>3. NoStrandedConsumer' /\ NoStrandedProducer'
  BY <1>1 DEF NoStrandedConsumer, NoStrandedProducer
<1> QED  BY <1>2, <1>3 DEF IInv

LEMMA StepIInv == IInv /\ [Next]_vars => IInv'
<1> SUFFICES ASSUME IInv, [Next]_vars PROVE IInv'
  OBVIOUS
<1>1. CASE \E p \in Producers, x \in Items : Fetch(p, x)
  BY <1>1, FetchIInv
<1>2. CASE \E p \in Producers : Put(p)
  BY <1>2, PutIInv
<1>3. CASE \E p \in Producers : PutWait(p)
  BY <1>3, PutWaitIInv
<1>4. CASE \E p \in Producers : End(p)
  BY <1>4, EndIInv
<1>5. CASE \E c \in Consumers : Take(c)
  BY <1>5, TakeIInv
<1>6. CASE \E c \in Consumers : TakeWait(c) \/ Exit(c)
  BY <1>6, EmptyIInv
<1>7. CASE (\E c \in Consumers : SpuriousR(c)) \/ (\E p \in Producers : SpuriousW(p))
  BY <1>7, SpuriousIInv
<1>8. CASE UNCHANGED vars
  BY <1>8 DEF vars, IInv, TypeOK, Placement, SpaceAccounted, Bookkeeping,
              NoStrandedConsumer, NoStrandedProducer
<1> QED  BY <1>1, <1>2, <1>3, <1>4, <1>5, <1>6, <1>7, <1>8 DEF Next

(* The inductive invariant holds in every reachable state of the list.     *)
THEOREM Invariance == Spec => []IInv
<1> QED  BY InitIInv, StepIInv, PTL DEF Spec

-----------------------------------------------------------------------------
(* The variables keep their types; the free space never wraps below zero,  *)
(* which in the code (uint64_t size) would make the list look endless.     *)
THEOREM TypeCorrect == Spec => []TypeOK
<1>1. IInv => TypeOK
  BY DEF IInv
<1> QED  BY <1>1, Invariance, PTL

(* No list loses a node or holds one twice. *)
THEOREM NodesPlaced == Spec => []Placement
<1>1. IInv => Placement
  BY DEF IInv
<1> QED  BY <1>1, Invariance, PTL

(* The byte count of a list is exact at every moment. *)
THEOREM SpaceExact == Spec => []SpaceAccounted
<1>1. IInv => SpaceAccounted
  BY DEF IInv
<1> QED  BY <1>1, Invariance, PTL

(* One signal per append is enough for the consumers, however many.        *)
THEOREM ConsumersAwake == Spec => []NoStrandedConsumer
<1>1. IInv => NoStrandedConsumer
  BY DEF IInv
<1> QED  BY <1>1, Invariance, PTL

(* One signal per pop is enough for the producers, whatever sizes their    *)
(* nodes have.                                                             *)
THEOREM ProducersAwake == Spec => []NoStrandedProducer
<1>1. IInv => NoStrandedProducer
  BY DEF IInv
<1> QED  BY <1>1, Invariance, PTL

(* When every producer signals as often as there are consumers (rawList:   *)
(* DECODE_THREAD_NUM, decList: MIDDLE_THREAD_NUM, rejList:                 *)
(* WRITE_THREAD_NUM), no consumer sleeps after the last producer has       *)
(* ended.  nameList signals once, so with two readers the hypothesis       *)
(* fails there.                                                            *)
THEOREM EndingWakes ==
    ASSUME EndSignals >= Cardinality(Consumers)
    PROVE  Spec => []EndWakesAll
<1>1. Init => EndWakesAll
  BY DEF Init, EndWakesAll
<1>2. IInv /\ EndWakesAll /\ [Next]_vars => EndWakesAll'
  <2> SUFFICES ASSUME IInv, EndWakesAll, [Next]_vars PROVE EndWakesAll'
    OBVIOUS
  <2>1. TypeOK /\ Bookkeeping
    BY DEF IInv
  <2>2. IsFiniteSet(waitR) /\ Cardinality(waitR) <= Cardinality(Consumers)
    BY <2>1, FS_Subset, ThreadsAssumption DEF TypeOK
  <2>3. ASSUME NEW p \in Producers, NEW x \in Items, Fetch(p, x) PROVE EndWakesAll'
    BY <2>3 DEF Fetch, EndWakesAll
  <2>4. ASSUME NEW p \in Producers, Put(p) PROVE EndWakesAll'
    <3>1. waitR' \subseteq waitR /\ ending' = ending
      BY <2>2, <2>4, SignalledFacts DEF Put
    <3> QED  BY <3>1 DEF EndWakesAll
  <2>5. ASSUME NEW p \in Producers, PutWait(p) PROVE EndWakesAll'
    BY <2>5 DEF PutWait, EndWakesAll
  <2>6. ASSUME NEW p \in Producers, End(p) PROVE EndWakesAll'
    <3>1. waitR' \in Signalled(waitR, EndSignals)
      BY <2>6 DEF End
    <3>2. Cardinality(waitR) \in Nat /\ Cardinality(Consumers) \in Nat
      BY <2>2, FS_CardinalityType, ThreadsAssumption
    <3>3. Cardinality(waitR) <= EndSignals
      BY <2>2, <3>2, SignalsAssumption
    <3>4. waitR' = {}
      BY <2>2, <3>1, <3>3, SignalledFacts, SignalsAssumption
    <3> QED  BY <3>4 DEF EndWakesAll
  <2>7. ASSUME NEW c \in Consumers, Take(c) \/ TakeWait(c) \/ Exit(c) PROVE EndWakesAll'
    BY <2>7 DEF Take, TakeWait, Exit, EndWakesAll
  <2>8. CASE (\E c \in Consumers : SpuriousR(c)) \/ (\E p \in Producers : SpuriousW(p))
    BY <2>8 DEF SpuriousR, SpuriousW, EndWakesAll
  <2>9. CASE UNCHANGED vars
    BY <2>9 DEF vars, EndWakesAll
  <2> QED  BY <2>3, <2>4, <2>5, <2>6, <2>7, <2>8, <2>9 DEF Next
<1> QED  BY <1>1, <1>2, Invariance, PTL DEF Spec

-----------------------------------------------------------------------------
(* The list implements module Delivery.  Fetch is Accept, Take is Deliver, *)
(* Exit is Close; every other step is invisible there.                     *)
LEMMA StepPromise == IInv /\ [Next]_vars => [Promise!Next]_(Promise!vars)
<1> SUFFICES ASSUME IInv, [Next]_vars
             PROVE  Promise!Next \/ UNCHANGED <<Items \ source, taken, ended \cap Consumers>>
  BY DEF Promise!vars
<1> USE DEF Promise!Next, Promise!Accept, Promise!Deliver, Promise!Close
<1>1. TypeOK /\ Placement /\ Bookkeeping
  BY DEF IInv
<1>2. ASSUME NEW p \in Producers, NEW x \in Items, Fetch(p, x) PROVE Promise!Next
  <2>1. ended \cap Consumers = {}
    BY <1>1, <1>2, ProducerLeft DEF Fetch
  <2>2. x \notin Items \ source
    BY <1>2 DEF Fetch
  <2>3. Items \ source' = (Items \ source) \cup {x}
    BY <1>2 DEF Fetch
  <2>4. taken' = taken /\ ended' = ended
    BY <1>2 DEF Fetch
  <2> QED  BY <2>1, <2>2, <2>3, <2>4
<1>3. ASSUME NEW c \in Consumers, Take(c) PROVE Promise!Next
  <2> DEFINE x == Head(queue)
  <2>1. queue \in Seq(Items) /\ queue # <<>> /\ Distinct(queue)
    BY <1>1, <1>3 DEF Take, TypeOK, Placement, Distinct
  <2>2. x \in Items /\ x \in Range(queue)
    BY <2>1, RangeTail, HeadTailProperties
  <2>3. x \in (Items \ source) \ taken
    BY <1>1, <2>2 DEF Placement
  <2>4. ended \cap Consumers # Consumers
    BY <1>3 DEF Take
  <2>5. taken' = taken \cup {x} /\ source' = source /\ ended' = ended
    BY <1>3 DEF Take
  <2> HIDE DEF x
  <2> QED  BY <2>2, <2>3, <2>4, <2>5
<1>4. ASSUME NEW c \in Consumers, Exit(c) PROVE Promise!Next
  <2>1. Producers \subseteq ended
    BY <1>1, <1>4, AllProducersGone DEF Exit
  <2>2. \A p \in Producers : held[p] = NoItem
    BY <1>1, <2>1 DEF Bookkeeping
  <2>3. Range(queue) = {}
    BY <1>4 DEF Exit, Range
  <2>4. Items \ source = taken
    <3>1. \A x \in Items : x \in source \cup taken
      BY <1>1, <2>2, <2>3, SizesAssumption DEF Placement
    <3> QED  BY <3>1, <1>1 DEF Placement, TypeOK
  <2>5. ended' \cap Consumers = (ended \cap Consumers) \cup {c}
        /\ source' = source /\ taken' = taken
    BY <1>4 DEF Exit
  <2> QED  BY <2>4, <2>5
<1>5. ASSUME NEW p \in Producers, Put(p) \/ PutWait(p) \/ End(p) \/ SpuriousW(p)
      PROVE  UNCHANGED <<Items \ source, taken, ended \cap Consumers>>
  BY <1>5, ThreadsAssumption DEF Put, PutWait, End, SpuriousW
<1>6. ASSUME NEW c \in Consumers, TakeWait(c) \/ SpuriousR(c)
      PROVE  UNCHANGED <<Items \ source, taken, ended \cap Consumers>>
  BY <1>6 DEF TakeWait, SpuriousR
<1>7. CASE UNCHANGED vars
  BY <1>7 DEF vars
<1> QED  BY <1>2, <1>3, <1>4, <1>5, <1>6, <1>7 DEF Next

(* Every node a thread commits to a list is handed on exactly once, and no *)
(* thread leaves the list while something committed is still in it.        *)
THEOREM Refinement == Spec => ImplementsDelivery
<1>1. Init => Promise!Init
  BY DEF Init, Promise!Init
<1>2. IInv /\ [Next]_vars => [Promise!Next]_(Promise!vars)
  BY StepPromise
<1> QED  BY <1>1, <1>2, Invariance, PTL DEF Spec, ImplementsDelivery, Promise!Spec
=============================================================================
