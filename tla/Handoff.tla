------------------------------ MODULE Handoff -------------------------------
(***************************************************************************)
(* One list (idedup.h: ListNode) of the pipeline with the threads that     *)
(* append to it and the threads that pop from it.  The same protocol is    *)
(* written out by hand at every list of the program; the line numbers in   *)
(* the comments are those of rawList, between read_thread (idedup.c) and   *)
(* decode_thread (jpeg.c).  What differs from list to list is a constant:  *)
(* the number of threads on each side, the memory size of a node and how   *)
(* many times rCond is signalled when a producer ends.                     *)
(*                                                                         *)
(* A critical section is one action: the mutex is held from the test to    *)
(* the unlock, or to pthread_cond_wait, which puts the thread in a wait    *)
(* set.  A signal moves one thread, any, out of the wait set; the thread   *)
(* then competes for the mutex like every other and tests again.           *)
(***************************************************************************)
EXTENDS Naturals, Sequences, FiniteSets, Functions, Footprint

CONSTANTS Producers,    \* threads that append
          Consumers,    \* threads that pop
          Items,        \* nodes
          NoItem,       \* "holds no node"
          MemSize,      \* node -> mem_size, the bytes it is charged for
          Capacity,     \* the list's size at INIT_LIST (READ_LIST_MAX)
          EndSignals,   \* signals of rCond by a producer that ends
          TakeSignals   \* signals of wCond by a consumer that pops

ASSUME ThreadsAssumption ==
    /\ IsFiniteSet(Producers) /\ Producers # {}
    /\ IsFiniteSet(Consumers) /\ Consumers # {}
    /\ Producers \cap Consumers = {}

(* A node larger than the whole list would block its producer for ever.  *)
ASSUME SizesAssumption ==
    /\ IsFiniteSet(Items)
    /\ NoItem \notin Items
    /\ Capacity \in Nat
    /\ MemSize \in [Items -> 1 .. Capacity]

ASSUME SignalsAssumption == EndSignals \in Nat \ {0} /\ TakeSignals \in Nat \ {0}

VARIABLES source,     \* nodes upstream has not handed to a producer yet
          held,       \* producer -> the node it wants to append
          queue,      \* head .. tail; counter is its length
          free,       \* list->size: bytes still free
          ending,     \* list->ending: producers that have ended
          waitR,      \* consumers blocked on rCond
          waitW,      \* producers blocked on wCond
          ended,      \* threads that have left their loop
          taken       \* nodes popped so far

vars == <<source, held, queue, free, ending, waitR, waitW, ended, taken>>

-----------------------------------------------------------------------------
(* The wait sets that n calls of pthread_cond_signal can leave of W: each  *)
(* call wakes one blocked thread, any, and none if no thread is blocked.   *)
Signalled(W, n) ==
    {V \in SUBSET W : Cardinality(V) = IF Cardinality(W) > n THEN Cardinality(W) - n ELSE 0}

Init == /\ source = Items
        /\ held = [p \in Producers |-> NoItem]
        /\ queue = <<>>
        /\ free = Capacity
        /\ ending = 0
        /\ waitR = {}
        /\ waitW = {}
        /\ ended = {}
        /\ taken = {}

(* read_thread builds the node it will append. *)
Fetch(p, x) == /\ p \notin ended
               /\ held[p] = NoItem
               /\ x \in source
               /\ source' = source \ {x}
               /\ held' = [held EXCEPT ![p] = x]
               /\ UNCHANGED <<queue, free, ending, waitR, waitW, ended, taken>>

(* while(size < mem_size) pthread_cond_wait(&wCond, &mutex)  *)
PutWait(p) == /\ p \notin waitW
              /\ held[p] # NoItem
              /\ free < MemSize[held[p]]
              /\ waitW' = waitW \cup {p}
              /\ UNCHANGED <<source, held, queue, free, ending, waitR, ended, taken>>

(* Mutant: the wait for room is left out. *)
PutUnchecked(p) == /\ held[p] # NoItem
                   /\ queue' = Append(queue, held[p])
                   /\ free' = free - MemSize[held[p]]
                   /\ held' = [held EXCEPT ![p] = NoItem]
                   /\ waitR' \in Signalled(waitR, 1)
                   /\ UNCHANGED <<source, ending, waitW, ended, taken>>

(* Mutant: the append signals no consumer. *)
PutSilent(p) == /\ p \notin waitW
                /\ held[p] # NoItem
                /\ free >= MemSize[held[p]]
                /\ queue' = Append(queue, held[p])
                /\ free' = free - MemSize[held[p]]
                /\ held' = [held EXCEPT ![p] = NoItem]
                /\ UNCHANGED <<source, ending, waitR, waitW, ended, taken>>

(* Room: append, count, charge, signal one consumer. *)
Put(p) == /\ p \notin waitW
          /\ held[p] # NoItem
          /\ free >= MemSize[held[p]]
          /\ queue' = Append(queue, held[p])
          /\ free' = free - MemSize[held[p]]
          /\ held' = [held EXCEPT ![p] = NoItem]
          /\ waitR' \in Signalled(waitR, 1)
          /\ UNCHANGED <<source, ending, waitW, ended, taken>>

(* The producer leaves its loop: upstream is finished, or the batch is full *)
(* and what is left upstream belongs to the next batch.                     *)
End(p) == /\ p \notin ended
          /\ held[p] = NoItem
          /\ ending' = ending + 1
          /\ ended' = ended \cup {p}
          /\ waitR' \in Signalled(waitR, EndSignals)
          /\ UNCHANGED <<source, held, queue, free, waitW, taken>>

(* Mutant: the head is used and stays in the list. *)
TakeInPlace(c) == /\ c \notin waitR \cup ended
                  /\ queue # <<>>
                  /\ taken' = taken \cup {Head(queue)}
                  /\ waitW' \in Signalled(waitW, TakeSignals)
                  /\ UNCHANGED <<source, held, queue, free, ending, waitR, ended>>

(* Mutant: the bytes of the node are not given back. *)
TakeUncredited(c) == /\ c \notin waitR \cup ended
                     /\ queue # <<>>
                     /\ queue' = Tail(queue)
                     /\ taken' = taken \cup {Head(queue)}
                     /\ waitW' \in Signalled(waitW, TakeSignals)
                     /\ UNCHANGED <<source, held, free, ending, waitR, ended>>

(* Mutant: the pop signals rCond instead of wCond. *)
TakeCross(c) == /\ c \notin waitR \cup ended
                /\ queue # <<>>
                /\ queue' = Tail(queue)
                /\ free' = free + MemSize[Head(queue)]
                /\ taken' = taken \cup {Head(queue)}
                /\ waitR' \in Signalled(waitR, TakeSignals)
                /\ UNCHANGED <<source, held, ending, waitW, ended>>

(* A pop: the bytes are given back, one producer is signalled. *)
Take(c) == /\ c \notin waitR \cup ended
           /\ queue # <<>>
           /\ queue' = Tail(queue)
           /\ free' = free + MemSize[Head(queue)]
           /\ taken' = taken \cup {Head(queue)}
           /\ waitW' \in Signalled(waitW, TakeSignals)
           /\ UNCHANGED <<source, held, ending, waitR, ended>>

(* Mutant: ending is not looked at again before the thread waits. *)
TakeWaitBlind(c) == /\ c \notin waitR \cup ended
                    /\ queue = <<>>
                    /\ waitR' = waitR \cup {c}
                    /\ UNCHANGED <<source, held, queue, free, ending, waitW, ended, taken>>

(* while(counter == 0) with producers left: pthread_cond_wait(&rCond, &mutex) *)
TakeWait(c) == /\ c \notin waitR \cup ended
               /\ queue = <<>>
               /\ ending # Cardinality(Producers)
               /\ waitR' = waitR \cup {c}
               /\ UNCHANGED <<source, held, queue, free, ending, waitW, ended, taken>>

(* Mutant: the first producer that ends is taken for the last. *)
ExitOnFirst(c) == /\ c \notin waitR \cup ended
                  /\ queue = <<>>
                  /\ ending > 0
                  /\ ended' = ended \cup {c}
                  /\ UNCHANGED <<source, held, queue, free, ending, waitR, waitW, taken>>

(* if(ending == READ_THREAD_NUM) goto ESCAPE_LOOP *)
Exit(c) == /\ c \notin waitR \cup ended
           /\ queue = <<>>
           /\ ending = Cardinality(Producers)
           /\ ended' = ended \cup {c}
           /\ UNCHANGED <<source, held, queue, free, ending, waitR, waitW, taken>>

(* pthread_cond_wait may return without a signal. *)
SpuriousR(c) == /\ c \in waitR
                /\ waitR' = waitR \ {c}
                /\ UNCHANGED <<source, held, queue, free, ending, waitW, ended, taken>>

SpuriousW(p) == /\ p \in waitW
                /\ waitW' = waitW \ {p}
                /\ UNCHANGED <<source, held, queue, free, ending, waitR, ended, taken>>

Append_(p) == Put(p) \/ PutWait(p)
Pop(c) == Take(c) \/ TakeWait(c) \/ Exit(c)

Next == \/ \E p \in Producers : \/ \E x \in Items : Fetch(p, x)
                                \/ Put(p)
                                \/ PutWait(p)
                                \/ End(p)
                                \/ SpuriousW(p)
        \/ \E c \in Consumers : Take(c) \/ TakeWait(c) \/ Exit(c) \/ SpuriousR(c)

Spec == Init /\ [][Next]_vars

(* Every thread that can run is scheduled; a spurious wakeup need not come. *)
Fairness == /\ \A p \in Producers : WF_vars(Append_(p)) /\ WF_vars(End(p))
            /\ \A c \in Consumers : WF_vars(Pop(c))

FairSpec == Spec /\ Fairness

-----------------------------------------------------------------------------
TypeOK == /\ source \subseteq Items
          /\ held \in [Producers -> Items \cup {NoItem}]
          /\ queue \in Seq(Items)
          /\ free \in 0 .. Capacity
          /\ ending \in 0 .. Cardinality(Producers)
          /\ waitR \subseteq Consumers
          /\ waitW \subseteq Producers
          /\ ended \subseteq Producers \cup Consumers
          /\ taken \subseteq Items

(* No node is lost or in two places: each is upstream, in the hands of one *)
(* producer, once in the list, or taken.                                   *)
Placement ==
    /\ \A i, j \in 1 .. Len(queue) : queue[i] = queue[j] => i = j
    /\ \A p, q \in Producers : (held[p] = held[q] /\ held[p] # NoItem) => p = q
    /\ \A p \in Producers : held[p] \notin source \cup taken \cup Range(queue)
    /\ source \cap taken = {}
    /\ Range(queue) \cap (source \cup taken) = {}
    /\ \A x \in Items \ (source \cup taken \cup Range(queue)) : \E p \in Producers : held[p] = x

(* Bytes are neither leaked nor credited twice: at every moment the free   *)
(* space and the nodes in the list add up to the capacity the list was     *)
(* initialised with (size -= mem_size on append, += on pop).               *)
SpaceAccounted == free + Bytes(Range(queue), MemSize) = Capacity

(* A wakeup is never lost on the consumers' side: as long as a node is in  *)
(* the list some consumer is awake, although an append signals only one.   *)
NoStrandedConsumer == queue # <<>> => Consumers \ (waitR \cup ended) # {}

(* Nor on the producers' side, where one signal may wake a thread whose    *)
(* node does not fit while another's would: when every blocked producer    *)
(* could go on (the list is empty), one with a node to append is awake.    *)
NoStrandedProducer ==
    (queue = <<>> /\ waitW # {}) => \E p \in Producers \ waitW : held[p] # NoItem

(* Once the last producer has counted itself in ending, no consumer is     *)
(* asleep: nobody would ever signal it again.                              *)
EndWakesAll == ending = Cardinality(Producers) => waitR = {}

(* The list keeps the promise of module Delivery: every node a producer    *)
(* holds or has appended is accepted, every popped one delivered, and the  *)
(* consumers that left are closed.                                         *)
Promise == INSTANCE Delivery WITH accepted  <- Items \ source,
                                  delivered <- taken,
                                  closed    <- ended \cap Consumers
ImplementsDelivery == Promise!Spec

(* pthread_join on both sides returns, whatever node sizes block whom.     *)
AllJoined == <>(ended = Producers \cup Consumers)
=============================================================================
