------------------------------ MODULE Pipeline ------------------------------
(***************************************************************************)
(* The threads of one batch and the lists between them, as                 *)
(* compress_road_thread (idedup.c) sets them up and joins them:            *)
(*                                                                         *)
(*   read -> raw -> decode -> dec -> detect[c] -> det[c] -> index[c]       *)
(*     -> ind[c] -> dedup[c] -> dup[c] -> rejpeg[c] -> rej -> write        *)
(*                                                                         *)
(* There is one chain c for each of the MIDDLE_THREAD_NUM detectors.  With *)
(* delta_method xdelta no index_thread runs and dedup reads det[c] itself. *)
(* An image leaves the pipeline early, as a raw copy, when it cannot be    *)
(* decoded or has no similar image; the others end up as a record in the   *)
(* cache of a write_thread, which reaches the file when the thread ends.   *)
(*                                                                         *)
(* Every list is the monitor of module Handoff.  What this module adds is  *)
(* what Handoff leaves open: which end each thread waits for, how often it *)
(* signals its own, and what the stages do to one another.  Space is       *)
(* counted in nodes; nodes of different sizes are Handoff's subject.       *)
(***************************************************************************)
EXTENDS Naturals, Sequences, FiniteSets, Functions

CONSTANTS Images,     \* files of the batch
          NoImage,    \* "holds no image"
          Readers,    \* READ_THREAD_NUM threads
          Decoders,   \* DECODE_THREAD_NUM threads
          Chains,     \* MIDDLE_THREAD_NUM detect, index, dedup and rejpeg threads
          Writers,    \* WRITE_THREAD_NUM threads
          Room,       \* kind of list -> nodes it has room for
          Batches     \* what decode and detect find out about the images

Shared == {"raw", "dec", "rej"}
Private == {"det", "ind", "dup"}

ASSUME ImagesAssumption == IsFiniteSet(Images) /\ NoImage \notin Images
ASSUME StagesAssumption == \A S \in {Readers, Decoders, Chains, Writers} :
                               IsFiniteSet(S) /\ S # {}
ASSUME RoomAssumption == Room \in [Shared \cup Private -> Nat \ {0}]

(* A list has a kind and, if each chain has its own, a chain. *)
Lists == (Shared \X {"all"}) \cup (Private \X Chains)
Threads == ({"read"} \X Readers) \cup ({"decode"} \X Decoders) \cup ({"write"} \X Writers)
              \cup ({"detect", "index", "dedup", "rejpeg"} \X Chains)

(* What decode_a_single_img and detect_a_single_img find out about an      *)
(* image: no JPEG that can be decoded, no similar image, or a base.        *)
Fates == {"undecodable", "alone", "alike"}
ASSUME BatchesAssumption == Batches \subseteq [Images -> Fates]

VARIABLES method,   \* delta_method
          fate,     \* image -> its fate
          source,   \* files not read yet
          held,     \* thread -> the image it works on
          queue,    \* list -> its nodes
          ending,   \* list -> threads that have ended before it
          waitR,    \* threads blocked on the rCond of the list they read
          waitW,    \* threads blocked on the wCond of the list they append to
          ended,    \* threads that have returned
          copied,   \* images stored as raw copies
          cache,    \* writer -> records in its cache
          file      \* records in the .idp file

vars == <<method, fate, source, held, queue, ending, waitR, waitW, ended, copied, cache, file>>

(* index_thread is started for idelta only. *)
Runs(t) == method = "idelta" \/ t[1] # "index"
Running == {t \in Threads : Runs(t)}

In(t) == CASE t[1] = "decode" -> <<"raw", "all">>
           [] t[1] = "detect" -> <<"dec", "all">>
           [] t[1] = "index"  -> <<"det", t[2]>>
           [] t[1] = "dedup"  -> <<IF method = "idelta" THEN "ind" ELSE "det", t[2]>>
           [] t[1] = "rejpeg" -> <<"dup", t[2]>>
           [] t[1] = "write"  -> <<"rej", "all">>

Out(t) == CASE t[1] = "read"   -> <<"raw", "all">>
            [] t[1] = "decode" -> <<"dec", "all">>
            [] t[1] = "detect" -> <<"det", t[2]>>
            [] t[1] = "index"  -> <<"ind", t[2]>>
            [] t[1] = "dedup"  -> <<"dup", t[2]>>
            [] t[1] = "rejpeg" -> <<"rej", "all">>

Sinks == {"write"} \X Writers
Sources == {"read"} \X Readers
ReadersOf(l) == {t \in Running \ Sources : In(t) = l}
WritersOf(l) == {t \in Running \ Sinks : Out(t) = l}

(* Mutant: detect_thread tests ending as tra_detect_thread does. *)
FinishedEarly(t) == ending[In(t)] >= IF t[1] = "decode" THEN Cardinality(Readers)
                                     ELSE IF t[1] = "write" THEN Cardinality(Chains)
                                     ELSE 1

(* The test of ending before a thread leaves its loop.  Chain lists have   *)
(* one thread before them and are only asked whether ending is set.        *)
Finished(t) == ending[In(t)] >= IF t[1] = "decode" THEN Cardinality(Readers)
                                ELSE IF t[1] = "detect" THEN Cardinality(Decoders)
                                ELSE IF t[1] = "write" THEN Cardinality(Chains)
                                ELSE 1

(* Mutant: one signal, whoever waits. *)
EndSignalsOne(t) == 1

(* Signals of rCond by a thread that ends. *)
EndSignals(t) == CASE t[1] = "read"   -> Cardinality(Decoders)
                   [] t[1] = "decode" -> Cardinality(Chains)
                   [] t[1] = "rejpeg" -> Cardinality(Writers)
                   [] OTHER           -> 1

(* Signals of wCond by a thread that pops. *)
TakeSignals(t) == IF t[1] = "write" THEN Cardinality(Chains) ELSE 1

(* The sets n signals can leave of W when the threads T wait for the       *)
(* condition that is signalled.                                            *)
Signalled(W, T, n) ==
    LET waiting == W \cap T
        left == IF Cardinality(waiting) > n THEN Cardinality(waiting) - n ELSE 0
    IN  {(W \ waiting) \cup V : V \in {V \in SUBSET waiting : Cardinality(V) = left}}

Init == /\ method \in {"idelta", "xdelta"}
        /\ fate \in Batches
        /\ source = Images
        /\ held = [t \in Threads |-> NoImage]
        /\ queue = [l \in Lists |-> <<>>]
        /\ ending = [l \in Lists |-> 0]
        /\ waitR = {}
        /\ waitW = {}
        /\ ended = {}
        /\ copied = {}
        /\ cache = [w \in Writers |-> {}]
        /\ file = {}

-----------------------------------------------------------------------------
(* t runs its loop, with or without an image. *)
Idle(t) == held[t] = NoImage /\ Runs(t) /\ t \notin ended /\ t \notin waitR
Busy(t) == held[t] # NoImage /\ t \notin waitW

(* read_thread reads a file. *)
Fetch(t, x) == /\ t \in Sources
               /\ Idle(t)
               /\ x \in source
               /\ source' = source \ {x}
               /\ held' = [held EXCEPT ![t] = x]
               /\ UNCHANGED <<method, fate, queue, ending, waitR, waitW, ended, copied, cache, file>>

(* The image leaves at t: it becomes a raw copy. *)
LeavesAt(t, x) == \/ t[1] = "decode" /\ fate[x] = "undecodable"
                  \/ t[1] = "detect" /\ fate[x] = "alone"

(* decode_thread and detect_thread write the file's own bytes out. *)
RawCopy(t) == LET x == held[t] IN
              /\ Busy(t)
              /\ LeavesAt(t, x)
              /\ copied' = copied \cup {x}
              /\ held' = [held EXCEPT ![t] = NoImage]
              /\ UNCHANGED <<method, fate, source, queue, ending, waitR, waitW, ended, cache, file>>

Passes(t) == Busy(t) /\ ~LeavesAt(t, held[t])
Full(l) == Len(queue[l]) >= Room[l[1]]

(* No room: wait for wCond. *)
PutWait(t) == /\ Passes(t)
              /\ Full(Out(t))
              /\ waitW' = waitW \cup {t}
              /\ UNCHANGED <<method, fate, source, held, queue, ending, waitR, ended, copied, cache,
                             file>>

(* Append and signal one thread behind the list. *)
Put(t) == LET l == Out(t) IN
          /\ Passes(t)
          /\ ~Full(l)
          /\ queue' = [queue EXCEPT ![l] = Append(@, held[t])]
          /\ held' = [held EXCEPT ![t] = NoImage]
          /\ waitR' \in Signalled(waitR, ReadersOf(l), 1)
          /\ UNCHANGED <<method, fate, source, ending, waitW, ended, copied, cache, file>>

(* Mutant: ending is not looked at before the wait. *)
WaitBlind(t) == /\ t \notin Sources
                /\ Idle(t)
                /\ queue[In(t)] = <<>>
                /\ waitR' = waitR \cup {t}
                /\ UNCHANGED <<method, fate, source, held, queue, ending, waitW, ended, copied,
                               cache, file>>

(* counter is 0 and the list has not ended: wait for rCond. *)
Wait(t) == /\ t \notin Sources
           /\ Idle(t)
           /\ queue[In(t)] = <<>>
           /\ ~Finished(t)
           /\ waitR' = waitR \cup {t}
           /\ UNCHANGED <<method, fate, source, held, queue, ending, waitW, ended, copied, cache, file>>

(* Mutant: the threads before the list are not told that there is room. *)
TakeSilent(t) == LET l == In(t) IN
                 /\ t \notin Sources \cup Sinks
                 /\ Idle(t)
                 /\ queue[l] # <<>>
                 /\ queue' = [queue EXCEPT ![l] = Tail(@)]
                 /\ held' = [held EXCEPT ![t] = Head(queue[l])]
                 /\ UNCHANGED <<method, fate, source, ending, waitR, waitW, ended, copied, cache, file>>

(* Pop, and signal the threads before the list that there is room. *)
Take(t) == LET l == In(t) IN
           /\ t \notin Sources \cup Sinks
           /\ Idle(t)
           /\ queue[l] # <<>>
           /\ queue' = [queue EXCEPT ![l] = Tail(@)]
           /\ held' = [held EXCEPT ![t] = Head(queue[l])]
           /\ waitW' \in Signalled(waitW, WritersOf(l), TakeSignals(t))
           /\ UNCHANGED <<method, fate, source, ending, waitR, ended, copied, cache, file>>

(* write_thread pops a delta and appends its record to its cache. *)
Record(t) == LET l == In(t) IN
             /\ t \in Sinks
             /\ Idle(t)
             /\ queue[l] # <<>>
             /\ queue' = [queue EXCEPT ![l] = Tail(@)]
             /\ cache' = [cache EXCEPT ![t[2]] = @ \cup {Head(queue[l])}]
             /\ waitW' \in Signalled(waitW, WritersOf(l), TakeSignals(t))
             /\ UNCHANGED <<method, fate, source, held, ending, waitR, ended, copied, file>>

(* The loop of t is over: nothing in front of it, and nothing to come. *)
Done(t) == /\ Idle(t)
           /\ IF t \in Sources THEN source = {}
              ELSE queue[In(t)] = <<>> /\ Finished(t)

(* It counts itself on the list behind it and signals that list's threads. *)
End(t) == LET l == Out(t) IN
          /\ t \notin Sinks
          /\ Done(t)
          /\ ending' = [ending EXCEPT ![l] = @ + 1]
          /\ waitR' \in Signalled(waitR, ReadersOf(l), EndSignals(t))
          /\ ended' = ended \cup {t}
          /\ UNCHANGED <<method, fate, source, held, queue, waitW, copied, cache, file>>

(* index_thread leaves its loop through an unlock of indexList's mutex,    *)
(* which it does not hold, instead of detectList's.  If dedup_thread is    *)
(* between its test of ending and its wait at that moment, the end is      *)
(* counted and signalled in between and nobody is there to hear it.        *)
EndUnheard(c) == LET t == <<"index", c>>
                     u == <<"dedup", c>>
                     l == <<"ind", c>>
                 IN
                 /\ t \in Running
                 /\ Done(t)
                 /\ Idle(u)
                 /\ queue[l] = <<>>
                 /\ ending' = [ending EXCEPT ![l] = @ + 1]
                 /\ waitR' = waitR \cup {u}
                 /\ ended' = ended \cup {t}
                 /\ UNCHANGED <<method, fate, source, held, queue, waitW, copied, cache, file>>

(* Mutant: the rest of the cache is dropped. *)
EndWriterUnflushed(t) == /\ t \in Sinks
                         /\ Done(t)
                         /\ cache' = [cache EXCEPT ![t[2]] = {}]
                         /\ ended' = ended \cup {t}
                         /\ UNCHANGED <<method, fate, source, held, queue, ending, waitR, waitW,
                                        copied, file>>

(* write_thread writes what is left in its cache and returns. *)
EndWriter(t) == /\ t \in Sinks
                /\ Done(t)
                /\ file' = file \cup cache[t[2]]
                /\ cache' = [cache EXCEPT ![t[2]] = {}]
                /\ ended' = ended \cup {t}
                /\ UNCHANGED <<method, fate, source, held, queue, ending, waitR, waitW, copied>>

(* pthread_cond_wait may return without a signal. *)
Spurious(t) == /\ t \in waitR \cup waitW
               /\ waitR' = waitR \ {t}
               /\ waitW' = waitW \ {t}
               /\ UNCHANGED <<method, fate, source, held, queue, ending, ended, copied, cache, file>>

Thread(t) == \/ \E x \in Images : Fetch(t, x)
             \/ RawCopy(t) \/ PutWait(t) \/ Put(t)
             \/ Wait(t) \/ Take(t) \/ Record(t)
             \/ End(t) \/ EndWriter(t)

Next == \/ \E t \in Threads : Thread(t) \/ Spurious(t)
        \/ \E c \in Chains : EndUnheard(c)

Spec == Init /\ [][Next]_vars

(* Every thread that can go on is scheduled. *)
Fairness == \A t \in Threads : WF_vars(Thread(t))

FairSpec == Spec /\ Fairness

-----------------------------------------------------------------------------
(* A stage ends after the stage before it, through all the lists and all   *)
(* the tests of ending: when a thread has returned, every thread that      *)
(* appends to the list it read has returned too and the list is empty, so  *)
(* nothing can come that nobody is there to take.                          *)
ShutInOrder == \A t \in ended \ Sources :
                   WritersOf(In(t)) \subseteq ended /\ queue[In(t)] = <<>>

(* The one thread that may sleep through an end (EndUnheard). *)
Overslept(c) == /\ method = "idelta"
                /\ <<"dedup", c>> \in waitR
                /\ ending[<<"ind", c>>] = 1

(* Nobody else sleeps on a list that has ended, and no list that holds an  *)
(* image has all its threads asleep: the signals of every append and every *)
(* end are as many as the threads behind each list need.                   *)
NoneOversleeps ==
    /\ \A t \in waitR : Finished(t) => t[1] = "dedup" /\ Overslept(t[2])
    /\ \A l \in Lists : queue[l] # <<>> => ReadersOf(l) \ waitR # {}

(* All raw copies and records, those in a cache included. *)
Stored == copied \cup file \cup UNION {cache[w] : w \in Writers}
Joined == ended = Running

(* The batch as a whole keeps the promise of a single list: each file that *)
(* was read is stored once, and the batch is over only when all are.       *)
Promise == INSTANCE Delivery WITH Items <- Images, Consumers <- {"batch"},
                                  accepted  <- Images \ source,
                                  delivered <- Stored,
                                  closed    <- IF Joined THEN {"batch"} ELSE {}
ImplementsDelivery == Promise!Spec

(* Every image is stored, even when a dedup_thread oversleeps its end.     *)
AllStored == <>(Stored = Images)

(* compress_road_thread's joins return, and the caches have been flushed,  *)
(* in every batch in which no dedup_thread oversleeps.                     *)
JoinedUnlessOverslept ==
    \/ <>(\E c \in Chains : Overslept(c))
    \/ <>[](Joined /\ file \cup copied = Images)

(* compress_road_thread's joins return. *)
AllJoined == <>Joined
=============================================================================
