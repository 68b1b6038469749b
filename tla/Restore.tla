------------------------------ MODULE Restore -------------------------------
(***************************************************************************)
(* Restoring a folder (idedup_decompress).  In the first phase             *)
(* de_read_thread reads the folder: raw copies are decoded into a table,   *)
(* deltas go through readList to de_decode_thread, which queues them.  Both*)
(* are joined.  In the second phase de_dedup_thread applies the queued     *)
(* deltas to their bases, putting those whose base is not in the table yet *)
(* back behind the others, and hands the images through dedupList to       *)
(* de_encode_and_write_thread.                                             *)
(*                                                                         *)
(* Both lists have one producer and one consumer.  The consumer takes the  *)
(* whole list at once, tests for work once before pthread_cond_wait and    *)
(* once after it, and leaves if there is none then.  The producer says     *)
(* that it has ended under the mutex and signals after it let go of it.    *)
(* The table's mutex is copied by value by each thread, so it protects     *)
(* nothing; the phases do.                                                 *)
(*                                                                         *)
(* Images are told apart by identity: a raw copy and a delta are taken to  *)
(* have different names.  A base that is not in the folder is like one     *)
(* libjpeg cannot read.                                                    *)
(***************************************************************************)
EXTENDS Naturals, Sequences, FiniteSets, Functions

CONSTANTS Raws,       \* *.jpg files of the folder
          Decodable,  \* those libjpeg can read
          Deltas,     \* *.sid files of the folder
          Bases       \* the bases the deltas may name

ASSUME FilesAssumption == /\ IsFiniteSet(Raws) /\ IsFiniteSet(Deltas)
                          /\ Raws \cap Deltas = {}
                          /\ Decodable \subseteq Raws
                          /\ Bases \subseteq [Deltas -> Raws \cup Deltas]

Lists == {"read", "dedup"}

VARIABLES base,      \* delta -> the image it was made against
          files,     \* what de_read_thread has not come to yet
          table,     \* images in coeTable
          list,      \* readList and dedupList
          ending,    \* list -> its producer has said that it ended
          told,      \* list -> and has signalled that
          consumer,  \* list -> its consumer runs, waits, was woken, has left
          batch,     \* list -> what the consumer took and has not done yet
          queue,     \* decdList; in the second phase de_dedup_thread's own
          written,   \* deltas whose image is in the output folder
          spurious   \* a consumer has woken without being signalled

vars == <<base, files, table, list, ending, told, consumer, batch, queue, written, spurious>>

Init == /\ base \in Bases
        /\ files = Raws \cup Deltas
        /\ table = {}
        /\ list = [l \in Lists |-> <<>>]
        /\ ending = [l \in Lists |-> FALSE]
        /\ told = [l \in Lists |-> FALSE]
        /\ consumer = [l \in Lists |-> "runs"]
        /\ batch = [l \in Lists |-> <<>>]
        /\ queue = <<>>
        /\ written = {}
        /\ spurious = FALSE

(* Mutant: only the reader is joined. *)
JoinReader == told["read"]

(* idedup_decompress has joined both threads of the first phase. *)
SecondPhase == told["read"] /\ consumer["read"] = "left"
Started(l) == l = "read" \/ SecondPhase

(* pthread_cond_signal on rCond of a list: its consumer is the only one    *)
(* that can wait there.                                                    *)
Woken(l) == IF consumer[l] = "waits" THEN [consumer EXCEPT ![l] = "woken"] ELSE consumer

-----------------------------------------------------------------------------
(* Mutant: the list's consumer is not signalled. *)
ReadDeltaSilent(x) == /\ x \in files \cap Deltas
                      /\ files' = files \ {x}
                      /\ list' = [list EXCEPT !["read"] = Append(@, x)]
                      /\ UNCHANGED <<base, table, ending, told, consumer, batch, queue, written,
                                     spurious>>

ReadDelta(x) == /\ x \in files \cap Deltas
                /\ files' = files \ {x}
                /\ list' = [list EXCEPT !["read"] = Append(@, x)]
                /\ consumer' = Woken("read")
                /\ UNCHANGED <<base, table, ending, told, batch, queue, written, spurious>>

(* A raw copy libjpeg does not like is left out of the table. *)
ReadRaw(r) == /\ r \in files \cap Raws
              /\ files' = files \ {r}
              /\ table' = IF r \in Decodable THEN table \cup {r} ELSE table
              /\ UNCHANGED <<base, list, ending, told, consumer, batch, queue, written, spurious>>

(* de_read_thread, and de_dedup_thread below, first set ending ... *)
EndReading == /\ files = {}
              /\ ~ending["read"]
              /\ ending' = [ending EXCEPT !["read"] = TRUE]
              /\ UNCHANGED <<base, files, table, list, told, consumer, batch, queue, written,
                             spurious>>

(* ... and signal when they no longer hold the mutex. *)
TellEnd(l) == /\ ending[l]
              /\ ~told[l]
              /\ told' = [told EXCEPT ![l] = TRUE]
              /\ consumer' = Woken(l)
              /\ UNCHANGED <<base, files, table, list, ending, batch, queue, written, spurious>>

-----------------------------------------------------------------------------
TakeAll(l) == /\ list[l] # <<>>
              /\ batch' = [batch EXCEPT ![l] = list[l]]
              /\ list' = [list EXCEPT ![l] = <<>>]
              /\ consumer' = [consumer EXCEPT ![l] = "runs"]
              /\ UNCHANGED <<base, files, table, ending, told, queue, written, spurious>>

Become(l, state) == /\ consumer' = [consumer EXCEPT ![l] = state]
                    /\ UNCHANGED <<base, files, table, list, ending, told, batch, queue, written>>

(* Mutant: ending is looked at before what is in the list. *)
TestEndingFirst(l) == /\ consumer[l] = "runs" /\ batch[l] = <<>> /\ Started(l)
                      /\ \/ ~ending[l] /\ TakeAll(l)
                         \/ /\ list[l] = <<>> \/ ending[l]
                            /\ Become(l, IF ending[l] THEN "left" ELSE "waits")
                            /\ UNCHANGED spurious

(* The consumer is done with what it took and looks at the list. *)
Test(l) == /\ consumer[l] = "runs" /\ batch[l] = <<>> /\ Started(l)
           /\ \/ TakeAll(l)
              \/ /\ list[l] = <<>>
                 /\ Become(l, IF ending[l] THEN "left" ELSE "waits")
                 /\ UNCHANGED spurious

(* Mutant: it tests again as if it had not waited. *)
RetestWaits(l) == /\ consumer[l] = "woken"
                  /\ \/ TakeAll(l)
                     \/ /\ list[l] = <<>>
                        /\ Become(l, "waits")
                        /\ UNCHANGED spurious

(* Back from pthread_cond_wait it tests for work once more and does not    *)
(* wait again: an empty list is taken for the end.                         *)
Retest(l) == /\ consumer[l] = "woken"
             /\ \/ TakeAll(l)
                \/ /\ list[l] = <<>>
                   /\ Become(l, "left")
                   /\ UNCHANGED spurious

(* pthread_cond_wait may return without a signal. *)
Spurious(l) == /\ consumer[l] = "waits"
               /\ Become(l, "woken")
               /\ spurious' = TRUE

(* de_decode_thread: one delta is unpacked and queued. *)
Decode == /\ batch["read"] # <<>>
          /\ queue' = Append(queue, Head(batch["read"]))
          /\ batch' = [batch EXCEPT !["read"] = Tail(@)]
          /\ UNCHANGED <<base, files, table, list, ending, told, consumer, written, spurious>>

(* Mutant: the base need not be there. *)
ApplyBlind == /\ SecondPhase
              /\ queue # <<>>
              /\ table' = table \cup {Head(queue)}
              /\ list' = [list EXCEPT !["dedup"] = Append(@, Head(queue))]
              /\ consumer' = Woken("dedup")
              /\ queue' = Tail(queue)
              /\ UNCHANGED <<base, files, ending, told, batch, written, spurious>>

(* de_dedup_thread: the head's base is in the table.  The image goes into  *)
(* the table, as a base for others, and into dedupList.                    *)
Apply == /\ SecondPhase
         /\ queue # <<>>
         /\ base[Head(queue)] \in table
         /\ table' = table \cup {Head(queue)}
         /\ list' = [list EXCEPT !["dedup"] = Append(@, Head(queue))]
         /\ consumer' = Woken("dedup")
         /\ queue' = Tail(queue)
         /\ UNCHANGED <<base, files, ending, told, batch, written, spurious>>

(* Mutant: the head stays where it is. *)
RetryHead == /\ SecondPhase
             /\ queue # <<>>
             /\ base[Head(queue)] \notin table
             /\ UNCHANGED vars

(* Mutant: the head is given up. *)
DropHead == /\ SecondPhase
            /\ queue # <<>>
            /\ base[Head(queue)] \notin table
            /\ queue' = Tail(queue)
            /\ UNCHANGED <<base, files, table, list, ending, told, consumer, batch, written,
                           spurious>>

(* The head's base is not there: it goes behind the others. *)
PutBack == /\ SecondPhase
           /\ queue # <<>>
           /\ base[Head(queue)] \notin table
           /\ queue' = Append(Tail(queue), Head(queue))
           /\ UNCHANGED <<base, files, table, list, ending, told, consumer, batch, written,
                          spurious>>

EndApplying == /\ SecondPhase
               /\ queue = <<>>
               /\ ~ending["dedup"]
               /\ ending' = [ending EXCEPT !["dedup"] = TRUE]
               /\ UNCHANGED <<base, files, table, list, told, consumer, batch, queue, written,
                              spurious>>

(* de_encode_and_write_thread: one image is encoded and written. *)
Encode == /\ batch["dedup"] # <<>>
          /\ written' = written \cup {Head(batch["dedup"])}
          /\ batch' = [batch EXCEPT !["dedup"] = Tail(@)]
          /\ UNCHANGED <<base, files, table, list, ending, told, consumer, queue, spurious>>

Read == \/ \E x \in Deltas : ReadDelta(x)
        \/ \E r \in Raws : ReadRaw(r)
        \/ EndReading
        \/ TellEnd("read")
Unpack == Test("read") \/ Retest("read") \/ Decode
Rebuilder == Apply \/ PutBack \/ EndApplying \/ TellEnd("dedup")
Output == Test("dedup") \/ Retest("dedup") \/ Encode

Next == Read \/ Unpack \/ Rebuilder \/ Output \/ \E l \in Lists : Spurious(l)

Spec == Init /\ [][Next]_vars

(* Each thread is scheduled; nobody contends with it for its list but the  *)
(* other end, which lets go of the mutex after a few statements.           *)
FairSpec == Spec /\ WF_vars(Read) /\ WF_vars(Unpack) /\ WF_vars(Rebuilder) /\ WF_vars(Output)

-----------------------------------------------------------------------------
(* Deltas on their way, in the order of the way. *)
OnTheWay == batch["dedup"] \o list["dedup"] \o queue \o batch["read"] \o list["read"]

(* No delta is lost between two threads or handed on twice, however the    *)
(* lists are taken and however often the queue was turned over.            *)
NoneLost == /\ Cardinality(Range(OnTheWay)) = Len(OnTheWay)
            /\ Range(OnTheWay) \cap written = {}
            /\ (files \cap Deltas) \cap (Range(OnTheWay) \cup written) = {}
            /\ Deltas = (files \cap Deltas) \cup Range(OnTheWay) \cup written

(* Nobody waits for what has been put there already: a consumer that waits *)
(* finds nothing in its list and has an end signal to come.                *)
NoMissedSignal == \A l \in Lists : consumer[l] = "waits" => list[l] = <<>> /\ ~told[l]

(* The two phases do not overlap: what de_dedup_thread walks without a     *)
(* mutex nobody appends to any more, and nobody adds raw copies to the     *)
(* table it shares with de_read_thread.                                    *)
PhasesApart == SecondPhase => files = {} /\ batch["read"] = <<>>

Finished == told["dedup"] /\ consumer["dedup"] = "left"

(* When both phases are over every delta has been restored, unless a       *)
(* consumer was woken for nothing.                                         *)
AllRestored == Finished /\ ~spurious => written = Deltas

(* What the table can grow to. *)
Grown[n \in 0 .. Cardinality(Deltas)] ==
    IF n = 0 THEN Decodable
    ELSE Grown[n - 1] \cup {x \in Deltas : base[x] \in Grown[n - 1]}
Restorable == Grown[Cardinality(Deltas)] \cap Deltas

(* A delta whose base can be rebuilt is rebuilt and written although other *)
(* deltas of the folder can never be: turning the queue over starves none. *)
NoneStarved == \A x \in Deltas : [](x \in Restorable => <>(x \in written \/ spurious))

(* A folder whose deltas all can be rebuilt is restored and both phases    *)
(* end.                                                                    *)
Ends == Restorable = Deltas => <>(Finished \/ spurious)

Promise == INSTANCE Rebuild WITH back <- table

(* Deltas are applied to bases that are back, and written once.            *)
ImplementsRebuild == Promise!Spec
=============================================================================
