----------------------------- MODULE Detection ------------------------------
(***************************************************************************)
(* Similarity detection over one batch (2df.c), the decode buffer it keeps *)
(* the decoded images in (buffer.c), and the two later stages as far as    *)
(* they hold images in that buffer: dedup_thread releases the base         *)
(* (idelta.c), rejpeg_thread the target (rejpeg.c).                        *)
(*                                                                         *)
(* MIDDLE_THREAD_NUM detectors share SF_NUM feature tables, one mutex per  *)
(* table, and one buffer, one mutex.  The buffer is a list with a byte     *)
(* budget.  A node that is evicted loses its pixels (data and coe become   *)
(* NULL) but stays in the tables; as a base it is read again from the      *)
(* input folder.  link counts the stages that still use a node's pixels;   *)
(* the evicting thread skips a node whose link is not 0.                   *)
(*                                                                         *)
(* The lists between the stages are module Handoff's; here a stage may     *)
(* take the images that wait for it in any order.                          *)
(***************************************************************************)
EXTENDS Naturals, Sequences, FiniteSets, Functions, Footprint

CONSTANTS Images,      \* decoded images of the batch
          Detectors,   \* detect_thread instances, MIDDLE_THREAD_NUM of them
          None,        \* no image, no thread
          SfNum,       \* SF_NUM: super features per image, tables in the index
          FeatureSets, \* what compute_features may return for the batch
          Size,        \* image -> node->size: raw file plus coefficients
          BufferSize   \* DECODE_BUFFER_SIZE

ASSUME ImagesAssumption == IsFiniteSet(Images) /\ None \notin Images
ASSUME DetectorsAssumption == IsFiniteSet(Detectors) /\ None \notin Detectors
ASSUME FeaturesAssumption == SfNum \in Nat \ {0}
ASSUME SizeAssumption == BufferSize \in Nat /\ Size \in [Images -> 1 .. BufferSize]

VARIABLES feat,      \* image -> its super features (image->sfs)
          stage,     \* image -> how far it is on its way
          work,      \* detector -> the image it is at
          tab,       \* image -> the next table it looks itself up in
          best,      \* image -> bestMatch, later detectPtr->base
          tables,    \* table -> the images in it, in the order they came
          lru,       \* the buffer's list, head first
          free,      \* buf->size: bytes left
          owner,     \* holder of buf->mutex
          link,      \* image -> node->link
          resident,  \* images whose coe and data are not NULL
          crashed    \* a NULL pointer has been written through

vars == <<feat, stage, work, tab, best, tables, lru, free, owner, link, resident, crashed>>

(* "decoded": in decodeList.  "insert", "inserting": before and in          *)
(* insert_to_buffer.  "look": in the loop over the tables.  "pin", "move",  *)
(* "reloading", "matched": a base was found and is made available.          *)
(* "unpin", "write": none was found.  "dedup", "rejpeg": handed on with a   *)
(* base.  "raw", "delta": stored.                                           *)
Stages == {"decoded", "insert", "inserting", "look", "pin", "move", "reloading",
           "matched", "unpin", "write", "dedup", "rejpeg", "raw", "delta"}

Init == /\ feat \in FeatureSets
        /\ stage = [x \in Images |-> "decoded"]
        /\ work = [d \in Detectors |-> None]
        /\ tab = [x \in Images |-> 1]
        /\ best = [x \in Images |-> None]
        /\ tables = [i \in 1 .. SfNum |-> <<>>]
        /\ lru = <<>>
        /\ free = BufferSize
        /\ owner = None
        /\ link = [x \in Images |-> 0]
        /\ resident = Images
        /\ crashed = FALSE

(* d runs and is at stage s with its image.  A crash stops every thread.   *)
At(d, s) == ~crashed /\ work[d] # None /\ stage[work[d]] = s
MoveTo(x, s) == stage' = [stage EXCEPT ![x] = s]

-----------------------------------------------------------------------------
(* Mutant: the new node is not marked as in use. *)
PopUnpinned(d, x) == /\ ~crashed
                     /\ work[d] = None
                     /\ stage[x] = "decoded"
                     /\ work' = [work EXCEPT ![d] = x]
                     /\ MoveTo(x, "insert")
                     /\ UNCHANGED <<feat, tab, best, tables, lru, free, owner, link, resident,
                                    crashed>>

(* detect_thread pops an image; detect_a_single_img computes its features  *)
(* and makes a node for it that is in use (link = 1).                      *)
Pop(d, x) == /\ ~crashed
             /\ work[d] = None
             /\ stage[x] = "decoded"
             /\ work' = [work EXCEPT ![d] = x]
             /\ link' = [link EXCEPT ![x] = 1]
             /\ MoveTo(x, "insert")
             /\ UNCHANGED <<feat, tab, best, tables, lru, free, owner, resident, crashed>>

(* insert_to_buffer takes buf->mutex ...  *)
BeginInsert(d) == /\ At(d, "insert")
                  /\ owner = None
                  /\ owner' = d
                  /\ MoveTo(work[d], "inserting")
                  /\ UNCHANGED <<feat, work, tab, best, tables, lru, free, link, resident, crashed>>

(* Mutant: the node is appended whether there is room or not. *)
InsertAnyway(d) == LET x == work[d] IN
                   /\ At(d, "inserting")
                   /\ lru' = Append(lru, x)
                   /\ free' = free - Size[x]
                   /\ owner' = None
                   /\ MoveTo(x, "look")
                   /\ UNCHANGED <<feat, work, tab, best, tables, link, resident, crashed>>

(* ... and, once there is room, appends the node. *)
Insert(d) == LET x == work[d] IN
             /\ At(d, "inserting")
             /\ free >= Size[x]
             /\ lru' = Append(lru, x)
             /\ free' = free - Size[x]
             /\ owner' = None
             /\ MoveTo(x, "look")
             /\ UNCHANGED <<feat, work, tab, best, tables, link, resident, crashed>>

(* The node the thread that holds buf->mutex wants room for: its own, or   *)
(* the base it reloads.                                                    *)
Wanted(d) == IF At(d, "inserting") THEN work[d] ELSE best[work[d]]

NeedsRoom(d) == /\ At(d, "inserting") \/ At(d, "reloading")
                /\ free < Size[Wanted(d)]

(* Mutant: the bytes of an evicted node are not given back. *)
EvictUncredited(d) ==
    /\ NeedsRoom(d)
    /\ Len(lru) > 1
    /\ link[Head(lru)] = 0
    /\ lru' = Tail(lru)
    /\ resident' = resident \ {Head(lru)}
    /\ UNCHANGED <<feat, stage, work, tab, best, tables, free, owner, link, crashed>>

(* delete_from_top_action.  A node nobody uses loses its pixels; one in    *)
(* use goes to the tail, where move_action charges it again.  The head is  *)
(* unlinked through its successor, which must exist.                       *)
EvictHead(d) ==
    /\ NeedsRoom(d)
    /\ Len(lru) > 1
    /\ LET h == Head(lru) IN
       IF link[h] = 0
       THEN /\ lru' = Tail(lru)
            /\ free' = free + Size[h]
            /\ resident' = resident \ {h}
       ELSE /\ lru' = Append(Tail(lru), h)
            /\ UNCHANGED <<free, resident>>
    /\ UNCHANGED <<feat, stage, work, tab, best, tables, owner, link, crashed>>

(* buf->head->pre = NULL with no second node, or ptr->next with no node.   *)
EvictLast(d) == /\ NeedsRoom(d)
                /\ Len(lru) <= 1
                /\ crashed' = TRUE
                /\ UNCHANGED <<feat, stage, work, tab, best, tables, lru, free, owner,
                               link, resident>>

-----------------------------------------------------------------------------
(* How many super features two images share; 0 without a match so far.     *)
Shared(x, b) == IF b = None THEN 0
                ELSE Cardinality({k \in 1 .. SfNum : feat[b][k] = feat[x][k]})

(* The images of table i under the same key as x. *)
Bucket(x, i) == {j \in DOMAIN tables[i] : feat[tables[i][j]][i] = feat[x][i]}

(* Mutant: matches are not compared; the last one of a table stays. *)
BetterLast(x, i) == {j \in Bucket(x, i) : \A k \in Bucket(x, i) : k <= j}

(* The first of the images in the bucket that share most features with x,  *)
(* if that is more than the best match of the tables before.               *)
Better(x, i) ==
    {j \in Bucket(x, i) :
        /\ Shared(x, tables[i][j]) > Shared(x, best[x])
        /\ \A k \in Bucket(x, i) :
              \/ Shared(x, tables[i][k]) < Shared(x, tables[i][j])
              \/ Shared(x, tables[i][k]) = Shared(x, tables[i][j]) /\ j <= k}

(* Mutant: the node is added before it is looked up. *)
LookAfterAdd(d) == LET x == work[d]
                       i == tab[x]
                   IN
                   /\ At(d, "look")
                   /\ i <= SfNum
                   /\ best' = [best EXCEPT ![x] =
                                  IF Better(x, i) = {} THEN x
                                  ELSE tables[i][CHOOSE j \in Better(x, i) : TRUE]]
                   /\ tables' = [tables EXCEPT ![i] = Append(@, x)]
                   /\ tab' = [tab EXCEPT ![x] = i + 1]
                   /\ UNCHANGED <<feat, stage, work, lru, free, owner, link, resident, crashed>>

(* One turn of the loop over the tables, under the table's mutex: look up, *)
(* then add the node itself.                                               *)
Look(d) == LET x == work[d]
               i == tab[x]
           IN
           /\ At(d, "look")
           /\ i <= SfNum
           /\ best' = [best EXCEPT ![x] =
                          IF Better(x, i) = {} THEN @
                          ELSE tables[i][CHOOSE j \in Better(x, i) : TRUE]]
           /\ tables' = [tables EXCEPT ![i] = Append(@, x)]
           /\ tab' = [tab EXCEPT ![x] = i + 1]
           /\ UNCHANGED <<feat, stage, work, lru, free, owner, link, resident, crashed>>

Looked(d) == LET x == work[d] IN
             /\ At(d, "look")
             /\ tab[x] = SfNum + 1
             /\ MoveTo(x, IF best[x] = None THEN "unpin" ELSE "pin")
             /\ UNCHANGED <<feat, work, tab, best, tables, lru, free, owner, link,
                            resident, crashed>>

(* bestMatch->link++ under the base node's mutex. *)
Pin(d) == LET x == work[d] IN
          /\ At(d, "pin")
          /\ link' = [link EXCEPT ![best[x]] = @ + 1]
          /\ MoveTo(x, "move")
          /\ UNCHANGED <<feat, work, tab, best, tables, lru, free, owner, resident, crashed>>

(* The list with what follows b moved up and b at its tail. *)
ToTail(b) == LET k == CHOOSE i \in DOMAIN lru : lru[i] = b IN
             [i \in DOMAIN lru |-> IF i < k THEN lru[i]
                                   ELSE IF i < Len(lru) THEN lru[i + 1] ELSE b]

(* Mutant: the node is taken out of its place and not put at the tail. *)
TouchUnlinked(d) == LET x == work[d] IN
                    /\ At(d, "move")
                    /\ owner = None
                    /\ best[x] \in resident
                    /\ lru' = SelectSeq(lru, LAMBDA y : y # best[x])
                    /\ MoveTo(x, "matched")
                    /\ UNCHANGED <<feat, work, tab, best, tables, free, owner, link, resident,
                                   crashed>>

(* move_in_buffer of a base that still has its pixels: fill_buf_node       *)
(* returns 0 and the node moves to the tail.                               *)
Touch(d) == LET x == work[d] IN
            /\ At(d, "move")
            /\ owner = None
            /\ best[x] \in resident
            /\ lru' = ToTail(best[x])
            /\ MoveTo(x, "matched")
            /\ UNCHANGED <<feat, work, tab, best, tables, free, owner, link, resident, crashed>>

(* move_in_buffer of a base that was evicted: fill_buf_node reads the file *)
(* again, before there is room for it in the buffer ...                    *)
BeginReload(d) == LET x == work[d] IN
                  /\ At(d, "move")
                  /\ owner = None
                  /\ best[x] \notin resident
                  /\ owner' = d
                  /\ resident' = resident \cup {best[x]}
                  /\ MoveTo(x, "reloading")
                  /\ UNCHANGED <<feat, work, tab, best, tables, lru, free, link, crashed>>

(* ... and the node is appended once there is. *)
Reload(d) == LET x == work[d] IN
             /\ At(d, "reloading")
             /\ free >= Size[best[x]]
             /\ lru' = Append(lru, best[x])
             /\ free' = free - Size[best[x]]
             /\ owner' = None
             /\ MoveTo(x, "matched")
             /\ UNCHANGED <<feat, work, tab, best, tables, link, resident, crashed>>

(* The pair goes into detectList. *)
Emit(d) == /\ At(d, "matched")
           /\ MoveTo(work[d], "dedup")
           /\ work' = [work EXCEPT ![d] = None]
           /\ UNCHANGED <<feat, tab, best, tables, lru, free, owner, link, resident, crashed>>

(* Mutant: the node is not given up. *)
UnpinForgotten(d) == LET x == work[d] IN
                     /\ At(d, "unpin")
                     /\ MoveTo(x, "write")
                     /\ UNCHANGED <<feat, work, tab, best, tables, lru, free, owner, link, resident,
                                    crashed>>

(* No match: detect_a_single_img gives the node up (link--) ...             *)
Unpin(d) == LET x == work[d] IN
            /\ At(d, "unpin")
            /\ link' = [link EXCEPT ![x] = @ - 1]
            /\ MoveTo(x, "write")
            /\ UNCHANGED <<feat, work, tab, best, tables, lru, free, owner, resident, crashed>>

(* ... and detect_thread then writes rawData->data to the output folder.   *)
WriteRaw(d) == /\ At(d, "write")
               /\ MoveTo(work[d], "raw")
               /\ work' = [work EXCEPT ![d] = None]
               /\ UNCHANGED <<feat, tab, best, tables, lru, free, owner, link, resident, crashed>>

(* dedup_thread has made the delta of x and gives the base up. *)
Dedup(x) == /\ ~crashed
            /\ stage[x] = "dedup"
            /\ link' = [link EXCEPT ![best[x]] = @ - 1]
            /\ MoveTo(x, "rejpeg")
            /\ UNCHANGED <<feat, work, tab, best, tables, lru, free, owner, resident, crashed>>

(* Mutant: the target stays in use. *)
RejpegPinned(x) == /\ ~crashed
                   /\ stage[x] = "rejpeg"
                   /\ MoveTo(x, "delta")
                   /\ UNCHANGED <<feat, work, tab, best, tables, lru, free, owner, link, resident,
                                  crashed>>

(* rejpeg_thread has coded the inserted blocks, which are the target's own *)
(* pixels, and gives the target up.  write_thread then needs names only.   *)
Rejpeg(x) == /\ ~crashed
             /\ stage[x] = "rejpeg"
             /\ link' = [link EXCEPT ![x] = @ - 1]
             /\ MoveTo(x, "delta")
             /\ UNCHANGED <<feat, work, tab, best, tables, lru, free, owner, resident, crashed>>

Detect(d) == \/ \E x \in Images : Pop(d, x)
             \/ BeginInsert(d) \/ Insert(d) \/ EvictHead(d) \/ EvictLast(d)
             \/ Look(d) \/ Looked(d)
             \/ Pin(d) \/ Touch(d) \/ BeginReload(d) \/ Reload(d) \/ Emit(d)
             \/ Unpin(d) \/ WriteRaw(d)

Next == \/ \E d \in Detectors : Detect(d)
        \/ \E x \in Images : Dedup(x) \/ Rejpeg(x)

Spec == Init /\ [][Next]_vars

(* Every thread is scheduled; the mutexes let a thread that keeps asking   *)
(* in, as long as their holder lets go of them again.                      *)
Fairness == /\ \A d \in Detectors : WF_vars(Detect(d))
            /\ \A x \in Images : WF_vars(Dedup(x) \/ Rejpeg(x))

FairSpec == Spec /\ Fairness

-----------------------------------------------------------------------------
TypeOK == /\ stage \in [Images -> Stages]
          /\ work \in [Detectors -> Images \cup {None}]
          /\ tab \in [Images -> 1 .. SfNum + 1]
          /\ best \in [Images -> Images \cup {None}]
          /\ tables \in [1 .. SfNum -> Seq(Images)]
          /\ lru \in Seq(Images)
          /\ free \in 0 .. BufferSize
          /\ owner \in Detectors \cup {None}
          /\ link \in [Images -> Nat]
          /\ resident \subseteq Images
          /\ crashed \in BOOLEAN

(* The bytes the buffer believes to have left are those its nodes leave.   *)
SpaceAccounted == free + Bytes(Range(lru), Size) = BufferSize

(* Stages in which a stage of the pipeline may read an image's own pixels, *)
(* and those of its base.                                                  *)
TargetStages == {"insert", "inserting", "look", "pin", "move", "reloading", "matched",
                 "unpin", "dedup", "rejpeg"}
BaseStages == {"reloading", "matched", "dedup"}

(* Pixels are where they are read: an image that is on its way to dedup or *)
(* rejpeg has them, and so has the base it was paired with, however often  *)
(* the buffer was emptied for other images in between.                     *)
PinnedResident == \A x \in Images : /\ stage[x] \in TargetStages => x \in resident
                                    /\ stage[x] \in BaseStages => best[x] \in resident

(* A pin is taken once per use and given back once per use: link is the    *)
(* number of stages that use the node, so a node nobody uses is evictable  *)
(* and the unsigned counter never wraps.                                   *)
Users(b) == {x \in Images : best[x] = b /\ stage[x] \in {"move"} \cup BaseStages}
PinsBalanced == \A b \in Images :
    link[b] = Cardinality(Users(b)) + (IF stage[b] \in TargetStages THEN 1 ELSE 0)

(* Memory is bounded by the buffer: outside a reload, pixels held are      *)
(* pixels charged, so nothing is resident that the list does not know.     *)
ResidentCharged ==
    \A x \in resident : \/ x \in Range(lru)
                        \/ stage[x] \in {"decoded", "insert", "inserting"}
                        \/ \E d \in Detectors : /\ work[d] # None
                                                /\ stage[work[d]] = "reloading"
                                                /\ best[work[d]] = x

(* The list is never emptied by an eviction. *)
NoCrash == ~crashed

(* A single detector pairs an image with one that shares as many super     *)
(* features with it as any image before it, although each table only shows *)
(* the images of one key and the search stops at a full match; it pairs it *)
(* with none only if none shares any.                                      *)
BestChosen ==
    Cardinality(Detectors) = 1 =>
        \A i, j \in DOMAIN tables[SfNum] :
            i < j => LET x == tables[SfNum][j] IN
                     Shared(x, best[x]) >= Shared(x, tables[SfNum][i])

(* What the restorer can rebuild: raw copies, then whatever is a delta of  *)
(* something rebuilt (de_dedup_thread), as often as there are images.      *)
Rebuilt[n \in 0 .. Cardinality(Images)] ==
    IF n = 0 THEN {x \in Images : stage[x] = "raw"}
    ELSE Rebuilt[n - 1] \cup {x \in Images : stage[x] = "delta" /\ best[x] \in Rebuilt[n - 1]}

Finished == \A x \in Images : stage[x] \in {"raw", "delta"}

(* Every image of a finished batch can be restored from what was stored.   *)
AllRestorable == Finished => Rebuilt[Cardinality(Images)] = Images

(* Every image of the batch ends up stored, raw or as a delta. *)
AllStored == <>Finished
=============================================================================
