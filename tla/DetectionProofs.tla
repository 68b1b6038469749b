-------------------------- MODULE DetectionProofs ---------------------------
(***************************************************************************)
(* Proofs about Detection for any number of detectors, any batch, any      *)
(* features and any sizes, and about Features for any polynomial, tables,  *)
(* widths, options and image.                                              *)
(*                                                                         *)
(* The books of the buffer are right (SpaceAccounted, ResidentCharged) and *)
(* pixels are where they are read (PinnedResident) because pins are        *)
(* counted exactly (PinsBalanced); that in turn rests on who works on what *)
(* (Hands), who holds the buffer (Lock), what may be found in the tables   *)
(* (Known) and what may stand in the list (Listed).                        *)
(*                                                                         *)
(* With one detector the tables all hold the images in one order           *)
(* (OneByOne): each is paired with the most similar one before it          *)
(* (BestChosen), so that all can be restored (AllRestorable).              *)
(*                                                                         *)
(* The features compared are those of Features, which the second part is   *)
(* about.  The rolling digest is a function of the window alone            *)
(* (DigestIsHash): the remainder taken bit by bit is linear, it may be     *)
(* taken before a shift as well as after, so a byte that has been shifted  *)
(* to the window's far end is what the table of calc_tables holds for it,  *)
(* and one more table look-up reduces what rabin_append shifts in.         *)
(*                                                                         *)
(* The super features are a function of the image (SuperFeaturesOfWindows):*)
(* the rolling value is that of the last units (RollsOn), which are a      *)
(* window wherever features are taken (ValueOfWindow), each window of the  *)
(* image is met at one of these places (WindowsByPlace), and the values    *)
(* kept are the greatest over the windows met (GreatestOver).              *)
(***************************************************************************)
EXTENDS Detection, Features, QueueLemmas

(* Not yet in the buffer, hence in no table either. *)
Unlisted == {"decoded", "insert", "inserting"}

(* In the hands of a detector. *)
InHand == {"insert", "inserting", "look", "pin", "move", "reloading", "matched",
           "unpin", "write"}

(* A base has been chosen. *)
Paired == {"pin", "move", "reloading", "matched", "dedup", "rejpeg", "delta"}

(* An image is with one detector at most. *)
Hands ==
    /\ \A d \in Detectors : work[d] # None => stage[work[d]] \in InHand
    /\ \A d, e \in Detectors : work[d] # None /\ work[d] = work[e] => d = e

(* Who inserts or reloads holds the buffer. *)
Lock == \A d \in Detectors :
    work[d] # None /\ stage[work[d]] \in {"inserting", "reloading"} => owner = d

(* What the tables or a pair refer to has been in the buffer. *)
Known ==
    /\ \A i \in 1 .. SfNum : \A y \in Range(tables[i]) : stage[y] \notin Unlisted
    /\ \A x \in Images : best[x] # None => stage[best[x]] \notin Unlisted
    /\ \A x \in Images : stage[x] \in Paired => best[x] # None

(* The buffer's list has each resident node at most once. *)
Listed ==
    /\ Distinct(lru)
    /\ Range(lru) \subseteq resident
    /\ \A y \in Range(lru) : stage[y] \notin Unlisted
    /\ \A x \in Images : stage[x] \in Unlisted => x \in resident
    /\ \A d \in Detectors : work[d] # None /\ stage[work[d]] = "reloading"
                               => best[work[d]] \notin Range(lru)

(* The inductive invariant of the books of the buffer. *)
IInv == /\ TypeOK
        /\ SpaceAccounted
        /\ Hands
        /\ Lock
        /\ Known
        /\ Listed
        /\ PinnedResident
        /\ PinsBalanced
        /\ ResidentCharged

-----------------------------------------------------------------------------
(* Size as the byte lemmas want it. *)
LEMMA NodeSizes ==
    /\ IsFiniteSet(Images)
    /\ Size \in [Images -> Nat]
    /\ BufferSize \in Nat
    /\ \A x \in Images : Size[x] <= BufferSize /\ Size[x] \in Nat \ {0}
<1>1. \A x \in Images : Size[x] \in 1 .. BufferSize
  BY SizeAssumption
<1> QED  BY <1>1, SizeAssumption, ImagesAssumption

(* What the books say about the space that is free. *)
LEMMA FreeSpace ==
    ASSUME TypeOK, SpaceAccounted
    PROVE  /\ Range(lru) \in SUBSET Images
           /\ Bytes(Range(lru), Size) \in Nat
           /\ free \in Nat
<1>1. lru \in Seq(Images) /\ free \in 0 .. BufferSize
  BY DEF TypeOK
<1>2. Range(lru) \in SUBSET Images
  BY <1>1, RangeOfSeq
<1>3. IsFiniteSet(UNION {Cells(x, Size) : x \in Range(lru)})
  BY <1>2, NodeSizes, CellsFinite
<1>4. Bytes(Range(lru), Size) \in Nat
  BY <1>3, FS_CardinalityType DEF Bytes
<1> QED  BY <1>1, <1>2, <1>4, NodeSizes

(* A set of users is finite; nobody uses a node that is not in the buffer. *)
LEMMA UsersFacts ==
    ASSUME TypeOK, Known, NEW b \in Images
    PROVE  /\ IsFiniteSet(Users(b)) /\ Cardinality(Users(b)) \in Nat
           /\ stage[b] \in Unlisted => Users(b) = {}
<1>1. IsFiniteSet(Users(b))
  BY ImagesAssumption, FS_Subset DEF Users
<1>2. stage[b] \in Unlisted => Users(b) = {}
  BY ImagesAssumption DEF Users, Known
<1> QED  BY <1>1, <1>2, FS_CardinalityType

(* At the start every image is decoded and nothing is in the buffer. *)
LEMMA InitIInv == Init => IInv
<1> SUFFICES ASSUME Init PROVE IInv
  OBVIOUS
<1> USE DEF Init
<1>1. Range(lru) = {}
  BY DEF Range
<1>2. TypeOK
  <2>1. lru \in Seq(Images) /\ tables \in [1 .. SfNum -> Seq(Images)]
    BY EmptySeq
  <2>2. 1 \in 1 .. SfNum + 1 /\ BufferSize \in 0 .. BufferSize
    BY FeaturesAssumption, SizeAssumption
  <2> QED  BY <2>1, <2>2 DEF TypeOK, Stages
<1>3. SpaceAccounted
  <2>1. Bytes(Range(lru), Size) = 0
    BY <1>1, BytesEmpty
  <2> QED  BY <2>1, SizeAssumption DEF SpaceAccounted
<1>4. Hands /\ Lock
  BY DEF Hands, Lock
<1>5. Known
  <2>1. \A i \in 1 .. SfNum : Range(tables[i]) = {}
    BY DEF Range
  <2> QED  BY <2>1 DEF Known, Paired
<1>6. Listed
  BY <1>1 DEF Listed, Distinct
<1>7. PinnedResident
  BY DEF PinnedResident, TargetStages, BaseStages
<1>8. PinsBalanced
  <2> SUFFICES ASSUME NEW b \in Images
               PROVE  link[b] = Cardinality(Users(b))
                                + (IF stage[b] \in TargetStages THEN 1 ELSE 0)
    BY DEF PinsBalanced
  <2>1. Users(b) = {}
    BY DEF Users, BaseStages
  <2> QED  BY <2>1, FS_EmptySet DEF TargetStages
<1>9. ResidentCharged
  BY DEF ResidentCharged
<1> QED  BY <1>2, <1>3, <1>4, <1>5, <1>6, <1>7, <1>8, <1>9 DEF IInv

-----------------------------------------------------------------------------
(* What a step that moves one image between stages, in hand or not, and    *)
(* leaves buffer and tables alone keeps by itself.                         *)
LEMMA StageMove ==
    ASSUME IInv, NEW x \in Images,
           UNCHANGED <<best, tables, lru, free, resident>>,
           \A y \in Images : y # x => stage'[y] = stage[y],
           stage'[x] \in Unlisted <=> stage[x] \in Unlisted,
           stage[x] # "reloading", stage'[x] # "reloading",
           stage'[x] \in Paired => best[x] # None,
           stage'[x] \in TargetStages => x \in resident,
           stage'[x] \in BaseStages => best[x] \in resident,
           \A e \in Detectors : /\ work'[e] # work[e] => {work[e], work'[e]} \subseteq {None, x}
                                /\ work'[e] \in Images \cup {None}
    PROVE  SpaceAccounted' /\ Known' /\ Listed' /\ PinnedResident' /\ ResidentCharged'
<1>1. TypeOK /\ SpaceAccounted /\ Known /\ Listed /\ PinnedResident /\ ResidentCharged
  BY DEF IInv
<1>2. \A y \in Images : stage'[y] \in Unlisted <=> stage[y] \in Unlisted
  OBVIOUS
<1>3. SpaceAccounted'
  BY <1>1 DEF SpaceAccounted
<1>4. Known'
  <2>1. \A i \in 1 .. SfNum : Range(tables[i]) \in SUBSET Images
    BY <1>1, RangeOfSeq DEF TypeOK
  <2>2. \A i \in 1 .. SfNum : \A y \in Range(tables[i]) : stage'[y] \notin Unlisted
    BY <2>1, <1>1, <1>2 DEF Known
  <2>3. \A y \in Images : best[y] # None => stage'[best[y]] \notin Unlisted
    BY <1>1, <1>2 DEF Known, TypeOK
  <2>4. \A y \in Images : stage'[y] \in Paired => best[y] # None
    BY <1>1 DEF Known
  <2> QED  BY <2>2, <2>3, <2>4 DEF Known
<1>5. \A e \in Detectors :
         work'[e] # None /\ stage'[work'[e]] = "reloading"
            <=> work[e] # None /\ stage[work[e]] = "reloading" /\ work'[e] = work[e]
  BY <1>1 DEF TypeOK
<1>6. Listed'
  <2>1. \A y \in Range(lru) : stage'[y] \notin Unlisted
    BY <1>1, <1>2, FreeSpace DEF Listed
  <2>2. \A y \in Images : stage'[y] \in Unlisted => y \in resident
    BY <1>1, <1>2 DEF Listed
  <2>3. \A e \in Detectors : work'[e] # None /\ stage'[work'[e]] = "reloading"
                                => best[work'[e]] \notin Range(lru)
    BY <1>1, <1>5 DEF Listed
  <2> QED  BY <2>1, <2>2, <2>3, <1>1 DEF Listed
<1>7. PinnedResident'
  BY <1>1 DEF PinnedResident
<1>8. ResidentCharged'
  <2> SUFFICES ASSUME NEW y \in resident, y \notin Range(lru), stage'[y] \notin Unlisted
               PROVE  \E e \in Detectors : /\ work'[e] # None
                                          /\ stage'[work'[e]] = "reloading"
                                          /\ best[work'[e]] = y
    BY DEF ResidentCharged, Unlisted
  <2>1. y \in Images /\ stage[y] \notin Unlisted
    BY <1>1, <1>2 DEF TypeOK
  <2>2. PICK e \in Detectors : /\ work[e] # None
                               /\ stage[work[e]] = "reloading"
                               /\ best[work[e]] = y
    BY <2>1, <1>1 DEF ResidentCharged, Unlisted
  <2>3. work'[e] = work[e]
    BY <2>2
  <2> QED  BY <2>2, <2>3, <1>5
<1> QED  BY <1>3, <1>4, <1>6, <1>7, <1>8

(* Pins stay balanced when no node's users and no node's pins change. *)
LEMMA SamePins ==
    ASSUME PinsBalanced, link' = link,
           \A b \in Images : Users(b)' = Users(b),
           \A b \in Images : stage'[b] \in TargetStages <=> stage[b] \in TargetStages
    PROVE  PinsBalanced'
BY DEF PinsBalanced

(* What a detector that is at an image may rely on. *)
LEMMA InHandFacts ==
    ASSUME TypeOK, Hands, NEW d \in Detectors, work[d] # None
    PROVE  /\ work[d] \in Images /\ work[d] # None
           /\ \A e \in Detectors : e # d => work[e] # work[d]
BY DEF TypeOK, Hands

(* An image comes into a detector's hands; its node is in use from here.   *)
LEMMA PopIInv ==
    ASSUME IInv, NEW d \in Detectors, NEW x \in Images, Pop(d, x)
    PROVE  IInv'
<1> USE DEF Pop, MoveTo
<1>1. TypeOK /\ Hands /\ Lock /\ Known /\ Listed /\ PinsBalanced
  BY DEF IInv
<1>2. /\ stage[x] = "decoded" /\ stage'[x] = "insert"
      /\ \A y \in Images : y # x => stage'[y] = stage[y]
      /\ \A e \in Detectors : work[e] # x
      /\ x # None /\ x \in resident
  BY <1>1, ImagesAssumption DEF TypeOK, Hands, InHand, Listed, Unlisted
<1>3. TypeOK'
  BY <1>1 DEF TypeOK, Stages
<1>4. Hands'
  BY <1>1, <1>2 DEF Hands, TypeOK, InHand
<1>5. Lock'
  BY <1>1, <1>2 DEF Lock, TypeOK
<1>6. SpaceAccounted' /\ Known' /\ Listed' /\ PinnedResident' /\ ResidentCharged'
  <2>1. \A e \in Detectors : /\ work'[e] # work[e] => {work[e], work'[e]} \subseteq {None, x}
                             /\ work'[e] \in Images \cup {None}
    BY <1>1 DEF TypeOK
  <2> QED  BY <2>1, <1>2, StageMove DEF Unlisted, Paired, BaseStages
<1>7. PinsBalanced'
  <2> SUFFICES ASSUME NEW b \in Images
               PROVE  link'[b] = Cardinality(Users(b)')
                                 + (IF stage'[b] \in TargetStages THEN 1 ELSE 0)
    BY DEF PinsBalanced
  <2>1. Users(b)' = Users(b)
    BY <1>2 DEF Users, BaseStages
  <2>2. CASE b = x
    <3>1. Users(b) = {} /\ link'[b] = 1
      BY <2>2, <1>1, <1>2, UsersFacts DEF TypeOK, Unlisted
    <3>2. Cardinality(Users(b)') = 0
      BY <2>1, <3>1, FS_EmptySet
    <3> QED  BY <3>1, <3>2, <2>2, <1>2 DEF TargetStages
  <2>3. CASE b # x
    <3>1. link'[b] = link[b] /\ stage'[b] = stage[b]
      BY <2>3, <1>1, <1>2 DEF TypeOK
    <3> QED  BY <3>1, <2>1, <1>1 DEF PinsBalanced
  <2> QED  BY <2>2, <2>3
<1> QED  BY <1>3, <1>4, <1>5, <1>6, <1>7 DEF IInv

(* What a step of the detector d, which is at an image, keeps of who works *)
(* on what and who holds the buffer: it takes the buffer when it is free,  *)
(* and lets go of it when it has it.                                       *)
LEMMA HandsAndLock ==
    ASSUME TypeOK, Hands, Lock, NEW d \in Detectors, work[d] # None, NEW s,
           stage' = [stage EXCEPT ![work[d]] = s],
           \/ work' = work /\ s \in InHand
           \/ work' = [work EXCEPT ![d] = None],
           \/ owner' = owner /\ s \notin {"inserting", "reloading"}
           \/ owner = None /\ owner' = d
           \/ owner = d /\ owner' = None /\ s \notin {"inserting", "reloading"}
    PROVE  Hands' /\ Lock'
<1>1. /\ work[d] \in Images
      /\ stage'[work[d]] = s
      /\ \A y \in Images : y # work[d] => stage'[y] = stage[y]
      /\ \A e \in Detectors : e # d => work'[e] = work[e] /\ work[e] # work[d]
      /\ work'[d] \in {work[d], None}
      /\ work'[d] # None => s \in InHand
  BY InHandFacts DEF TypeOK
<1>2. \A e \in Detectors : e # d /\ work[e] # None
                              => work[e] \in Images /\ stage'[work[e]] = stage[work[e]]
  BY <1>1 DEF TypeOK
<1>3. Hands'
  BY <1>1, <1>2 DEF Hands
<1>4. Lock'
  <2> SUFFICES ASSUME NEW e \in Detectors, work'[e] # None,
                      stage'[work'[e]] \in {"inserting", "reloading"}
               PROVE  owner' = e
    BY DEF Lock
  <2>1. CASE e = d
    BY <2>1, <1>1 DEF Lock
  <2>2. CASE e # d
    <3>1. work[e] # None /\ stage[work[e]] \in {"inserting", "reloading"}
      BY <2>2, <1>1, <1>2
    <3>2. owner = e
      BY <3>1 DEF Lock
    <3> QED  BY <3>2, <2>2, DetectorsAssumption
  <2> QED  BY <2>1, <2>2
<1> QED  BY <1>3, <1>4

(* The stages in which an image's base is counted as in use.               *)
UserStages == {"move", "reloading", "matched", "dedup"}

(* Who comes to use its base is one more user of it, and of no other.      *)
LEMMA UserJoins ==
    ASSUME TypeOK, Known, NEW x \in Images, best' = best,
           \A y \in Images : y # x => stage'[y] = stage[y],
           stage[x] \notin UserStages, stage'[x] \in UserStages,
           NEW b \in Images
    PROVE  /\ Cardinality(Users(b)) \in Nat
           /\ Cardinality(Users(b)') = Cardinality(Users(b)) + (IF best[x] = b THEN 1 ELSE 0)
<1>1. IsFiniteSet(Users(b)) /\ Cardinality(Users(b)) \in Nat
  BY UsersFacts
<1>2. CASE best[x] = b
  <2>1. Users(b)' = Users(b) \cup {x} /\ x \notin Users(b)
    BY <1>2 DEF Users, BaseStages, UserStages
  <2>2. Cardinality(Users(b) \cup {x}) = Cardinality(Users(b)) + 1
    BY <1>1, <2>1, FS_AddElement
  <2> QED  BY <1>1, <1>2, <2>1, <2>2
<1>3. CASE best[x] # b
  <2>1. Users(b)' = Users(b)
    BY <1>3 DEF Users
  <2> QED  BY <1>1, <1>3, <2>1
<1> QED  BY <1>2, <1>3

(* Who gives its base up is one user of it less, and of no other.          *)
LEMMA UserLeaves ==
    ASSUME TypeOK, Known, NEW x \in Images, best' = best,
           \A y \in Images : y # x => stage'[y] = stage[y],
           stage[x] \in UserStages, stage'[x] \notin UserStages,
           NEW b \in Images
    PROVE  /\ Cardinality(Users(b)') \in Nat
           /\ Cardinality(Users(b)) = Cardinality(Users(b)') + (IF best[x] = b THEN 1 ELSE 0)
<1>1. IsFiniteSet(Users(b)) /\ Cardinality(Users(b)) \in Nat
  BY UsersFacts
<1>2. CASE best[x] = b
  <2>1. Users(b)' = Users(b) \ {x} /\ x \in Users(b)
    BY <1>2 DEF Users, BaseStages, UserStages
  <2>2. /\ IsFiniteSet(Users(b) \ {x})
        /\ Cardinality(Users(b) \ {x}) = Cardinality(Users(b)) - 1
    BY <1>1, <2>1, FS_RemoveElement
  <2>3. Cardinality(Users(b) \ {x}) \in Nat
    BY <2>2, FS_CardinalityType
  <2> QED  BY <1>1, <1>2, <2>1, <2>2, <2>3
<1>3. CASE best[x] # b
  <2>1. Users(b)' = Users(b)
    BY <1>3 DEF Users
  <2> QED  BY <1>1, <1>3, <2>1
<1> QED  BY <1>2, <1>3

(* A detector starts to wait for room for its node.                        *)
LEMMA BeginInsertIInv ==
    ASSUME IInv, NEW d \in Detectors, BeginInsert(d)
    PROVE  IInv'
<1> USE DEF BeginInsert, MoveTo, At
<1>1. TypeOK /\ Hands /\ Lock /\ Known /\ Listed /\ PinnedResident /\ PinsBalanced
  BY DEF IInv
<1> DEFINE x == work[d]
<1>2. /\ x \in Images /\ stage[x] = "insert" /\ stage'[x] = "inserting"
      /\ \A y \in Images : y # x => stage'[y] = stage[y]
      /\ x \in resident
  BY <1>1 DEF TypeOK, PinnedResident, TargetStages
<1>3. TypeOK'
  BY <1>1, <1>2 DEF TypeOK, Stages
<1>4. Hands' /\ Lock'
  BY <1>1, HandsAndLock DEF InHand
<1>5. SpaceAccounted' /\ Known' /\ Listed' /\ PinnedResident' /\ ResidentCharged'
  <2>1. \A e \in Detectors : work'[e] = work[e] /\ work'[e] \in Images \cup {None}
    BY <1>1 DEF TypeOK
  <2> QED  BY <2>1, <1>2, StageMove DEF Unlisted, Paired, BaseStages
<1>6. PinsBalanced'
  BY <1>1, <1>2, SamePins DEF Users, BaseStages, TargetStages
<1> QED  BY <1>3, <1>4, <1>5, <1>6 DEF IInv

(* The loop over the tables ends, with a match or without.                 *)
LEMMA LookedIInv ==
    ASSUME IInv, NEW d \in Detectors, Looked(d)
    PROVE  IInv'
<1> USE DEF Looked, MoveTo, At
<1>1. TypeOK /\ Hands /\ Lock /\ Known /\ Listed /\ PinnedResident /\ PinsBalanced
  BY DEF IInv
<1> DEFINE x == work[d]
<1>2. /\ x \in Images /\ stage[x] = "look" /\ stage'[x] \in {"pin", "unpin"}
      /\ stage'[x] = "pin" => best[x] # None
      /\ \A y \in Images : y # x => stage'[y] = stage[y]
      /\ x \in resident
  BY <1>1 DEF TypeOK, PinnedResident, TargetStages
<1>3. TypeOK'
  BY <1>1, <1>2 DEF TypeOK, Stages
<1>4. Hands' /\ Lock'
  BY <1>1, HandsAndLock DEF InHand
<1>5. SpaceAccounted' /\ Known' /\ Listed' /\ PinnedResident' /\ ResidentCharged'
  <2>1. \A e \in Detectors : work'[e] = work[e] /\ work'[e] \in Images \cup {None}
    BY <1>1 DEF TypeOK
  <2> QED  BY <2>1, <1>2, StageMove DEF Unlisted, Paired, BaseStages
<1>6. PinsBalanced'
  BY <1>1, <1>2, SamePins DEF Users, BaseStages, TargetStages
<1> QED  BY <1>3, <1>4, <1>5, <1>6 DEF IInv

(* The base is pinned: one more user, one more pin.                        *)
LEMMA PinIInv ==
    ASSUME IInv, NEW d \in Detectors, Pin(d)
    PROVE  IInv'
<1> USE DEF Pin, MoveTo, At
<1>1. TypeOK /\ Hands /\ Lock /\ Known /\ Listed /\ PinnedResident /\ PinsBalanced
  BY DEF IInv
<1> DEFINE x == work[d]
<1>2. /\ x \in Images /\ stage[x] = "pin" /\ stage'[x] = "move"
      /\ \A y \in Images : y # x => stage'[y] = stage[y]
      /\ x \in resident /\ best[x] \in Images /\ best[x] # None
  BY <1>1 DEF TypeOK, PinnedResident, TargetStages, Known, Paired
<1>3. TypeOK'
  BY <1>1, <1>2 DEF TypeOK, Stages
<1>4. Hands' /\ Lock'
  BY <1>1, HandsAndLock DEF InHand
<1>5. SpaceAccounted' /\ Known' /\ Listed' /\ PinnedResident' /\ ResidentCharged'
  <2>1. \A e \in Detectors : work'[e] = work[e] /\ work'[e] \in Images \cup {None}
    BY <1>1 DEF TypeOK
  <2> QED  BY <2>1, <1>2, StageMove DEF Unlisted, Paired, BaseStages
<1>6. PinsBalanced'
  <2> SUFFICES ASSUME NEW b \in Images
               PROVE  link'[b] = Cardinality(Users(b)')
                                 + (IF stage'[b] \in TargetStages THEN 1 ELSE 0)
    BY DEF PinsBalanced
  <2>1. /\ Cardinality(Users(b)) \in Nat
        /\ Cardinality(Users(b)') = Cardinality(Users(b)) + (IF best[x] = b THEN 1 ELSE 0)
    BY <1>1, <1>2, UserJoins DEF UserStages
  <2>2. link[b] \in Nat /\ link'[b] = link[b] + (IF best[x] = b THEN 1 ELSE 0)
    BY <1>1, <1>2 DEF TypeOK
  <2>3. stage'[b] \in TargetStages <=> stage[b] \in TargetStages
    BY <1>2 DEF TargetStages
  <2>4. link[b] = Cardinality(Users(b)) + (IF stage[b] \in TargetStages THEN 1 ELSE 0)
    BY <1>1 DEF PinsBalanced
  <2> QED  BY <2>1, <2>2, <2>3, <2>4
<1> QED  BY <1>3, <1>4, <1>5, <1>6 DEF IInv

(* A pair leaves the detector's hands.                                     *)
LEMMA EmitIInv ==
    ASSUME IInv, NEW d \in Detectors, Emit(d)
    PROVE  IInv'
<1> USE DEF Emit, MoveTo, At
<1>1. TypeOK /\ Hands /\ Lock /\ Known /\ Listed /\ PinnedResident /\ PinsBalanced
  BY DEF IInv
<1> DEFINE x == work[d]
<1>2. /\ x \in Images /\ stage[x] = "matched" /\ stage'[x] = "dedup"
      /\ \A y \in Images : y # x => stage'[y] = stage[y]
      /\ x \in resident /\ best[x] \in resident /\ best[x] # None
  BY <1>1 DEF TypeOK, PinnedResident, TargetStages, BaseStages, Known, Paired
<1>3. TypeOK'
  BY <1>1, <1>2 DEF TypeOK, Stages
<1>4. Hands' /\ Lock'
  BY <1>1, HandsAndLock
<1>5. SpaceAccounted' /\ Known' /\ Listed' /\ PinnedResident' /\ ResidentCharged'
  <2>1. \A e \in Detectors : /\ work'[e] # work[e] => {work[e], work'[e]} \subseteq {None, x}
                             /\ work'[e] \in Images \cup {None}
    BY <1>1 DEF TypeOK
  <2> QED  BY <2>1, <1>2, StageMove DEF Unlisted, Paired, BaseStages
<1>6. PinsBalanced'
  BY <1>1, <1>2, SamePins DEF Users, BaseStages, TargetStages
<1> QED  BY <1>3, <1>4, <1>5, <1>6 DEF IInv

(* An image without a match gives its own pin up, which nobody else holds. *)
LEMMA UnpinIInv ==
    ASSUME IInv, NEW d \in Detectors, Unpin(d)
    PROVE  IInv'
<1> USE DEF Unpin, MoveTo, At
<1>1. TypeOK /\ Hands /\ Lock /\ Known /\ Listed /\ PinnedResident /\ PinsBalanced
  BY DEF IInv
<1> DEFINE x == work[d]
<1>2. /\ x \in Images /\ stage[x] = "unpin" /\ stage'[x] = "write"
      /\ \A y \in Images : y # x => stage'[y] = stage[y]
  BY <1>1 DEF TypeOK
<1>3. link[x] = Cardinality(Users(x)) + 1 /\ Cardinality(Users(x)) \in Nat
  BY <1>1, <1>2, UsersFacts DEF PinsBalanced, TargetStages
<1>4. link'[x] = Cardinality(Users(x)) /\ \A y \in Images : y # x => link'[y] = link[y]
  BY <1>1, <1>2, <1>3 DEF TypeOK
<1>5. TypeOK'
  <2>1. link' \in [Images -> Nat]
    BY <1>1, <1>2, <1>3, <1>4 DEF TypeOK
  <2> QED  BY <2>1, <1>1, <1>2 DEF TypeOK, Stages
<1>6. Hands' /\ Lock'
  BY <1>1, HandsAndLock DEF InHand
<1>7. SpaceAccounted' /\ Known' /\ Listed' /\ PinnedResident' /\ ResidentCharged'
  <2>1. \A e \in Detectors : work'[e] = work[e] /\ work'[e] \in Images \cup {None}
    BY <1>1 DEF TypeOK
  <2> QED  BY <2>1, <1>2, StageMove DEF Unlisted, Paired, BaseStages, TargetStages
<1>8. PinsBalanced'
  <2> SUFFICES ASSUME NEW b \in Images
               PROVE  link'[b] = Cardinality(Users(b)')
                                 + (IF stage'[b] \in TargetStages THEN 1 ELSE 0)
    BY DEF PinsBalanced
  <2>1. Users(b)' = Users(b)
    BY <1>2 DEF Users, BaseStages
  <2>2. CASE b = x
    BY <2>1, <2>2, <1>2, <1>3, <1>4 DEF TargetStages
  <2>3. CASE b # x
    BY <2>1, <2>3, <1>1, <1>2, <1>4 DEF PinsBalanced
  <2> QED  BY <2>2, <2>3
<1> QED  BY <1>5, <1>6, <1>7, <1>8 DEF IInv

(* An image is stored raw.                                                 *)
LEMMA WriteRawIInv ==
    ASSUME IInv, NEW d \in Detectors, WriteRaw(d)
    PROVE  IInv'
<1> USE DEF WriteRaw, MoveTo, At
<1>1. TypeOK /\ Hands /\ Lock /\ Known /\ Listed /\ PinnedResident /\ PinsBalanced
  BY DEF IInv
<1> DEFINE x == work[d]
<1>2. /\ x \in Images /\ stage[x] = "write" /\ stage'[x] = "raw"
      /\ \A y \in Images : y # x => stage'[y] = stage[y]
  BY <1>1 DEF TypeOK
<1>3. TypeOK'
  BY <1>1, <1>2 DEF TypeOK, Stages
<1>4. Hands' /\ Lock'
  BY <1>1, HandsAndLock
<1>5. SpaceAccounted' /\ Known' /\ Listed' /\ PinnedResident' /\ ResidentCharged'
  <2>1. \A e \in Detectors : /\ work'[e] # work[e] => {work[e], work'[e]} \subseteq {None, x}
                             /\ work'[e] \in Images \cup {None}
    BY <1>1 DEF TypeOK
  <2> QED  BY <2>1, <1>2, StageMove DEF Unlisted, Paired, BaseStages, TargetStages
<1>6. PinsBalanced'
  BY <1>1, <1>2, SamePins DEF Users, BaseStages, TargetStages
<1> QED  BY <1>3, <1>4, <1>5, <1>6 DEF IInv

(* What a step outside the detectors' hands keeps of Hands and Lock.       *)
LEMMA OutOfHand ==
    ASSUME TypeOK, Hands, Lock, NEW x \in Images, stage[x] \notin InHand,
           work' = work, owner' = owner,
           \A y \in Images : y # x => stage'[y] = stage[y]
    PROVE  Hands' /\ Lock'
<1>1. \A e \in Detectors : work[e] # None => work[e] \in Images /\ work[e] # x
  BY DEF TypeOK, Hands
<1>2. \A e \in Detectors : work[e] # None => stage'[work[e]] = stage[work[e]]
  BY <1>1
<1> QED  BY <1>2 DEF Hands, Lock

(* A base is given up: one user less, one pin less.                        *)
LEMMA DedupIInv ==
    ASSUME IInv, NEW x \in Images, Dedup(x)
    PROVE  IInv'
<1> USE DEF Dedup, MoveTo
<1>1. TypeOK /\ Hands /\ Lock /\ Known /\ Listed /\ PinnedResident /\ PinsBalanced
  BY DEF IInv
<1>2. /\ stage[x] = "dedup" /\ stage'[x] = "rejpeg"
      /\ \A y \in Images : y # x => stage'[y] = stage[y]
      /\ x \in resident /\ best[x] # None /\ best[x] \in Images
  BY <1>1 DEF TypeOK, Known, Paired, PinnedResident, TargetStages
<1>3. \A b \in Images :
         /\ Cardinality(Users(b)') \in Nat
         /\ link[b] = Cardinality(Users(b)') + (IF best[x] = b THEN 1 ELSE 0)
                                             + (IF stage[b] \in TargetStages THEN 1 ELSE 0)
  <2> TAKE b \in Images
  <2>1. /\ Cardinality(Users(b)') \in Nat
        /\ Cardinality(Users(b)) = Cardinality(Users(b)') + (IF best[x] = b THEN 1 ELSE 0)
    BY <1>1, <1>2, UserLeaves DEF UserStages
  <2>2. link[b] = Cardinality(Users(b)) + (IF stage[b] \in TargetStages THEN 1 ELSE 0)
    BY <1>1 DEF PinsBalanced
  <2> QED  BY <2>1, <2>2
<1>4. /\ \A b \in Images : link'[b] = link[b] - (IF best[x] = b THEN 1 ELSE 0)
      /\ link' = [b \in Images |-> link'[b]]
  <2>1. link \in [Images -> Nat] /\ link' = [link EXCEPT ![best[x]] = @ - 1]
    BY <1>1 DEF TypeOK
  <2>2. ASSUME NEW b \in Images
        PROVE  link'[b] = link[b] - (IF best[x] = b THEN 1 ELSE 0)
    <3>1. CASE best[x] = b
      BY <2>1, <3>1
    <3>2. CASE best[x] # b
      <4>1. link'[b] = link[b] /\ link[b] \in Nat
        BY <2>1, <3>2
      <4> QED  BY <4>1, <3>2
    <3> QED  BY <3>1, <3>2
  <2>3. link' = [b \in Images |-> link'[b]]
    BY <2>1
  <2> QED  BY <2>2, <2>3
<1>5. \A b \in Images : link'[b] = Cardinality(Users(b)')
                                   + (IF stage[b] \in TargetStages THEN 1 ELSE 0)
  <2> TAKE b \in Images
  <2> QED  BY <1>3, <1>4
<1>6. TypeOK'
  <2>1. link' \in [Images -> Nat]
    <3>1. \A b \in Images : link'[b] \in Nat
      BY <1>3, <1>5
    <3> QED  BY <3>1, <1>4
  <2> QED  BY <2>1, <1>1, <1>2 DEF TypeOK, Stages
<1>7. Hands' /\ Lock'
  BY <1>1, <1>2, OutOfHand DEF InHand
<1>8. SpaceAccounted' /\ Known' /\ Listed' /\ PinnedResident' /\ ResidentCharged'
  <2>1. \A e \in Detectors : work'[e] = work[e] /\ work'[e] \in Images \cup {None}
    BY <1>1 DEF TypeOK
  <2> QED  BY <2>1, <1>2, StageMove DEF Unlisted, Paired, BaseStages
<1>9. PinsBalanced'
  BY <1>2, <1>5 DEF PinsBalanced, TargetStages
<1> QED  BY <1>6, <1>7, <1>8, <1>9 DEF IInv

(* A target is given up by the last stage that reads its pixels.           *)
LEMMA RejpegIInv ==
    ASSUME IInv, NEW x \in Images, Rejpeg(x)
    PROVE  IInv'
<1> USE DEF Rejpeg, MoveTo
<1>1. TypeOK /\ Hands /\ Lock /\ Known /\ Listed /\ PinnedResident /\ PinsBalanced
  BY DEF IInv
<1>2. /\ stage[x] = "rejpeg" /\ stage'[x] = "delta"
      /\ \A y \in Images : y # x => stage'[y] = stage[y]
      /\ best[x] # None
  BY <1>1 DEF TypeOK, Known, Paired
<1>3. link[x] = Cardinality(Users(x)) + 1 /\ Cardinality(Users(x)) \in Nat
  BY <1>1, <1>2, UsersFacts DEF PinsBalanced, TargetStages
<1>4. link'[x] = Cardinality(Users(x)) /\ \A y \in Images : y # x => link'[y] = link[y]
  BY <1>1, <1>2, <1>3 DEF TypeOK
<1>5. TypeOK'
  <2>1. link' \in [Images -> Nat]
    BY <1>1, <1>2, <1>3, <1>4 DEF TypeOK
  <2> QED  BY <2>1, <1>1, <1>2 DEF TypeOK, Stages
<1>6. Hands' /\ Lock'
  BY <1>1, <1>2, OutOfHand DEF InHand
<1>7. SpaceAccounted' /\ Known' /\ Listed' /\ PinnedResident' /\ ResidentCharged'
  <2>1. \A e \in Detectors : work'[e] = work[e] /\ work'[e] \in Images \cup {None}
    BY <1>1 DEF TypeOK
  <2> QED  BY <2>1, <1>2, StageMove DEF Unlisted, Paired, BaseStages, TargetStages
<1>8. PinsBalanced'
  <2> SUFFICES ASSUME NEW b \in Images
               PROVE  link'[b] = Cardinality(Users(b)')
                                 + (IF stage'[b] \in TargetStages THEN 1 ELSE 0)
    BY DEF PinsBalanced
  <2>1. Users(b)' = Users(b)
    BY <1>2 DEF Users, BaseStages
  <2>2. CASE b = x
    BY <2>1, <2>2, <1>2, <1>3, <1>4 DEF TargetStages
  <2>3. CASE b # x
    BY <2>1, <2>3, <1>1, <1>2, <1>4 DEF PinsBalanced
  <2> QED  BY <2>2, <2>3
<1> QED  BY <1>5, <1>6, <1>7, <1>8 DEF IInv

(* One turn over the tables: the node is added behind the nodes that were  *)
(* there, and what it found among them is in the buffer already.           *)
LEMMA LookIInv ==
    ASSUME IInv, NEW d \in Detectors, Look(d)
    PROVE  IInv'
<1> DEFINE x == work[d]
           i == tab[x]
<1>1. TypeOK /\ SpaceAccounted /\ Hands /\ Lock /\ Known /\ Listed
      /\ PinnedResident /\ PinsBalanced /\ ResidentCharged
  BY DEF IInv
<1>2. /\ x \in Images /\ stage[x] = "look" /\ x # None
      /\ i \in 1 .. SfNum
      /\ tables' = [tables EXCEPT ![i] = Append(@, x)]
      /\ tab' = [tab EXCEPT ![x] = i + 1]
      /\ UNCHANGED <<stage, work, lru, free, owner, link, resident, crashed>>
  <2>1. x \in Images /\ i \in 1 .. SfNum + 1 /\ i <= SfNum
    BY <1>1 DEF TypeOK, Look, At
  <2> QED  BY <2>1, FeaturesAssumption DEF Look, At
<1>3. /\ best' \in [Images -> Images \cup {None}]
      /\ \A y \in Images : y # x => best'[y] = best[y]
      /\ best'[x] # best[x] => best'[x] \in Range(tables[i])
  <2>1. best' = [best EXCEPT ![x] = IF Better(x, i) = {} THEN @
                                    ELSE tables[i][CHOOSE j \in Better(x, i) : TRUE]]
    BY DEF Look
  <2>2. CASE Better(x, i) = {}
    <3>1. best' = best
      BY <2>1, <2>2, <1>1 DEF TypeOK
    <3> QED  BY <3>1, <1>1 DEF TypeOK
  <2>3. CASE Better(x, i) # {}
    <3> DEFINE j == CHOOSE j \in Better(x, i) : TRUE
    <3>1. j \in Better(x, i)
      BY <2>3
    <3>2. j \in DOMAIN tables[i]
      BY <3>1 DEF Better, Bucket
    <3>3. tables[i] \in Seq(Images)
      BY <1>1, <1>2 DEF TypeOK
    <3>4. tables[i][j] \in Range(tables[i]) /\ Range(tables[i]) \in SUBSET Images
      BY <3>2, <3>3, RangeOfSeq DEF Range
    <3>5. best' = [best EXCEPT ![x] = tables[i][j]]
      BY <2>1, <2>3
    <3>6. PICK y \in Range(tables[i]) : y \in Images /\ best' = [best EXCEPT ![x] = y]
      BY <3>4, <3>5
    <3>7. best \in [Images -> Images \cup {None}]
      BY <1>1 DEF TypeOK
    <3> HIDE DEF x, i, j
    <3> QED  BY <3>6, <3>7
  <2> QED  BY <2>2, <2>3
<1>4. /\ \A k \in 1 .. SfNum : k # i => tables'[k] = tables[k]
      /\ tables'[i] \in Seq(Images)
      /\ Range(tables'[i]) = Range(tables[i]) \cup {x}
  <2>1. tables[i] \in Seq(Images)
    BY <1>1, <1>2 DEF TypeOK
  <2>2. tables'[i] = Append(tables[i], x)
    BY <1>1, <1>2 DEF TypeOK
  <2> QED  BY <2>1, <2>2, <1>1, <1>2, RangeAppend, AppendProperties DEF TypeOK
<1>5. TypeOK'
  <2>1. tables' \in [1 .. SfNum -> Seq(Images)]
    BY <1>1, <1>2, <1>4 DEF TypeOK
  <2>2. tab' \in [Images -> 1 .. SfNum + 1]
    <3>1. i + 1 \in 1 .. SfNum + 1
      BY <1>2, FeaturesAssumption
    <3> QED  BY <3>1, <1>1, <1>2 DEF TypeOK
  <2> QED  BY <2>1, <2>2, <1>1, <1>2, <1>3 DEF TypeOK
<1>6. SpaceAccounted' /\ Hands' /\ Lock'
  BY <1>1, <1>2 DEF SpaceAccounted, Hands, Lock
<1>7. Known'
  <2>1. \A y \in Images : best'[y] # None => stage[best'[y]] \notin Unlisted
    BY <1>1, <1>2, <1>3 DEF Known
  <2>2. \A k \in 1 .. SfNum : \A y \in Range(tables'[k]) : stage[y] \notin Unlisted
    BY <1>1, <1>2, <1>4 DEF Known, Unlisted
  <2>3. \A y \in Images : stage[y] \in Paired => best'[y] # None
    BY <1>1, <1>2, <1>3 DEF Known, Paired
  <2> QED  BY <2>1, <2>2, <2>3, <1>2 DEF Known
<1>8. \A e \in Detectors : work[e] # None /\ stage[work[e]] = "reloading"
                              => work[e] \in Images /\ best'[work[e]] = best[work[e]]
  BY <1>1, <1>2, <1>3 DEF TypeOK
<1>9. Listed'
  BY <1>1, <1>2, <1>8 DEF Listed
<1>10. PinnedResident'
  BY <1>1, <1>2, <1>3 DEF PinnedResident, BaseStages
<1>11. PinsBalanced'
  <2>1. \A b \in Images : Users(b)' = Users(b)
    BY <1>2, <1>3 DEF Users, BaseStages
  <2> QED  BY <2>1, <1>1, <1>2, SamePins
<1>12. ResidentCharged'
  <2> SUFFICES ASSUME NEW y \in resident, y \notin Range(lru), stage[y] \notin Unlisted
               PROVE  \E e \in Detectors : /\ work[e] # None
                                          /\ stage[work[e]] = "reloading"
                                          /\ best'[work[e]] = y
    BY <1>2 DEF ResidentCharged, Unlisted
  <2>1. PICK e \in Detectors : /\ work[e] # None
                               /\ stage[work[e]] = "reloading"
                               /\ best[work[e]] = y
    BY <1>1 DEF ResidentCharged, Unlisted
  <2> QED  BY <2>1, <1>8
<1> QED  BY <1>5, <1>6, <1>7, <1>9, <1>10, <1>11, <1>12 DEF IInv

-----------------------------------------------------------------------------
(* Nobody reloads while the buffer is free or held for another purpose.    *)
LEMMA NoReload ==
    ASSUME Lock, \/ owner = None
                 \/ \E d \in Detectors : owner = d /\ stage[work[d]] # "reloading"
    PROVE  \A e \in Detectors : ~(work[e] # None /\ stage[work[e]] = "reloading")
BY DetectorsAssumption DEF Lock

(* A list that gains a node it did not have, and has room for, stays right.*)
LEMMA Appended ==
    ASSUME TypeOK, SpaceAccounted, Distinct(lru), NEW y \in Images,
           y \notin Range(lru), free >= Size[y],
           lru' = Append(lru, y), free' = free - Size[y]
    PROVE  /\ lru' \in Seq(Images) /\ free' \in 0 .. BufferSize
           /\ SpaceAccounted' /\ Distinct(lru') /\ Range(lru') = Range(lru) \cup {y}
<1>1. lru \in Seq(Images)
  BY DEF TypeOK
<1>2. lru' \in Seq(Images) /\ Range(lru') = Range(lru) \cup {y} /\ Distinct(lru')
  BY <1>1, AppendProperties, RangeAppend, DistinctAppend
<1>3. /\ Range(lru) \in SUBSET Images
      /\ Bytes(Range(lru), Size) \in Nat /\ free \in Nat
      /\ Size[y] \in Nat /\ BufferSize \in Nat
  BY FreeSpace, NodeSizes
<1>4. Bytes(Range(lru) \cup {y}, Size) = Bytes(Range(lru), Size) + Size[y]
  <2>1. /\ IsFiniteSet(Images) /\ Size \in [Images -> Nat]
        /\ \A z \in Images : Size[z] <= BufferSize
    BY NodeSizes
  <2>2. y \in Images \ Range(lru)
    OBVIOUS
  <2> DEFINE R == Range(lru)
  <2>3. R \in SUBSET Images /\ y \in Images \ R /\ BufferSize \in Nat
    BY <1>3, <2>2
  <2> HIDE DEF R
  <2>4. Bytes(R \cup {y}, Size) = Bytes(R, Size) + Size[y]
    BY <2>1, <2>3, BytesAdd
  <2> QED  BY <2>4 DEF R
<1> DEFINE n == Bytes(Range(lru), Size)
           m == Size[y]
<1>5. n \in Nat /\ m \in Nat /\ free + n = BufferSize /\ free >= m
  BY <1>3 DEF SpaceAccounted
<1> HIDE DEF n, m
<1>6. (free - m) + (n + m) = BufferSize /\ free - m \in 0 .. BufferSize
  BY <1>3, <1>5, BudgetKept
<1> USE DEF n, m
<1> QED  BY <1>2, <1>4, <1>6 DEF SpaceAccounted

(* A node that waited for room goes into the list.                         *)
LEMMA InsertIInv ==
    ASSUME IInv, NEW d \in Detectors, Insert(d)
    PROVE  IInv'
<1> USE DEF Insert, MoveTo, At
<1>1. TypeOK /\ SpaceAccounted /\ Hands /\ Lock /\ Known /\ Listed
      /\ PinnedResident /\ PinsBalanced /\ ResidentCharged
  BY DEF IInv
<1> DEFINE x == work[d]
<1>2. /\ x \in Images /\ stage[x] = "inserting" /\ stage'[x] = "look"
      /\ \A y \in Images : y # x => stage'[y] = stage[y]
      /\ x \notin Range(lru) /\ x \in resident /\ owner = d
  BY <1>1 DEF TypeOK, Listed, Unlisted, Lock
<1>3. /\ lru' \in Seq(Images) /\ free' \in 0 .. BufferSize
      /\ SpaceAccounted' /\ Distinct(lru') /\ Range(lru') = Range(lru) \cup {x}
  BY <1>1, <1>2, Appended DEF Listed
<1>4. \A e \in Detectors : ~(work[e] # None /\ stage[work[e]] = "reloading")
  BY <1>1, <1>2, NoReload
<1>5. TypeOK'
  BY <1>1, <1>2, <1>3 DEF TypeOK, Stages
<1>6. Hands' /\ Lock'
  BY <1>1, <1>2, HandsAndLock DEF InHand
<1>7. \A y \in Images : stage'[y] \in Unlisted => stage[y] \in Unlisted
  BY <1>2 DEF Unlisted
<1>8. Known'
  <2>1. \A i \in 1 .. SfNum : Range(tables[i]) \in SUBSET Images
    BY <1>1, RangeOfSeq DEF TypeOK
  <2>2. \A i \in 1 .. SfNum : \A y \in Range(tables[i]) : stage'[y] \notin Unlisted
    BY <2>1, <1>1, <1>7 DEF Known
  <2>3. \A y \in Images : best[y] # None => stage'[best[y]] \notin Unlisted
    BY <1>1, <1>7 DEF Known, TypeOK
  <2>4. \A y \in Images : stage'[y] \in Paired => best[y] # None
    BY <1>1, <1>2 DEF Known, Paired
  <2> QED  BY <2>2, <2>3, <2>4 DEF Known
<1>9. Listed'
  <2>1. \A y \in Range(lru') : stage'[y] \notin Unlisted
    BY <1>1, <1>2, <1>3, <1>7, FreeSpace DEF Listed, Unlisted
  <2>2. \A e \in Detectors : ~(work[e] # None /\ stage'[work[e]] = "reloading")
    BY <1>1, <1>2, <1>4 DEF TypeOK
  <2> QED  BY <2>1, <2>2, <1>1, <1>2, <1>3, <1>7 DEF Listed
<1>10. PinnedResident'
  BY <1>1, <1>2 DEF PinnedResident, TargetStages, BaseStages
<1>11. PinsBalanced'
  BY <1>1, <1>2, SamePins DEF Users, BaseStages, TargetStages
<1>12. ResidentCharged'
  <2> SUFFICES ASSUME NEW y \in resident, y \notin Range(lru')
               PROVE  stage'[y] \in {"decoded", "insert", "inserting"}
    BY DEF ResidentCharged
  <2>1. y # x /\ y \notin Range(lru) /\ y \in Images
    BY <1>1, <1>3 DEF TypeOK
  <2>2. stage[y] \in {"decoded", "insert", "inserting"}
    BY <2>1, <1>1, <1>4 DEF ResidentCharged
  <2> QED  BY <2>1, <2>2, <1>2
<1> QED  BY <1>3, <1>5, <1>6, <1>8, <1>9, <1>10, <1>11, <1>12 DEF IInv

(* A reloaded base goes into the list.                                     *)
LEMMA ReloadIInv ==
    ASSUME IInv, NEW d \in Detectors, Reload(d)
    PROVE  IInv'
<1> USE DEF Reload, MoveTo, At
<1>1. TypeOK /\ SpaceAccounted /\ Hands /\ Lock /\ Known /\ Listed
      /\ PinnedResident /\ PinsBalanced /\ ResidentCharged
  BY DEF IInv
<1> DEFINE x == work[d]
           b == best[x]
<1>2. /\ x \in Images /\ stage[x] = "reloading" /\ stage'[x] = "matched"
      /\ \A y \in Images : y # x => stage'[y] = stage[y]
      /\ b # None /\ b \in Images /\ b \notin Range(lru)
      /\ b \in resident /\ x \in resident /\ owner = d
  BY <1>1 DEF TypeOK, Listed, Lock, Known, Paired, PinnedResident, BaseStages, TargetStages
<1>3. /\ lru' \in Seq(Images) /\ free' \in 0 .. BufferSize
      /\ SpaceAccounted' /\ Distinct(lru') /\ Range(lru') = Range(lru) \cup {b}
  BY <1>1, <1>2, Appended DEF Listed
<1>4. \A e \in Detectors : e # d => ~(work[e] # None /\ stage[work[e]] = "reloading")
  BY <1>1, <1>2, DetectorsAssumption DEF Lock
<1>5. TypeOK'
  BY <1>1, <1>2, <1>3 DEF TypeOK, Stages
<1>6. Hands' /\ Lock'
  BY <1>1, <1>2, HandsAndLock DEF InHand
<1>7. \A y \in Images : stage'[y] \in Unlisted <=> stage[y] \in Unlisted
  BY <1>2 DEF Unlisted
<1>8. Known'
  <2>1. \A i \in 1 .. SfNum : Range(tables[i]) \in SUBSET Images
    BY <1>1, RangeOfSeq DEF TypeOK
  <2>2. \A i \in 1 .. SfNum : \A y \in Range(tables[i]) : stage'[y] \notin Unlisted
    BY <2>1, <1>1, <1>7 DEF Known
  <2>3. \A y \in Images : best[y] # None => stage'[best[y]] \notin Unlisted
    BY <1>1, <1>7 DEF Known, TypeOK
  <2>4. \A y \in Images : stage'[y] \in Paired => best[y] # None
    BY <1>1, <1>2 DEF Known, Paired
  <2> QED  BY <2>2, <2>3, <2>4 DEF Known
<1>9. Listed'
  <2>1. \A y \in Range(lru') : stage'[y] \notin Unlisted
    <3>1. stage[b] \notin Unlisted
      BY <1>1, <1>2 DEF Known
    <3> QED  BY <3>1, <1>1, <1>2, <1>3, <1>7, FreeSpace DEF Listed
  <2>2. \A e \in Detectors : ~(work[e] # None /\ stage'[work[e]] = "reloading")
    BY <1>1, <1>2, <1>4 DEF TypeOK
  <2> QED  BY <2>1, <2>2, <1>1, <1>2, <1>3, <1>7 DEF Listed
<1>10. PinnedResident'
  BY <1>1, <1>2 DEF PinnedResident, TargetStages, BaseStages
<1>11. PinsBalanced'
  BY <1>1, <1>2, SamePins DEF Users, BaseStages, TargetStages
<1>12. ResidentCharged'
  <2> SUFFICES ASSUME NEW y \in resident, y \notin Range(lru')
               PROVE  stage'[y] \in {"decoded", "insert", "inserting"}
    BY DEF ResidentCharged
  <2>1. y # b /\ y \notin Range(lru) /\ y \in Images
    BY <1>1, <1>3 DEF TypeOK
  <2>2. stage[y] \in {"decoded", "insert", "inserting"}
    BY <2>1, <1>1, <1>4 DEF ResidentCharged
  <2> QED  BY <2>1, <2>2, <1>2
<1> QED  BY <1>3, <1>5, <1>6, <1>8, <1>9, <1>10, <1>11, <1>12 DEF IInv

(* A base that has its pixels is in the list, and stays in it.             *)
LEMMA TouchIInv ==
    ASSUME IInv, NEW d \in Detectors, Touch(d)
    PROVE  IInv'
<1> DEFINE x == work[d]
           b == best[x]
<1>1. TypeOK /\ SpaceAccounted /\ Hands /\ Lock /\ Known /\ Listed
      /\ PinnedResident /\ PinsBalanced /\ ResidentCharged
  BY DEF IInv
<1>2. /\ x \in Images /\ stage[x] = "move" /\ stage'[x] = "matched"
      /\ stage' = [stage EXCEPT ![x] = "matched"]
      /\ \A y \in Images : y # x => stage'[y] = stage[y]
      /\ b # None /\ b \in Images /\ b \in resident /\ x \in resident
      /\ owner = None /\ work[d] # None
      /\ UNCHANGED <<work, tab, best, tables, free, owner, link, resident, crashed>>
  BY <1>1 DEF Touch, MoveTo, At, TypeOK, Known, Paired, PinnedResident, TargetStages
<1>3. \A e \in Detectors : ~(work[e] # None /\ stage[work[e]] = "reloading")
  BY <1>1, <1>2, NoReload
<1>4. lru' \in Seq(Images) /\ Range(lru') = Range(lru) /\ Distinct(lru')
  <2>1. lru \in Seq(Images) /\ DOMAIN lru = 1 .. Len(lru)
    BY <1>1, LenProperties DEF TypeOK
  <2>2. stage[b] \notin {"decoded", "insert", "inserting"}
    BY <1>1, <1>2 DEF Known, Unlisted
  <2>3. b \in Range(lru)
    BY <1>1, <1>2, <1>3, <2>2 DEF ResidentCharged
  <2> DEFINE k == CHOOSE i \in DOMAIN lru : lru[i] = b
  <2>4. k \in 1 .. Len(lru) /\ lru[k] = b
    <3>1. \E i \in DOMAIN lru : lru[i] = b
      BY <2>3 DEF Range
    <3> QED  BY <2>1, <3>1
  <2>5. lru' = [i \in DOMAIN lru |-> IF i < k THEN lru[i]
                                     ELSE IF i < Len(lru) THEN lru[i + 1] ELSE b]
    BY DEF Touch, ToTail
  <2> HIDE DEF k
  <2>6. /\ lru' \in [1 .. Len(lru) -> Images]
        /\ \A i \in 1 .. Len(lru) : lru'[i] = IF i < k THEN lru[i]
                                              ELSE IF i < Len(lru) THEN lru[i + 1] ELSE lru[k]
    <3>1. \A i \in 1 .. Len(lru) : lru[i] \in Images
      BY <2>1, ElementOfSeq
    <3>2. Len(lru) \in Nat
      BY <2>1, LenProperties
    <3> HIDE DEF b
    <3> QED  BY <2>1, <2>4, <2>5, <3>1, <3>2
  <2>7. Distinct(lru)
    BY <1>1 DEF Listed
  <2> QED  BY <2>1, <2>4, <2>6, <2>7, MovedToTail
<1>5. TypeOK'
  BY <1>1, <1>2, <1>4 DEF TypeOK, Stages
<1>6. Hands' /\ Lock'
  BY <1>1, <1>2, HandsAndLock DEF InHand
<1>7. \A y \in Images : stage'[y] \in Unlisted <=> stage[y] \in Unlisted
  BY <1>2 DEF Unlisted
<1>8. SpaceAccounted'
  BY <1>1, <1>2, <1>4 DEF SpaceAccounted
<1>9. Known'
  <2>1. \A i \in 1 .. SfNum : Range(tables[i]) \in SUBSET Images
    BY <1>1, RangeOfSeq DEF TypeOK
  <2>2. \A i \in 1 .. SfNum : \A y \in Range(tables[i]) : stage'[y] \notin Unlisted
    BY <2>1, <1>1, <1>7 DEF Known
  <2>3. \A y \in Images : best[y] # None => stage'[best[y]] \notin Unlisted
    BY <1>1, <1>7 DEF Known, TypeOK
  <2>4. \A y \in Images : stage'[y] \in Paired => best[y] # None
    BY <1>1, <1>2 DEF Known, Paired
  <2> QED  BY <2>2, <2>3, <2>4, <1>2 DEF Known
<1>10. Listed'
  <2>1. \A y \in Range(lru) : stage'[y] \notin Unlisted
    BY <1>1, <1>7, FreeSpace DEF Listed
  <2>2. \A e \in Detectors : ~(work[e] # None /\ stage'[work[e]] = "reloading")
    BY <1>1, <1>2, <1>3 DEF TypeOK
  <2> QED  BY <2>1, <2>2, <1>1, <1>2, <1>4, <1>7 DEF Listed
<1>11. PinnedResident'
  BY <1>1, <1>2 DEF PinnedResident, TargetStages, BaseStages
<1>12. PinsBalanced'
  BY <1>1, <1>2, SamePins DEF Users, BaseStages, TargetStages
<1>13. ResidentCharged'
  <2> SUFFICES ASSUME NEW y \in resident, y \notin Range(lru)
               PROVE  stage'[y] \in {"decoded", "insert", "inserting"}
    BY <1>2, <1>4 DEF ResidentCharged
  <2>1. stage[y] \in {"decoded", "insert", "inserting"} /\ y \in Images
    BY <1>1, <1>3 DEF ResidentCharged, TypeOK
  <2> QED  BY <2>1, <1>2
<1> QED  BY <1>5, <1>6, <1>8, <1>9, <1>10, <1>11, <1>12, <1>13 DEF IInv

(* A base that was evicted is read again, outside the list for the moment. *)
LEMMA BeginReloadIInv ==
    ASSUME IInv, NEW d \in Detectors, BeginReload(d)
    PROVE  IInv'
<1> USE DEF BeginReload, MoveTo, At
<1>1. TypeOK /\ SpaceAccounted /\ Hands /\ Lock /\ Known /\ Listed
      /\ PinnedResident /\ PinsBalanced /\ ResidentCharged
  BY DEF IInv
<1> DEFINE x == work[d]
           b == best[x]
<1>2. /\ x \in Images /\ stage[x] = "move" /\ stage'[x] = "reloading"
      /\ \A y \in Images : y # x => stage'[y] = stage[y]
      /\ b # None /\ b \in Images /\ b \notin resident /\ x \in resident
      /\ b \notin Range(lru) /\ owner = None /\ resident' = resident \cup {b}
  BY <1>1 DEF TypeOK, Listed, Known, Paired, PinnedResident, TargetStages
<1>3. \A e \in Detectors : ~(work[e] # None /\ stage[work[e]] = "reloading")
  BY <1>1, <1>2, NoReload
<1>4. TypeOK'
  BY <1>1, <1>2 DEF TypeOK, Stages
<1>5. Hands' /\ Lock'
  BY <1>1, <1>2, HandsAndLock DEF InHand
<1>6. \A y \in Images : stage'[y] \in Unlisted <=> stage[y] \in Unlisted
  BY <1>2 DEF Unlisted
<1>7. SpaceAccounted'
  BY <1>1 DEF SpaceAccounted
<1>8. Known'
  <2>1. \A i \in 1 .. SfNum : Range(tables[i]) \in SUBSET Images
    BY <1>1, RangeOfSeq DEF TypeOK
  <2>2. \A i \in 1 .. SfNum : \A y \in Range(tables[i]) : stage'[y] \notin Unlisted
    BY <2>1, <1>1, <1>6 DEF Known
  <2>3. \A y \in Images : best[y] # None => stage'[best[y]] \notin Unlisted
    BY <1>1, <1>6 DEF Known, TypeOK
  <2>4. \A y \in Images : stage'[y] \in Paired => best[y] # None
    BY <1>1, <1>2 DEF Known, Paired
  <2> QED  BY <2>2, <2>3, <2>4 DEF Known
<1>9. Listed'
  <2>1. \A y \in Range(lru) : stage'[y] \notin Unlisted
    BY <1>1, <1>6, FreeSpace DEF Listed
  <2>2. \A e \in Detectors : e # d => ~(work[e] # None /\ stage'[work[e]] = "reloading")
    BY <1>1, <1>2, <1>3, InHandFacts DEF TypeOK
  <2>3. \A e \in Detectors : work[e] # None /\ stage'[work[e]] = "reloading"
                                => best[work[e]] \notin Range(lru)
    BY <2>2, <1>2
  <2> QED  BY <2>1, <2>3, <1>1, <1>2, <1>6 DEF Listed
<1>10. PinnedResident'
  BY <1>1, <1>2 DEF PinnedResident, TargetStages, BaseStages
<1>11. PinsBalanced'
  BY <1>1, <1>2, SamePins DEF Users, BaseStages, TargetStages
<1>12. ResidentCharged'
  <2> SUFFICES ASSUME NEW y \in resident', y \notin Range(lru), y # b
               PROVE  stage'[y] \in {"decoded", "insert", "inserting"}
    BY <1>2 DEF ResidentCharged
  <2>1. stage[y] \in {"decoded", "insert", "inserting"} /\ y \in Images
    BY <1>1, <1>2, <1>3 DEF ResidentCharged, TypeOK
  <2> QED  BY <2>1, <1>2
<1> QED  BY <1>4, <1>5, <1>7, <1>8, <1>9, <1>10, <1>11, <1>12 DEF IInv

(* What is evicted has no pin, hence no user and no business of its own;   *)
(* what has one is put at the tail and keeps its pixels.                   *)
LEMMA EvictHeadIInv ==
    ASSUME IInv, NEW d \in Detectors, EvictHead(d)
    PROVE  IInv'
<1> DEFINE h == Head(lru)
<1>1. TypeOK /\ SpaceAccounted /\ Hands /\ Lock /\ Known /\ Listed
      /\ PinnedResident /\ PinsBalanced /\ ResidentCharged
  BY DEF IInv
<1>2. UNCHANGED <<stage, work, tab, best, tables, owner, link, crashed>>
  BY DEF EvictHead
<1>3. Hands' /\ Lock' /\ Known'
  BY <1>1, <1>2 DEF Hands, Lock, Known
<1>4. PinsBalanced'
  BY <1>1, <1>2, SamePins DEF Users
<1>5. lru \in Seq(Images) /\ lru # <<>> /\ Distinct(lru)
  <2>1. Len(lru) > 1
    BY DEF EvictHead
  <2>2. lru # <<>>
    BY <2>1, EmptySeq
  <2> QED  BY <2>2, <1>1 DEF TypeOK, Listed
<1>6. /\ h \in Range(lru) /\ h \in Images /\ Tail(lru) \in Seq(Images)
      /\ Range(Tail(lru)) = Range(lru) \ {h} /\ Distinct(Tail(lru))
  BY <1>1, <1>5, RangeTail, HeadTailProperties, FreeSpace
<1>7. CASE link[h] = 0
  <2>1. /\ lru' = Tail(lru) /\ free' = free + Size[h] /\ resident' = resident \ {h}
    BY <1>7 DEF EvictHead
  <2>2. Users(h) = {} /\ stage[h] \notin TargetStages
    <3>1. IsFiniteSet(Users(h)) /\ Cardinality(Users(h)) \in Nat
      BY <1>1, <1>6, UsersFacts
    <3>2. link[h] = Cardinality(Users(h)) + (IF stage[h] \in TargetStages THEN 1 ELSE 0)
      BY <1>1, <1>6 DEF PinsBalanced
    <3>3. Cardinality(Users(h)) = 0 /\ stage[h] \notin TargetStages
      BY <3>1, <3>2, <1>7
    <3> QED  BY <3>1, <3>3, FS_EmptySet
  <2>3. (free + Size[h]) + Bytes(Range(lru) \ {h}, Size) = BufferSize
        /\ free + Size[h] \in 0 .. BufferSize
    <3> DEFINE R == Range(lru)
               n == Bytes(R \ {h}, Size)
               m == Size[h]
    <3>1. /\ IsFiniteSet(Images) /\ Size \in [Images -> Nat] /\ BufferSize \in Nat
          /\ \A z \in Images : Size[z] <= BufferSize
      BY NodeSizes
    <3>2. R \in SUBSET Images /\ h \in R /\ free \in Nat /\ m \in Nat
      BY <1>1, <1>6, <3>1, FreeSpace
    <3>3. Bytes(R, Size) = n + m /\ n \in Nat
      <4> HIDE DEF R, h
      <4> QED  BY <3>1, <3>2, BytesRemove
    <3>4. free + (n + m) = BufferSize
      BY <3>3, <1>1 DEF SpaceAccounted
    <3> HIDE DEF n, m
    <3>5. (free + m) + n = BufferSize /\ free + m \in 0 .. BufferSize
      BY <3>1, <3>2, <3>3, <3>4, BudgetKept
    <3> USE DEF n, m
    <3> QED  BY <3>5
  <2>4. TypeOK'
    BY <2>1, <2>3, <1>1, <1>2, <1>6 DEF TypeOK
  <2>5. SpaceAccounted'
    BY <2>1, <2>3, <1>6 DEF SpaceAccounted
  <2>6. stage[h] \notin Unlisted
    BY <1>1, <1>6 DEF Listed
  <2>7. Listed'
    BY <2>1, <2>6, <1>1, <1>2, <1>6 DEF Listed
  <2>8. PinnedResident'
    <3> SUFFICES ASSUME NEW y \in Images
                 PROVE  /\ stage[y] \in TargetStages => y \in resident \ {h}
                        /\ stage[y] \in BaseStages => best[y] \in resident \ {h}
      BY <2>1, <1>2 DEF PinnedResident
    <3>1. stage[y] \in TargetStages => y \in resident \ {h}
      BY <2>2, <1>1 DEF PinnedResident
    <3>2. stage[y] \in BaseStages => best[y] \in resident \ {h}
      BY <2>2, <1>1 DEF PinnedResident, Users
    <3> QED  BY <3>1, <3>2
  <2>9. ResidentCharged'
    BY <2>1, <1>1, <1>2, <1>6 DEF ResidentCharged
  <2> QED  BY <2>4, <2>5, <2>7, <2>8, <2>9, <1>3, <1>4 DEF IInv
<1>8. CASE link[h] # 0
  <2>1. lru' = Append(Tail(lru), h) /\ free' = free /\ resident' = resident
    BY <1>8 DEF EvictHead
  <2>2. lru' \in Seq(Images) /\ Range(lru') = Range(lru) /\ Distinct(lru')
    <3>1. h \notin Range(Tail(lru))
      BY <1>6
    <3>2. Range(Append(Tail(lru), h)) = Range(Tail(lru)) \cup {h}
      <4> DEFINE t == Tail(lru)
      <4>1. t \in Seq(Images) /\ h \in Images
        BY <1>6
      <4> HIDE DEF t, h
      <4>2. Range(Append(t, h)) = Range(t) \cup {h}
        BY <4>1, RangeAppend
      <4> QED  BY <4>2 DEF t
    <3>3. Distinct(Append(Tail(lru), h)) /\ Append(Tail(lru), h) \in Seq(Images)
      BY <3>1, <1>6, DistinctAppend, AppendProperties
    <3> QED  BY <2>1, <3>2, <3>3, <1>6
  <2>3. TypeOK'
    BY <2>1, <2>2, <1>1, <1>2 DEF TypeOK
  <2>4. SpaceAccounted' /\ Listed' /\ PinnedResident' /\ ResidentCharged'
    BY <2>1, <2>2, <1>1, <1>2 DEF SpaceAccounted, Listed, PinnedResident, ResidentCharged
  <2> QED  BY <2>3, <2>4, <1>3, <1>4 DEF IInv
<1> QED  BY <1>7, <1>8

(* A crash stops every thread; what it leaves is as right as before.       *)
LEMMA EvictLastIInv ==
    ASSUME IInv, NEW d \in Detectors, EvictLast(d)
    PROVE  IInv'
<1> USE DEF EvictLast
<1>1. TypeOK' /\ SpaceAccounted' /\ Hands' /\ Lock' /\ Known' /\ Listed'
  BY DEF IInv, TypeOK, SpaceAccounted, Hands, Lock, Known, Listed
<1>2. PinnedResident' /\ ResidentCharged'
  BY DEF IInv, PinnedResident, ResidentCharged
<1>3. PinsBalanced'
  BY SamePins DEF IInv, Users
<1> QED  BY <1>1, <1>2, <1>3 DEF IInv

-----------------------------------------------------------------------------
(* Every step of every thread keeps the invariant.                         *)
LEMMA StepIInv == IInv /\ [Next]_vars => IInv'
<1> SUFFICES ASSUME IInv, [Next]_vars PROVE IInv'
  OBVIOUS
<1>1. ASSUME NEW d \in Detectors, NEW x \in Images, Pop(d, x) PROVE IInv'
  BY <1>1, PopIInv
<1>2. ASSUME NEW d \in Detectors, BeginInsert(d) PROVE IInv'
  BY <1>2, BeginInsertIInv
<1>3. ASSUME NEW d \in Detectors, Insert(d) PROVE IInv'
  BY <1>3, InsertIInv
<1>4. ASSUME NEW d \in Detectors, EvictHead(d) PROVE IInv'
  BY <1>4, EvictHeadIInv
<1>5. ASSUME NEW d \in Detectors, EvictLast(d) PROVE IInv'
  BY <1>5, EvictLastIInv
<1>6. ASSUME NEW d \in Detectors, Look(d) PROVE IInv'
  BY <1>6, LookIInv
<1>7. ASSUME NEW d \in Detectors, Looked(d) PROVE IInv'
  BY <1>7, LookedIInv
<1>8. ASSUME NEW d \in Detectors, Pin(d) PROVE IInv'
  BY <1>8, PinIInv
<1>9. ASSUME NEW d \in Detectors, Touch(d) PROVE IInv'
  BY <1>9, TouchIInv
<1>10. ASSUME NEW d \in Detectors, BeginReload(d) PROVE IInv'
  BY <1>10, BeginReloadIInv
<1>11. ASSUME NEW d \in Detectors, Reload(d) PROVE IInv'
  BY <1>11, ReloadIInv
<1>12. ASSUME NEW d \in Detectors, Emit(d) PROVE IInv'
  BY <1>12, EmitIInv
<1>13. ASSUME NEW d \in Detectors, Unpin(d) PROVE IInv'
  BY <1>13, UnpinIInv
<1>14. ASSUME NEW d \in Detectors, WriteRaw(d) PROVE IInv'
  BY <1>14, WriteRawIInv
<1>15. ASSUME NEW x \in Images, Dedup(x) PROVE IInv'
  BY <1>15, DedupIInv
<1>16. ASSUME NEW x \in Images, Rejpeg(x) PROVE IInv'
  BY <1>16, RejpegIInv
<1>17. CASE UNCHANGED vars
  <2>1. TypeOK' /\ SpaceAccounted' /\ Hands' /\ Lock' /\ Known' /\ Listed'
    BY <1>17 DEF vars, IInv, TypeOK, SpaceAccounted, Hands, Lock, Known, Listed
  <2>2. PinnedResident' /\ ResidentCharged'
    BY <1>17 DEF vars, IInv, PinnedResident, ResidentCharged
  <2>3. PinsBalanced'
    BY <1>17, SamePins DEF vars, IInv, Users
  <2> QED  BY <2>1, <2>2, <2>3 DEF IInv
<1> QED
  BY <1>1, <1>2, <1>3, <1>4, <1>5, <1>6, <1>7, <1>8, <1>9, <1>10, <1>11, <1>12,
     <1>13, <1>14, <1>15, <1>16, <1>17 DEF Next, Detect

(* IInv holds throughout.                                                  *)
LEMMA AlwaysIInv == Spec => []IInv
BY InitIInv, StepIInv, PTL DEF Spec

(* Detection keeps its types: link never goes below 0 and free never       *)
(* leaves 0 .. BufferSize, whatever the batch.                             *)
THEOREM DetectionTypeCorrect == Spec => []TypeOK
<1>1. IInv => TypeOK
  BY DEF IInv
<1> QED  BY <1>1, AlwaysIInv, PTL

(* The buffer's free bytes are always those its nodes leave.               *)
THEOREM BufferAccounted == Spec => []SpaceAccounted
<1>1. IInv => SpaceAccounted
  BY DEF IInv
<1> QED  BY <1>1, AlwaysIInv, PTL

(* No stage before the writers ever meets an evicted target or base.       *)
THEOREM PixelsPresent == Spec => []PinnedResident
<1>1. IInv => PinnedResident
  BY DEF IInv
<1> QED  BY <1>1, AlwaysIInv, PTL

(* The pins of a node are always as many as the stages that use it.        *)
THEOREM PinsCounted == Spec => []PinsBalanced
<1>1. IInv => PinsBalanced
  BY DEF IInv
<1> QED  BY <1>1, AlwaysIInv, PTL

(* Pixels outside the list are those of images that wait to enter it and   *)
(* of the one base that is being reloaded.                                 *)
THEOREM PixelsCharged == Spec => []ResidentCharged
<1>1. IInv => ResidentCharged
  BY DEF IInv
<1> QED  BY <1>1, AlwaysIInv, PTL

-----------------------------------------------------------------------------
(* Any two images of the batch fit into the buffer together.               *)
AnyTwoFit == \A x, y \in Images : x # y => Size[x] + Size[y] <= BufferSize

(* Where any two images fit, a list of one node leaves room for another.   *)
LEMMA NoEvictLast ==
    ASSUME AnyTwoFit, IInv, NEW d \in Detectors, EvictLast(d)
    PROVE  FALSE
<1>1. TypeOK /\ SpaceAccounted /\ Known /\ Listed
  BY DEF IInv
<1> DEFINE w == Wanted(d)
<1>2. w \in Images /\ w \notin Range(lru) /\ free < Size[w]
  <2>1. free < Size[w] /\ (At(d, "inserting") \/ At(d, "reloading"))
    BY DEF EvictLast, NeedsRoom
  <2>2. CASE At(d, "inserting")
    <3>1. w = work[d] /\ work[d] \in Images
      BY <2>2, <1>1 DEF Wanted, At, TypeOK
    <3> QED  BY <2>1, <2>2, <3>1, <1>1 DEF Listed, Unlisted, At
  <2>3. CASE At(d, "reloading")
    <3>1. w = best[work[d]] /\ work[d] \in Images
      BY <2>3, <1>1 DEF Wanted, At, TypeOK
    <3> QED  BY <2>1, <2>3, <3>1, <1>1 DEF Listed, Known, Paired, At, TypeOK
  <2> QED  BY <2>1, <2>2, <2>3
<1>3. lru \in Seq(Images) /\ Len(lru) \in Nat /\ Len(lru) <= 1 /\ free \in Nat
  <2>1. lru \in Seq(Images) /\ Len(lru) <= 1
    BY <1>1 DEF EvictLast, TypeOK
  <2> QED  BY <2>1, <1>1, LenProperties, FreeSpace
<1>4. Size[w] \in Nat /\ Size[w] <= BufferSize /\ BufferSize \in Nat
  BY <1>2, NodeSizes
<1> HIDE DEF w
<1>5. Range(lru) = {lru[i] : i \in 1 .. Len(lru)}
  BY <1>3, RangeEquality
<1>6. CASE Len(lru) = 0
  <2>1. Range(lru) = {}
    BY <1>5, <1>6
  <2>2. free = BufferSize
    <3>1. Bytes(Range(lru), Size) = 0
      BY <2>1, BytesEmpty
    <3> QED  BY <3>1, <1>1, <1>3 DEF SpaceAccounted
  <2> QED  BY <2>2, <1>2, <1>3, <1>4
<1>7. CASE Len(lru) = 1
  <2>1. Range(lru) = {lru[1]} /\ lru[1] \in Images
    BY <1>3, <1>5, <1>7, ElementOfSeq
  <2> DEFINE h == lru[1]
  <2>2. h \in Images /\ Size[h] \in Nat /\ h # w
    BY <2>1, <1>2, NodeSizes
  <2>3. Bytes({h}, Size) = Size[h]
    <3>1. Bytes({} \cup {h}, Size) = Bytes({}, Size) + Size[h]
      <4>1. /\ IsFiniteSet(Images) /\ Size \in [Images -> Nat] /\ BufferSize \in Nat
            /\ \A z \in Images : Size[z] <= BufferSize
        BY NodeSizes
      <4>2. {} \in SUBSET Images /\ h \in Images \ {}
        BY <2>2
      <4> HIDE DEF h
      <4> QED  BY <4>1, <4>2, BytesAdd
    <3>2. Bytes({}, Size) = 0 /\ {} \cup {h} = {h}
      BY BytesEmpty
    <3> QED  BY <3>1, <3>2, <2>2
  <2>4. free + Size[h] = BufferSize
    BY <2>1, <2>3, <1>1 DEF SpaceAccounted
  <2>5. Size[h] + Size[w] <= BufferSize
    BY <2>2, <1>2 DEF AnyTwoFit
  <2> DEFINE m == Size[h]
  <2>6. m \in Nat /\ free + m = BufferSize /\ m + Size[w] <= BufferSize
    BY <2>2, <2>4, <2>5
  <2> HIDE DEF m, h
  <2> QED  BY <2>6, <1>2, <1>3, <1>4
<1>8. Len(lru) = 0 \/ Len(lru) = 1
  <2> DEFINE n == Len(lru)
  <2>1. n \in Nat /\ n <= 1
    BY <1>3
  <2> HIDE DEF n
  <2>2. n = 0 \/ n = 1
    BY <2>1
  <2> QED  BY <2>2 DEF n
<1> QED  BY <1>6, <1>7, <1>8

(* A batch of which any two images fit into the buffer together never      *)
(* makes the eviction write through a NULL pointer.                        *)
THEOREM TwoFitNoCrash == ASSUME AnyTwoFit PROVE Spec => []NoCrash
<1>1. Init => NoCrash
  BY DEF Init, NoCrash
<1>2. IInv /\ NoCrash /\ [Next]_vars => NoCrash'
  <2> SUFFICES ASSUME IInv, NoCrash, [Next]_vars PROVE NoCrash'
    OBVIOUS
  <2>1. ASSUME NEW d \in Detectors, EvictLast(d) PROVE FALSE
    BY <2>1, NoEvictLast
  <2> QED
    BY <2>1 DEF Next, Detect, vars, NoCrash, Pop, BeginInsert, Insert, EvictHead, Look,
       Looked, Pin, Touch, BeginReload, Reload, Emit, Unpin, WriteRaw, Dedup, Rejpeg
<1> QED  BY <1>1, <1>2, AlwaysIInv, PTL DEF Spec

-----------------------------------------------------------------------------
(* Detector d is in the loop over the tables.                              *)
Looking(d) == work[d] # None /\ stage[work[d]] = "look"

(* What there is in s is at least as much like x as no image is.           *)
SharesMost(x, y) == Shared(x, best[x]) >= Shared(x, y)

(* With d alone the tables hold the same images in the same order, s,      *)
(* except that the image d looks up is in those it has been to.            *)
SameTables(d, s) ==
    \A i \in 1 .. SfNum :
        tables[i] = IF Looking(d) /\ i < tab[work[d]] THEN Append(s, work[d]) ELSE s

(* s is what has been through all tables, once each. *)
Through(d, s) ==
    /\ s \in Seq(Images) /\ Distinct(s)
    /\ \A x \in Images : x \in Range(s) <=> (stage[x] \notin Unlisted /\ ~(Looking(d) /\ work[d] = x))
    /\ \A x \in Images : stage[x] \in Unlisted => tab[x] = 1 /\ best[x] = None

(* Every image of s has a base before it, the best there is, or none ...   *)
Settled(s) ==
    /\ \A i, j \in 1 .. Len(s) : i < j => SharesMost(s[j], s[i])
    /\ \A j \in 1 .. Len(s) : best[s[j]] # None => \E i \in 1 .. j - 1 : s[i] = best[s[j]]

(* ... and so has the one that is looked up, as far as the tables it has   *)
(* been to can tell.                                                       *)
SoFar(x, s) ==
    /\ best[x] # None => best[x] \in Range(s)
    /\ \A k \in 1 .. tab[x] - 1 : \A i \in 1 .. Len(s) :
           feat[s[i]][k] = feat[x][k] => SharesMost(x, s[i])

Lookups(d, s) ==
    /\ SameTables(d, s)
    /\ Through(d, s)
    /\ Settled(s)
    /\ Looking(d) => SoFar(work[d], s)

(* With a single detector, at every moment. *)
OneByOne == \A d : Detectors = {d} => \E s : Lookups(d, s)

(* Images share a number of features, none with no image.                  *)
LEMMA SharedNumber == \A x, b : Shared(x, b) \in 0 .. SfNum
<1> SUFFICES ASSUME NEW x, NEW b PROVE Shared(x, b) \in 0 .. SfNum
  OBVIOUS
<1> DEFINE Same == {k \in 1 .. SfNum : feat[b][k] = feat[x][k]}
<1>1. SfNum \in Nat /\ IsFiniteSet(1 .. SfNum) /\ Cardinality(1 .. SfNum) = SfNum
  BY FeaturesAssumption, FS_Interval
<1>2. Same \in SUBSET (1 .. SfNum)
  OBVIOUS
<1>3. IsFiniteSet(Same) /\ Cardinality(Same) <= SfNum
  <2> HIDE DEF Same
  <2> QED  BY <1>1, <1>2, FS_Subset
<1>4. Cardinality(Same) \in Nat
  <2> HIDE DEF Same
  <2> QED  BY <1>3, FS_CardinalityType
<1> QED  BY <1>1, <1>3, <1>4 DEF Shared

(* Images with one feature in common do not share none.                    *)
LEMMA SharesOne ==
    ASSUME NEW x, NEW b, Shared(x, b) > 0
    PROVE  \E k \in 1 .. SfNum : feat[b][k] = feat[x][k]
<1> DEFINE Same == {k \in 1 .. SfNum : feat[b][k] = feat[x][k]}
<1>1. Shared(x, b) = 0 \/ Shared(x, b) = Cardinality(Same)
  BY DEF Shared
<1>2. Same = {} => Cardinality(Same) = 0
  <2> HIDE DEF Same
  <2> QED  BY FS_EmptySet
<1> QED  BY <1>1, <1>2

(* If the bucket holds an image that shares more features than the match   *)
(* so far, the lookup finds one.                                           *)
LEMMA BetterFound ==
    ASSUME TypeOK, NEW x \in Images, NEW i \in 1 .. SfNum, NEW j \in Bucket(x, i),
           Shared(x, tables[i][j]) > Shared(x, best[x])
    PROVE  Better(x, i) # {}
<1> DEFINE t == tables[i]
           V == {Shared(x, t[k]) : k \in Bucket(x, i)}
<1>1. t \in Seq(Images) /\ Len(t) \in Nat /\ DOMAIN t = 1 .. Len(t) /\ SfNum \in Nat
  BY LenProperties, FeaturesAssumption DEF TypeOK
<1>2. Bucket(x, i) \subseteq 1 .. Len(t)
  BY <1>1 DEF Bucket
<1>3. V \subseteq 0 .. SfNum /\ V # {}
  BY SharedNumber
<1>4. PICK m \in V : \A v \in V : v <= m
  <2> HIDE DEF V
  <2> QED  BY <1>1, <1>3, Greatest
<1> DEFINE F == {k \in Bucket(x, i) : Shared(x, t[k]) = m}
<1>5. F \subseteq Nat /\ F # {}
  BY <1>1, <1>2, <1>4
<1>6. PICK k \in F : \A l \in F : k <= l
  <2> HIDE DEF F
  <2> QED  BY <1>5, Least
<1>7. Shared(x, t[k]) = m /\ k \in Bucket(x, i)
  OBVIOUS
<1>8. ASSUME NEW l \in Bucket(x, i)
      PROVE  \/ Shared(x, t[l]) < Shared(x, t[k])
             \/ Shared(x, t[l]) = Shared(x, t[k]) /\ k <= l
  <2>1. Shared(x, t[l]) <= m /\ Shared(x, t[l]) \in Nat /\ m \in Nat
    BY <1>3, <1>4, SharedNumber
  <2>2. CASE Shared(x, t[l]) = m
    BY <2>2, <1>6, <1>7
  <2>3. CASE Shared(x, t[l]) # m
    BY <2>1, <2>3, <1>7
  <2> QED  BY <2>2, <2>3
<1>9. Shared(x, t[k]) > Shared(x, best[x])
  <2>1. Shared(x, t[j]) <= m /\ Shared(x, t[j]) \in Nat /\ m \in Nat /\ Shared(x, best[x]) \in Nat
    BY <1>3, <1>4, SharedNumber
  <2> QED  BY <2>1, <1>7
<1>10. k \in Better(x, i)
  BY <1>7, <1>8, <1>9 DEF Better
<1> QED  BY <1>10

(* A step that leaves the tables and the lookups alone.                    *)
LEMMA LookupsStay ==
    ASSUME TypeOK, NEW d \in Detectors, NEW s, Lookups(d, s),
           UNCHANGED <<feat, tab, best, tables>>,
           Looking(d)' <=> Looking(d), Looking(d) => work'[d] = work[d],
           \A x \in Images : stage'[x] \in Unlisted <=> stage[x] \in Unlisted
    PROVE  Lookups(d, s)'
<1>1. \A x, y : SharesMost(x, y)' <=> SharesMost(x, y)
  BY DEF SharesMost, Shared
<1>2. SameTables(d, s)'
  BY DEF Lookups, SameTables
<1>3. Through(d, s)'
  BY DEF Lookups, Through
<1>4. Settled(s)'
  BY <1>1 DEF Lookups, Settled
<1>5. ASSUME Looking(d)' PROVE SoFar(work[d], s)'
  <2>1. work'[d] = work[d] /\ SoFar(work[d], s)
    BY <1>5 DEF Lookups
  <2> QED  BY <2>1, <1>1 DEF SoFar
<1> QED  BY <1>2, <1>3, <1>4, <1>5 DEF Lookups

(* The node is in the buffer: its image has been to no table yet.          *)
LEMMA InsertLookups ==
    ASSUME TypeOK, Hands, NEW d \in Detectors, NEW s, Lookups(d, s), Insert(d)
    PROVE  Lookups(d, s)'
<1> DEFINE x == work[d]
<1>1. /\ x \in Images /\ x # None /\ stage[x] = "inserting"
      /\ stage' = [stage EXCEPT ![x] = "look"]
      /\ UNCHANGED <<feat, work, tab, best, tables>>
      /\ ~Looking(d) /\ Looking(d)'
  BY DEF Insert, At, TypeOK, MoveTo, Looking
<1> HIDE DEF x
<1>2. tab[x] = 1 /\ best[x] = None /\ stage[x] \in Unlisted /\ work[d] = x /\ work'[d] = x
  BY <1>1 DEF Lookups, Through, Unlisted, x
<1>3. \A y \in Images : y # x => stage'[y] = stage[y]
  BY <1>1 DEF TypeOK
<1>4. stage'[x] \notin Unlisted
  BY <1>1 DEF TypeOK, Unlisted
<1>5. SameTables(d, s)'
  <2>1. \A i \in 1 .. SfNum : ~(i < 1)
    OBVIOUS
  <2> QED  BY <2>1, <1>1, <1>2 DEF Lookups, SameTables
<1>6. Through(d, s)'
  <2>1. s \in Seq(Images) /\ Distinct(s) /\ x \notin Range(s)
    BY <1>1, <1>2 DEF Lookups, Through
  <2>2. \A y \in Images : y \in Range(s) <=> (stage'[y] \notin Unlisted /\ ~(work'[d] = y))
    BY <1>1, <1>2, <1>3, <2>1 DEF Lookups, Through
  <2>3. \A y \in Images : stage'[y] \in Unlisted => tab'[y] = 1 /\ best'[y] = None
    BY <1>1, <1>3, <1>4 DEF Lookups, Through
  <2> QED  BY <1>1, <2>1, <2>2, <2>3 DEF Through
<1>7. Settled(s)'
  <2>1. \A y, z : SharesMost(y, z)' <=> SharesMost(y, z)
    BY <1>1 DEF SharesMost, Shared
  <2> QED  BY <2>1, <1>1 DEF Lookups, Settled
<1>8. SoFar(work[d], s)'
  <2>1. tab'[x] = 1 /\ best'[x] = None
    BY <1>1, <1>2
  <2> QED  BY <1>2, <2>1 DEF SoFar
<1> QED  BY <1>5, <1>6, <1>7, <1>8 DEF Lookups

(* What an image is looked up in next are all the images there are.        *)
LEMMA Consulted ==
    ASSUME TypeOK, NEW d \in Detectors, NEW s, Lookups(d, s), Looking(d),
           tab[work[d]] \in 1 .. SfNum
    PROVE  tables[tab[work[d]]] = s
BY DEF Lookups, SameTables

(* One lookup: the best match is still one of s, and of those with a       *)
(* feature in common in the tables up to this one it shares most.          *)
LEMMA LookLookups ==
    ASSUME TypeOK, NEW d \in Detectors, NEW s, Lookups(d, s), Look(d)
    PROVE  Lookups(d, s)'
<1>0. /\ Looking(d) /\ work[d] \in Images /\ tab[work[d]] \in 1 .. SfNum
  BY DEF Look, At, TypeOK, Looking
<1> PICK x \in Images, t \in 1 .. SfNum : x = work[d] /\ t = tab[x]
  BY <1>0
<1>1. /\ Looking(d) /\ x \in Images /\ t \in 1 .. SfNum
      /\ UNCHANGED <<feat, stage, work>>
      /\ tables' = [tables EXCEPT ![t] = Append(@, x)]
      /\ tab' = [tab EXCEPT ![x] = t + 1]
      /\ \A y \in Images : y # x => best'[y] = best[y] /\ tab'[y] = tab[y]
      /\ tab'[x] = t + 1
  BY <1>0 DEF Look, At, TypeOK, Looking
<1>2. tables[t] = s
  BY <1>0, Consulted
<1>3. best'[x] = IF Better(x, t) = {} THEN best[x] ELSE s[CHOOSE j \in Better(x, t) : TRUE]
  BY <1>1, <1>2 DEF Look, TypeOK
<1>4. work[d] = x /\ work'[d] = x /\ Looking(d)' /\ tab[x] = t
  BY <1>1 DEF Looking
<1>5. s \in Seq(Images) /\ Len(s) \in Nat /\ DOMAIN s = 1 .. Len(s) /\ x \notin Range(s)
  BY <1>1, <1>4, LenProperties DEF Lookups, Through
<1>6. \A i \in 1 .. Len(s) : s[i] \in Images /\ s[i] # x /\ s[i] \in Range(s)
  BY <1>5, ElementOfSeq, RangeEquality
<1>7. \A y, b : Shared(y, b)' = Shared(y, b)
  BY <1>1 DEF Shared
<1>8. SfNum \in Nat /\ t \in Nat
  BY <1>1, FeaturesAssumption
<1>9. SameTables(d, s)'
  <2> SUFFICES ASSUME NEW i \in 1 .. SfNum
               PROVE  tables'[i] = IF i < t + 1 THEN Append(s, x) ELSE s
    BY <1>1, <1>4 DEF SameTables
  <2>1. tables[i] = IF i < t THEN Append(s, x) ELSE s
    BY <1>1, <1>4 DEF Lookups, SameTables
  <2>2. tables'[i] = IF i = t THEN Append(tables[i], x) ELSE tables[i]
    BY <1>1 DEF TypeOK
  <2>3. i < t + 1 <=> i < t \/ i = t
    BY <1>8
  <2> QED  BY <2>1, <2>2, <2>3, <1>2
<1>10. Through(d, s)'
  <2>1. stage[x] \notin Unlisted
    BY <1>1, <1>4 DEF Looking, Unlisted
  <2>2. \A y \in Images : stage'[y] \in Unlisted => tab'[y] = 1 /\ best'[y] = None
    BY <1>1, <2>1 DEF Lookups, Through
  <2> QED  BY <1>1, <1>4, <2>2 DEF Lookups, Through
<1>11. Settled(s)'
  <2>1. \A i, j \in 1 .. Len(s) : SharesMost(s[j], s[i])' <=> SharesMost(s[j], s[i])
    BY <1>1, <1>6, <1>7 DEF SharesMost
  <2>2. \A j \in 1 .. Len(s) : best'[s[j]] = best[s[j]]
    BY <1>1, <1>6
  <2> QED  BY <2>1, <2>2 DEF Lookups, Settled
<1>12. /\ best'[x] # None => best'[x] \in Range(s)
       /\ Shared(x, best'[x]) >= Shared(x, best[x])
       /\ \A i \in 1 .. Len(s) : feat[s[i]][t] = feat[x][t] => Shared(x, best'[x]) >= Shared(x, s[i])
  <2>1. \A b : Shared(x, b) \in Nat
    BY SharedNumber
  <2>2. CASE Better(x, t) = {}
    <3>1. best'[x] = best[x]
      BY <2>2, <1>3
    <3>2. ASSUME NEW i \in 1 .. Len(s), feat[s[i]][t] = feat[x][t]
          PROVE  Shared(x, best[x]) >= Shared(x, s[i])
      <4>1. i \in Bucket(x, t)
        BY <3>2, <1>2, <1>5 DEF Bucket
      <4>2. ~(Shared(x, s[i]) > Shared(x, best[x]))
        BY <4>1, <2>2, <1>1, <1>2, BetterFound
      <4> QED  BY <4>2, <2>1
    <3>3. best[x] # None => best[x] \in Range(s)
      BY <1>1, <1>4 DEF Lookups, SoFar
    <3> QED  BY <3>1, <3>2, <3>3, <2>1
  <2>3. CASE Better(x, t) # {}
    <3> DEFINE k == CHOOSE j \in Better(x, t) : TRUE
    <3>1. k \in Better(x, t) /\ best'[x] = s[k]
      BY <2>3, <1>3
    <3> HIDE DEF k
    <3>2. /\ k \in Bucket(x, t)
          /\ Shared(x, s[k]) > Shared(x, best[x])
          /\ \A l \in Bucket(x, t) : Shared(x, s[l]) <= Shared(x, s[k])
      <4>1. /\ k \in Bucket(x, t) /\ Shared(x, s[k]) > Shared(x, best[x])
            /\ \A l \in Bucket(x, t) : \/ Shared(x, s[l]) < Shared(x, s[k])
                                       \/ Shared(x, s[l]) = Shared(x, s[k]) /\ k <= l
        BY <3>1, <1>2 DEF Better
      <4> QED  BY <4>1, <2>1
    <3>3. k \in 1 .. Len(s)
      BY <3>2, <1>2, <1>5 DEF Bucket
    <3>4. \A i \in 1 .. Len(s) : feat[s[i]][t] = feat[x][t] => i \in Bucket(x, t)
      BY <1>2, <1>5 DEF Bucket
    <3> QED  BY <3>1, <3>2, <3>3, <3>4, <1>6, <2>1
  <2> QED  BY <2>2, <2>3
<1>13. SoFar(x, s)'
  <2>1. ASSUME NEW k \in 1 .. t, NEW i \in 1 .. Len(s), feat[s[i]][k] = feat[x][k]
        PROVE  SharesMost(x, s[i])'
    <3>1. Shared(x, best'[x]) \in Nat /\ Shared(x, best[x]) \in Nat /\ Shared(x, s[i]) \in Nat
      BY SharedNumber
    <3>2. CASE k = t
      BY <2>1, <3>2, <1>7, <1>12 DEF SharesMost
    <3>3. CASE k # t
      <4>1. k \in 1 .. t - 1
        BY <3>3, <1>8
      <4>2. Shared(x, best[x]) >= Shared(x, s[i])
        BY <4>1, <2>1, <1>1, <1>4 DEF Lookups, SoFar, SharesMost
      <4>3. Shared(x, best'[x]) >= Shared(x, s[i])
        BY <4>2, <3>1, <1>12
      <4> QED  BY <4>3, <1>7 DEF SharesMost
    <3> QED  BY <3>2, <3>3
  <2>2. tab'[x] - 1 = t
    BY <1>1, <1>8
  <2> QED  BY <2>1, <2>2, <1>1, <1>12 DEF SoFar
<1> QED  BY <1>4, <1>9, <1>10, <1>11, <1>13 DEF Lookups

(* Through all tables: the image joins the others.                         *)
LEMMA LookedLookups ==
    ASSUME TypeOK, NEW d \in Detectors, NEW s, Lookups(d, s), Looked(d)
    PROVE  \E r : Lookups(d, r)'
<1>0. work[d] \in Images
  BY DEF Looked, At, TypeOK
<1> PICK x \in Images : x = work[d]
  BY <1>0
<1> PICK r : r = Append(s, x)
  OBVIOUS
<1>1. /\ Looking(d) /\ x \in Images /\ tab[x] = SfNum + 1
      /\ UNCHANGED <<feat, work, tab, best, tables>>
      /\ ~Looking(d)'
      /\ stage'[x] \notin Unlisted
      /\ \A y \in Images : y # x => stage'[y] = stage[y]
  BY DEF Looked, At, TypeOK, Looking, MoveTo, Unlisted
<1>2. SfNum \in Nat /\ work[d] = x
  BY FeaturesAssumption
<1>3. s \in Seq(Images) /\ Distinct(s) /\ Len(s) \in Nat /\ x \notin Range(s)
  BY <1>1, <1>2, LenProperties DEF Lookups, Through
<1>4. /\ r \in Seq(Images) /\ Len(r) = Len(s) + 1
      /\ \A i \in 1 .. Len(s) : r[i] = s[i]
      /\ r[Len(s) + 1] = x
  BY <1>1, <1>3, AppendProperties
<1>5. Distinct(r) /\ Range(r) = Range(s) \cup {x}
  BY <1>1, <1>3, DistinctAppend, RangeAppend
<1>6. SameTables(d, s) /\ Through(d, s) /\ Settled(s) /\ SoFar(x, s)
  BY <1>1, <1>2 DEF Lookups
<1>7. \A y, z : SharesMost(y, z)' <=> SharesMost(y, z)
  BY <1>1 DEF SharesMost, Shared
<1>8. SameTables(d, r)'
  <2>1. \A i \in 1 .. SfNum : i < SfNum + 1
    BY <1>2
  <2> QED  BY <2>1, <1>1, <1>2, <1>6 DEF SameTables
<1>9. Through(d, r)'
  <2>1. \A y \in Images : y \in Range(r) <=> stage'[y] \notin Unlisted
    BY <1>1, <1>2, <1>5, <1>6 DEF Through
  <2>2. \A y \in Images : stage'[y] \in Unlisted => tab'[y] = 1 /\ best'[y] = None
    BY <1>1, <1>6 DEF Through
  <2> QED  BY <2>1, <2>2, <1>1, <1>4, <1>5 DEF Through
<1>10. ASSUME NEW i \in 1 .. Len(s) PROVE SharesMost(x, s[i])
  <2>1. Shared(x, best[x]) \in Nat /\ Shared(x, s[i]) \in Nat
    BY SharedNumber
  <2>2. CASE Shared(x, s[i]) > 0
    <3>1. PICK k \in 1 .. SfNum : feat[s[i]][k] = feat[x][k]
      BY <2>2, SharesOne
    <3>2. k \in 1 .. tab[x] - 1
      BY <1>1, <1>2
    <3> QED  BY <3>1, <3>2, <1>6 DEF SoFar
  <2>3. CASE ~(Shared(x, s[i]) > 0)
    BY <2>1, <2>3 DEF SharesMost
  <2> QED  BY <2>2, <2>3
<1>11. Settled(r)'
  <2>1. ASSUME NEW i \in 1 .. Len(r), NEW j \in 1 .. Len(r), i < j
        PROVE  SharesMost(r[j], r[i])
    <3>1. i \in 1 .. Len(s) /\ r[i] = s[i]
      BY <2>1, <1>3, <1>4
    <3>2. CASE j = Len(s) + 1
      BY <3>1, <3>2, <1>4, <1>10
    <3>3. CASE j # Len(s) + 1
      <4>1. j \in 1 .. Len(s) /\ r[j] = s[j]
        BY <3>3, <1>3, <1>4
      <4> QED  BY <3>1, <4>1, <2>1, <1>6 DEF Settled
    <3> QED  BY <3>2, <3>3
  <2>2. ASSUME NEW j \in 1 .. Len(r), best[r[j]] # None
        PROVE  \E i \in 1 .. j - 1 : r[i] = best[r[j]]
    <3>1. CASE j = Len(s) + 1
      <4>1. best[x] \in Range(s)
        BY <2>2, <3>1, <1>4, <1>6 DEF SoFar
      <4>2. PICK i \in 1 .. Len(s) : s[i] = best[x]
        BY <4>1, <1>3, RangeEquality
      <4>3. i \in 1 .. j - 1 /\ r[i] = best[r[j]]
        BY <4>2, <3>1, <1>3, <1>4
      <4> QED  BY <4>3
    <3>2. CASE j # Len(s) + 1
      <4>1. j \in 1 .. Len(s) /\ r[j] = s[j]
        BY <3>2, <1>3, <1>4
      <4>2. PICK i \in 1 .. j - 1 : s[i] = best[s[j]]
        BY <4>1, <2>2, <1>6 DEF Settled
      <4>3. r[i] = s[i]
        BY <4>1, <1>3, <1>4
      <4> QED  BY <4>1, <4>2, <4>3
    <3> QED  BY <3>1, <3>2
  <2> QED  BY <2>1, <2>2, <1>1, <1>7 DEF Settled
<1> QED  BY <1>1, <1>8, <1>9, <1>11 DEF Lookups

(* At the start the tables are empty and no image is looked up.            *)
LEMMA InitOneByOne == Init => OneByOne
<1> SUFFICES ASSUME Init, NEW d, Detectors = {d} PROVE \E s : Lookups(d, s)
  BY DEF OneByOne
<1>1. PICK s : s = <<>>
  OBVIOUS
<1>2. s \in Seq(Images) /\ Len(s) = 0 /\ Range(s) = {} /\ Distinct(s)
  BY <1>1, EmptySeq DEF Range, Distinct
<1>3. 1 .. Len(s) = {}
  BY <1>2
<1>4. ~Looking(d) /\ d \in Detectors
  BY DEF Init, Looking
<1>5. SameTables(d, s)
  BY <1>1, <1>4 DEF Init, SameTables
<1>6. Through(d, s)
  BY <1>2, <1>4 DEF Init, Through, Unlisted
<1>7. Settled(s)
  BY <1>3 DEF Settled
<1> QED  BY <1>4, <1>5, <1>6, <1>7 DEF Lookups

(* Every step keeps the tables as one detector fills them.                 *)
LEMMA StepOneByOne == IInv /\ OneByOne /\ [Next]_vars => OneByOne'
<1> SUFFICES ASSUME IInv, OneByOne, [Next]_vars, NEW d, Detectors = {d}
             PROVE  \E s : Lookups(d, s)'
  BY DEF OneByOne
<1>1. PICK s : Lookups(d, s)
  BY DEF OneByOne
<1>2. TypeOK /\ Hands /\ d \in Detectors
  BY DEF IInv
<1>3. CASE Insert(d)
  BY <1>1, <1>2, <1>3, InsertLookups
<1>4. CASE Look(d)
  BY <1>1, <1>2, <1>4, LookLookups
<1>5. CASE Looked(d)
  BY <1>1, <1>2, <1>5, LookedLookups
<1>6. ASSUME UNCHANGED <<feat, tab, best, tables>>,
             Looking(d)' <=> Looking(d), Looking(d) => work'[d] = work[d],
             \A x \in Images : stage'[x] \in Unlisted <=> stage[x] \in Unlisted
      PROVE  \E r : Lookups(d, r)'
  <2>1. Lookups(d, s)'
    BY <1>1, <1>2, <1>6, LookupsStay
  <2> QED  BY <2>1
<1>7. ASSUME NEW x \in Images, NEW v, NEW w, stage[x] = v, stage' = [stage EXCEPT ![x] = w],
             v # "look", w # "look", v \in Unlisted <=> w \in Unlisted,
             work' = work \/ (work[d] \in {None, x} /\ work'[d] \in {None, x}),
             UNCHANGED <<feat, tab, best, tables>>
      PROVE  \E r : Lookups(d, r)'
  <2>1. stage'[x] = w /\ \A y \in Images : y # x => stage'[y] = stage[y]
    BY <1>2, <1>7 DEF TypeOK
  <2>2. work'[d] # None => work'[d] \in Images
    BY <1>2, <1>7 DEF TypeOK
  <2>3. \A y \in Images : stage'[y] = "look" <=> stage[y] = "look"
    BY <1>7, <2>1
  <2>4. (Looking(d)' <=> Looking(d)) /\ (Looking(d) => work'[d] = work[d])
    BY <2>1, <2>2, <2>3, <1>2, <1>7 DEF Looking, TypeOK
  <2>5. \A y \in Images : stage'[y] \in Unlisted <=> stage[y] \in Unlisted
    BY <1>7, <2>1
  <2> QED  BY <2>4, <2>5, <1>6, <1>7
<1>8. ASSUME NEW x \in Images, Pop(d, x) PROVE \E r : Lookups(d, r)'
  BY <1>8, <1>2, <1>7 DEF Pop, MoveTo, Unlisted, TypeOK
<1>9. ASSUME BeginInsert(d) PROVE \E r : Lookups(d, r)'
  BY <1>9, <1>2, <1>7 DEF BeginInsert, At, MoveTo, Unlisted, TypeOK
<1>10. ASSUME EvictHead(d) \/ EvictLast(d) PROVE \E r : Lookups(d, r)'
  BY <1>10, <1>6 DEF EvictHead, EvictLast, Looking
<1>11. ASSUME Pin(d) PROVE \E r : Lookups(d, r)'
  BY <1>11, <1>2, <1>7 DEF Pin, At, MoveTo, Unlisted, TypeOK
<1>12. ASSUME Touch(d) PROVE \E r : Lookups(d, r)'
  BY <1>12, <1>2, <1>7 DEF Touch, At, MoveTo, Unlisted, TypeOK
<1>13. ASSUME BeginReload(d) PROVE \E r : Lookups(d, r)'
  BY <1>13, <1>2, <1>7 DEF BeginReload, At, MoveTo, Unlisted, TypeOK
<1>14. ASSUME Reload(d) PROVE \E r : Lookups(d, r)'
  BY <1>14, <1>2, <1>7 DEF Reload, At, MoveTo, Unlisted, TypeOK
<1>15. ASSUME Emit(d) PROVE \E r : Lookups(d, r)'
  BY <1>15, <1>2, <1>7 DEF Emit, At, MoveTo, Unlisted, TypeOK
<1>16. ASSUME Unpin(d) PROVE \E r : Lookups(d, r)'
  BY <1>16, <1>2, <1>7 DEF Unpin, At, MoveTo, Unlisted, TypeOK
<1>17. ASSUME WriteRaw(d) PROVE \E r : Lookups(d, r)'
  BY <1>17, <1>2, <1>7 DEF WriteRaw, At, MoveTo, Unlisted, TypeOK
<1>18. ASSUME NEW x \in Images, Dedup(x) \/ Rejpeg(x) PROVE \E r : Lookups(d, r)'
  BY <1>18, <1>7 DEF Dedup, Rejpeg, MoveTo, Unlisted
<1>19. CASE UNCHANGED vars
  BY <1>19, <1>6 DEF vars, Looking
<1>20. ASSUME NEW e \in Detectors, Detect(e) PROVE \E r : Lookups(d, r)'
  <2>1. e = d
    OBVIOUS
  <2> QED  BY <2>1, <1>20, <1>3, <1>4, <1>5, <1>8, <1>9, <1>10, <1>11, <1>12, <1>13, <1>14,
              <1>15, <1>16, <1>17 DEF Detect
<1> QED  BY <1>18, <1>19, <1>20 DEF Next

(* One detector fills the tables one image at a time.                      *)
LEMMA AlwaysOneByOne == Spec => []OneByOne
BY InitOneByOne, StepOneByOne, AlwaysIInv, PTL DEF Spec

LEMMA TheDetector == Cardinality(Detectors) = 1 => \E d : Detectors = {d}
BY DetectorsAssumption, FS_Singleton

(* What the last table shows of the tables as one detector fills them.     *)
LEMMA LastTable == IInv /\ OneByOne => BestChosen
<1> SUFFICES ASSUME IInv, OneByOne, Cardinality(Detectors) = 1,
                    NEW i \in DOMAIN tables[SfNum], NEW j \in DOMAIN tables[SfNum], i < j
             PROVE  SharesMost(tables[SfNum][j], tables[SfNum][i])
  BY DEF BestChosen, SharesMost
<1>1. PICK d : Detectors = {d}
  BY TheDetector
<1>2. PICK s : Lookups(d, s)
  BY <1>1 DEF OneByOne
<1>3. /\ s \in Seq(Images) /\ Len(s) \in Nat /\ DOMAIN s = 1 .. Len(s)
      /\ TypeOK /\ SfNum \in Nat \ {0} /\ d \in Detectors
  BY <1>1, <1>2, LenProperties, FeaturesAssumption DEF Lookups, Through, IInv
<1>4. CASE tables[SfNum] = s
  BY <1>2, <1>3, <1>4 DEF Lookups, Settled
<1>5. CASE tables[SfNum] # s
  <2>1. PICK x : x = work[d]
    OBVIOUS
  <2>2. Looking(d) /\ SfNum < tab[x] /\ tables[SfNum] = Append(s, x)
    <3>1. SfNum \in 1 .. SfNum
      BY <1>3
    <3>2. tables[SfNum] = IF Looking(d) /\ SfNum < tab[work[d]] THEN Append(s, work[d]) ELSE s
      BY <3>1, <1>2 DEF Lookups, SameTables
    <3> QED  BY <3>2, <1>5, <2>1
  <2>3. x \in Images
    BY <1>3, <2>1, <2>2 DEF TypeOK, Looking
  <2>4. tab[x] = SfNum + 1 /\ SoFar(x, s)
    <3>1. tab[x] \in 1 .. SfNum + 1
      BY <1>3, <2>3 DEF TypeOK
    <3> QED  BY <3>1, <2>1, <2>2, <1>2, <1>3 DEF Lookups
  <2>5. PICK r : r = Append(s, x)
    OBVIOUS
  <2>6. /\ Len(r) = Len(s) + 1 /\ r[Len(s) + 1] = x /\ DOMAIN r = 1 .. Len(r)
        /\ \A k \in 1 .. Len(s) : r[k] = s[k]
    BY <1>3, <2>3, <2>5, AppendProperties, LenProperties
  <2>7. i \in 1 .. Len(r) /\ j \in 1 .. Len(r)
    BY <2>2, <2>5, <2>6
  <2>8. i \in 1 .. Len(s) /\ r[i] = s[i]
    BY <2>6, <2>7, <1>3
  <2>9. CASE j \in 1 .. Len(s)
    BY <2>2, <2>5, <2>6, <2>8, <2>9, <1>2 DEF Lookups, Settled
  <2>10. CASE j = Len(s) + 1
    <3>1. Shared(x, best[x]) \in Nat /\ Shared(x, s[i]) \in Nat
      BY SharedNumber
    <3>2. CASE Shared(x, s[i]) > 0
      <4>1. PICK k \in 1 .. SfNum : feat[s[i]][k] = feat[x][k]
        BY <3>2, SharesOne
      <4>2. k \in 1 .. tab[x] - 1
        BY <2>4, <1>3
      <4>3. SharesMost(x, s[i])
        BY <4>1, <4>2, <2>4, <2>8 DEF SoFar
      <4> QED  BY <4>3, <2>2, <2>5, <2>6, <2>8, <2>10
    <3>3. CASE ~(Shared(x, s[i]) > 0)
      <4>1. SharesMost(x, s[i])
        BY <3>1, <3>3 DEF SharesMost
      <4> QED  BY <4>1, <2>2, <2>5, <2>6, <2>8, <2>10
    <3> QED  BY <3>2, <3>3
  <2> QED  BY <2>6, <2>7, <2>9, <2>10, <1>3
<1> QED  BY <1>4, <1>5

(* A single detector pairs every image with the one most like it of those  *)
(* before it: looking at one bucket for each super feature and stopping at *)
(* the first of equals loses none, whatever the features.                  *)
THEOREM BestBaseFound == Spec => []BestChosen
BY LastTable, AlwaysIInv, AlwaysOneByOne, PTL

(* The rounds of Rebuilt, as its definition writes them.                   *)
LEMMA RebuiltRounds ==
    /\ Cardinality(Images) \in Nat
    /\ Rebuilt[0] = {x \in Images : stage[x] = "raw"}
    /\ \A n \in 1 .. Cardinality(Images) :
          Rebuilt[n] = Rebuilt[n - 1] \cup {x \in Images : stage[x] = "delta" /\ best[x] \in Rebuilt[n - 1]}
<1> DEFINE N == Cardinality(Images)
           Raw == {x \in Images : stage[x] = "raw"}
           More(S) == {x \in Images : stage[x] = "delta" /\ best[x] \in S}
           Rounds(f) == f = [n \in 0 .. N |-> IF n = 0 THEN Raw ELSE f[n - 1] \cup More(f[n - 1])]
<1>1. N \in Nat
  BY ImagesAssumption, FS_CardinalityType
<1>2. \E f : Rounds(f)
  <2> DEFINE Sets == SUBSET Images
             grow == [p \in Sets \X (1 .. N) |-> p[1] \cup More(p[1])]
  <2>1. Raw \in Sets /\ grow \in [Sets \X (1 .. N) -> Sets]
    OBVIOUS
  <2>2. PICK f \in [0 .. N -> Sets] : f[0] = Raw /\ \A i \in 1 .. N : f[i] = grow[<<f[i - 1], i>>]
    <3> HIDE DEF Sets, grow, Raw, N, More
    <3>1. PICK f : Follows(f, N, Sets, Raw, grow)
      BY <1>1, <2>1, Recursion
    <3> QED  BY <3>1 DEF Follows
  <2> HIDE DEF Raw, N
  <2>3. ASSUME NEW i \in 1 .. N PROVE f[i] = f[i - 1] \cup More(f[i - 1])
    <3>1. i - 1 \in 0 .. N
      BY <1>1
    <3>2. f[i - 1] \in Sets
      BY <3>1, <2>2
    <3>3. <<f[i - 1], i>> \in Sets \X (1 .. N)
      BY <3>2
    <3>4. grow[<<f[i - 1], i>>] = f[i - 1] \cup More(f[i - 1])
      <4> HIDE DEF Sets, More
      <4> QED  BY <3>3
    <3> QED  BY <3>4, <2>2
  <2> HIDE DEF Sets, grow, More
  <2>4. ASSUME NEW i \in 0 .. N PROVE f[i] = IF i = 0 THEN Raw ELSE f[i - 1] \cup More(f[i - 1])
    <3>1. i = 0 \/ i \in 1 .. N
      BY <1>1
    <3> QED  BY <3>1, <2>2, <2>3
  <2>5. f = [n \in 0 .. N |-> IF n = 0 THEN Raw ELSE f[n - 1] \cup More(f[n - 1])]
    BY <2>2, <2>4
  <2> QED  BY <2>5
<1>3. Rebuilt = CHOOSE f : Rounds(f)
  BY DEF Rebuilt
<1> HIDE DEF N, Raw, More
<1>4. Rounds(Rebuilt)
  <2> HIDE DEF Rounds
  <2> QED  BY <1>2, <1>3
<1>5. Rebuilt[0] = Raw
  BY <1>1, <1>4
<1>6. ASSUME NEW n \in 1 .. N PROVE Rebuilt[n] = Rebuilt[n - 1] \cup More(Rebuilt[n - 1])
  <2>1. n \in 0 .. N /\ n # 0
    BY <1>1
  <2> QED  BY <2>1, <1>4
<1> QED  BY <1>1, <1>5, <1>6 DEF N, Raw, More

(* Images that came one after another are rebuilt in that order.           *)
LEMMA RebuiltInOrder ==
    ASSUME IInv, NEW d \in Detectors, NEW s, Lookups(d, s), Finished
    PROVE  Rebuilt[Cardinality(Images)] = Images
<1>1. PICK N \in Nat : N = Cardinality(Images)
  BY ImagesAssumption, FS_CardinalityType
<1>2. /\ s \in Seq(Images) /\ Distinct(s) /\ Len(s) \in Nat
      /\ \A i \in 1 .. Len(s) : s[i] \in Images
  BY LenProperties, ElementOfSeq DEF Lookups, Through
<1>3. TypeOK /\ Known
  BY DEF IInv
<1>4. \A x \in Images : \E i \in 1 .. Len(s) : s[i] = x
  <2> SUFFICES ASSUME NEW x \in Images PROVE \E i \in 1 .. Len(s) : s[i] = x
    OBVIOUS
  <2>1. stage[x] \notin Unlisted /\ ~(Looking(d) /\ work[d] = x)
    BY DEF Finished, Looking, Unlisted
  <2>2. x \in Range(s)
    BY <2>1 DEF Lookups, Through
  <2> QED  BY <2>2, <1>2, RangeEquality
<1>5. Len(s) = N
  <2>1. s \in [1 .. Len(s) -> Images]
    BY <1>2, LenProperties
  <2>2. s \in Injection(1 .. Len(s), Images) /\ s \in Surjection(1 .. Len(s), Images)
    BY <2>1, <1>2, <1>4 DEF Injection, Surjection, IsInjective, Distinct
  <2>3. Cardinality(1 .. Len(s)) = Len(s)
    <3>1. \A n \in Nat : Cardinality(1 .. n) = n
      BY FS_Interval
    <3> QED  BY <3>1, <1>2
  <2>4. Cardinality(1 .. Len(s)) = Cardinality(Images)
    BY <2>2, ImagesAssumption, FS_Injection
  <2> QED  BY <2>3, <2>4, <1>1
<1> DEFINE Upto(n) == /\ \A i \in 1 .. n : s[i] \in Rebuilt[n]
                      /\ \A x \in Images : stage[x] = "raw" => x \in Rebuilt[n]
                      /\ Rebuilt[n] \subseteq Images
           Bad == {n \in 0 .. N : ~Upto(n)}
<1>6. Bad = {}
  <2> SUFFICES ASSUME Bad # {} PROVE FALSE
    OBVIOUS
  <2>1. PICK n \in Bad : \A k \in Bad : n <= k
    <3>1. Bad \subseteq Nat
      OBVIOUS
    <3> HIDE DEF Bad
    <3> QED  BY <3>1, Least
  <2>2. n \in 0 .. N /\ ~Upto(n)
    OBVIOUS
  <2>3. \A k \in 0 .. N : k < n => Upto(k)
    <3> SUFFICES ASSUME NEW k \in 0 .. N, ~Upto(k) PROVE ~(k < n)
      OBVIOUS
    <3>1. n <= k
      BY <2>1
    <3> QED  BY <3>1, <2>2
  <2> HIDE DEF Bad
  <2>4. CASE n = 0
    BY <2>2, <2>4, RebuiltRounds
  <2>5. CASE n # 0
    <3>1. n - 1 \in 0 .. N /\ n - 1 < n /\ n \in 1 .. N
      BY <2>2, <2>5
    <3>2. Upto(n - 1)
      BY <3>1, <2>3
    <3>3. Rebuilt[n] = Rebuilt[n - 1] \cup {x \in Images : stage[x] = "delta" /\ best[x] \in Rebuilt[n - 1]}
      BY <3>1, <1>1, RebuiltRounds
    <3>4. ASSUME NEW i \in 1 .. n PROVE s[i] \in Rebuilt[n]
      <4>1. CASE i \in 1 .. n - 1
        BY <4>1, <3>2, <3>3
      <4>2. CASE i = n /\ stage[s[n]] = "raw"
        BY <4>2, <3>1, <3>2, <3>3, <1>2, <1>5
      <4>3. CASE i = n /\ stage[s[n]] = "delta"
        <5>1. n \in 1 .. Len(s) /\ s[n] \in Images
          BY <3>1, <1>2, <1>5
        <5>2. best[s[n]] # None
          BY <4>3, <5>1, <1>3 DEF Known, Paired
        <5>3. PICK j \in 1 .. n - 1 : s[j] = best[s[n]]
          BY <5>1, <5>2 DEF Lookups, Settled
        <5>4. best[s[n]] \in Rebuilt[n - 1]
          BY <5>3, <3>2
        <5> QED  BY <5>1, <5>4, <4>3, <3>3
      <4>4. i \in 1 .. n - 1 \/ i = n
        BY <3>1
      <4>5. stage[s[n]] \in {"raw", "delta"}
        BY <3>1, <1>2, <1>5 DEF Finished
      <4> QED  BY <4>1, <4>2, <4>3, <4>4, <4>5
    <3>5. /\ \A x \in Images : stage[x] = "raw" => x \in Rebuilt[n]
          /\ Rebuilt[n] \subseteq Images
      BY <3>2, <3>3
    <3> QED  BY <3>4, <3>5, <2>2
  <2> QED  BY <2>4, <2>5
<1>7. Upto(N)
  <2>1. N \in 0 .. N
    OBVIOUS
  <2> QED  BY <2>1, <1>6
<1>8. Images \subseteq Rebuilt[N]
  BY <1>4, <1>5, <1>7
<1> QED  BY <1>1, <1>7, <1>8

(* With a single detector what is stored of a batch can all be restored:   *)
(* bases came earlier, so no two deltas wait for each other.               *)
THEOREM OneDetectorRestorable ==
    ASSUME Cardinality(Detectors) = 1 PROVE Spec => []AllRestorable
<1>1. PICK d : Detectors = {d}
  BY TheDetector
<1>2. IInv /\ OneByOne => AllRestorable
  <2> SUFFICES ASSUME IInv, OneByOne, Finished
               PROVE  Rebuilt[Cardinality(Images)] = Images
    BY DEF AllRestorable
  <2>1. PICK s : Lookups(d, s)
    BY <1>1 DEF OneByOne
  <2>2. d \in Detectors
    BY <1>1
  <2> QED  BY <2>1, <2>2, RebuiltInOrder
<1> QED  BY <1>2, AlwaysIInv, AlwaysOneByOne, PTL

-----------------------------------------------------------------------------
(* Sets of exponents: polynomials, and power series too. *)
Poly == SUBSET Nat

(* Widths and degree are numbers, and the polynomial ends at its degree. *)
LEMMA DegreeIs ==
    /\ WordBits \in Nat \ {0} /\ ByteBits \in Nat \ {0}
    /\ Degree \in Nat \ {0} /\ Degree >= ByteBits
    /\ Polynomial \in Poly /\ Degree \in Polynomial
    /\ \A e \in Polynomial : e \in 0 .. Degree
<1>1. /\ WordBits \in Nat \ {0} /\ ByteBits \in Nat \ {0}
      /\ Polynomial # {} /\ Polynomial \subseteq 0 .. WordBits - 1 /\ Degree >= ByteBits
  BY WidthsAssumption
<1>2. \E d \in Polynomial : \A e \in Polynomial : e <= d
  <2>1. WordBits - 1 \in Nat
    BY <1>1
  <2> QED  BY <2>1, <1>1, Greatest
<1>3. Degree \in Polynomial /\ \A e \in Polynomial : e <= Degree
  BY <1>2 DEF Degree
<1>4. \A e \in Polynomial : e \in Nat
  BY <1>1
<1> QED  BY <1>1, <1>3, <1>4 DEF Poly

(* Sums and shifts of polynomials.                                         *)
LEMMA Sums ==
    ASSUME NEW x \in Poly, NEW y \in Poly, NEW n \in Nat
    PROVE  /\ Plus(x, y) \in Poly /\ Times(x, n) \in Poly
           /\ \A e \in Nat : e \in Plus(x, y) <=> (e \in x /\ e \notin y) \/ (e \notin x /\ e \in y)
           /\ \A e \in Nat : e \in Times(x, n) <=> e >= n /\ e - n \in x
<1>1. \A e \in x : e \in Nat /\ e + n \in Nat
  BY DEF Poly
<1>2. Plus(x, y) \in Poly /\ Times(x, n) \in Poly
  BY <1>1 DEF Poly, Plus, Times
<1>3. \A e : e \in Plus(x, y) <=> (e \in x /\ e \notin y) \/ (e \notin x /\ e \in y)
  BY DEF Plus
<1>4. ASSUME NEW e \in Nat PROVE e \in Times(x, n) <=> e >= n /\ e - n \in x
  <2>1. ASSUME e \in Times(x, n) PROVE e >= n /\ e - n \in x
    <3>1. PICK a \in x : e = a + n
      BY <2>1 DEF Times
    <3> QED  BY <3>1, <1>1
  <2>2. ASSUME e >= n, e - n \in x PROVE e \in Times(x, n)
    <3>1. e = (e - n) + n
      OBVIOUS
    <3> QED  BY <2>2, <3>1 DEF Times
  <2> QED  BY <2>1, <2>2
<1> QED  BY <1>2, <1>3, <1>4

(* Polynomials with the same exponents are equal.                          *)
LEMMA PolyEqual ==
    ASSUME NEW x \in Poly, NEW y \in Poly, \A e \in Nat : e \in x <=> e \in y
    PROVE  x = y
BY DEF Poly

LEMMA SumWithItself == ASSUME NEW x PROVE Plus(x, x) = {} /\ Plus(x, {}) = x /\ Plus({}, x) = x
BY DEF Plus

LEMMA TimesEmpty == ASSUME NEW n PROVE Times({}, n) = {}
BY DEF Times

(* Shifting is linear, and shifts add up.                                  *)
LEMMA TimesPlus ==
    ASSUME NEW x \in Poly, NEW y \in Poly, NEW n \in Nat
    PROVE  Times(Plus(x, y), n) = Plus(Times(x, n), Times(y, n))
<1>1. /\ Plus(x, y) \in Poly /\ Times(x, n) \in Poly /\ Times(y, n) \in Poly
      /\ \A e \in Nat : e \in Plus(x, y) <=> (e \in x /\ e \notin y) \/ (e \notin x /\ e \in y)
      /\ \A e \in Nat : e \in Times(x, n) <=> e >= n /\ e - n \in x
      /\ \A e \in Nat : e \in Times(y, n) <=> e >= n /\ e - n \in y
  BY Sums
<1>2. /\ Times(Plus(x, y), n) \in Poly
      /\ \A e \in Nat : e \in Times(Plus(x, y), n) <=> e >= n /\ e - n \in Plus(x, y)
  BY <1>1, Sums
<1>3. /\ Plus(Times(x, n), Times(y, n)) \in Poly
      /\ \A e \in Nat : e \in Plus(Times(x, n), Times(y, n)) <=>
             \/ (e \in Times(x, n) /\ e \notin Times(y, n))
             \/ (e \notin Times(x, n) /\ e \in Times(y, n))
  BY <1>1, Sums
<1>4. ASSUME NEW e \in Nat
      PROVE  e \in Times(Plus(x, y), n) <=> e \in Plus(Times(x, n), Times(y, n))
  <2>1. CASE e >= n
    <3>1. e - n \in Nat
      BY <2>1
    <3> QED  BY ONLY <3>1, <2>1, <1>1, <1>2, <1>3
  <2>2. CASE ~(e >= n)
    BY ONLY <2>2, <1>1, <1>2, <1>3, e \in Nat
  <2> QED  BY <2>1, <2>2
<1> QED  BY ONLY <1>2, <1>3, <1>4, PolyEqual

LEMMA TimesTimes ==
    ASSUME NEW x \in Poly, NEW m \in Nat, NEW n \in Nat
    PROVE  Times(Times(x, m), n) = Times(x, m + n)
<1>1. \A e \in x : e \in Nat
  BY DEF Poly
<1>2. \A e \in x : (e + m) + n = e + (m + n)
  BY <1>1
<1> QED  BY <1>2 DEF Times

LEMMA TimesZero == ASSUME NEW x \in Poly PROVE Times(x, 0) = x
<1>1. \A e \in x : e + 0 = e
  BY DEF Poly
<1> QED  BY <1>1 DEF Times

(* An exponent more or less is summed away.                                *)
LEMMA PlusMoves ==
    ASSUME NEW a, NEW b, NEW c, NEW d
    PROVE  /\ Plus(Plus(a, b), Plus(c, d)) = Plus(Plus(a, c), Plus(b, d))
           /\ Plus(Plus(a, b), b) = a
           /\ Plus(a, b) = Plus(b, a)
BY DEF Plus
-----------------------------------------------------------------------------
(* What is left bit by bit when mod begins at bit n. *)
Reduction(r, x, n) ==
    /\ r \in [0 .. n + 1 -> Poly]
    /\ r[0] = x
    /\ \A k \in 1 .. n + 1 : r[k] = Reduced(r[k - 1], n + 1 - k)

(* The remainder when mod begins at bit n. *)
From(x, n) == (CHOOSE r : Reduction(r, x, n))[n + 1]

LEMMA ReducedIs ==
    ASSUME NEW x \in Poly, NEW n \in Nat
    PROVE  Reduced(x, n) \in Poly /\ (n >= Degree => n - Degree \in Nat)
<1>1. n >= Degree => n - Degree \in Nat
  BY DegreeIs
<1>2. n >= Degree => Plus(x, Times(Polynomial, n - Degree)) \in Poly
  <2> SUFFICES ASSUME n >= Degree PROVE Plus(x, Times(Polynomial, n - Degree)) \in Poly
    OBVIOUS
  <2>1. Times(Polynomial, n - Degree) \in Poly
    BY <1>1, DegreeIs, Sums
  <2> QED  BY <2>1, Sums
<1> QED  BY <1>1, <1>2 DEF Reduced

(* There is such a sequence of remainders, and only one. *)
LEMMA ReductionExists ==
    ASSUME NEW x \in Poly, NEW n \in Nat
    PROVE  \E r : Reduction(r, x, n)
<1> DEFINE h == [p \in Poly \X (1 .. n + 1) |-> Reduced(p[1], n + 1 - p[2])]
<1>0. n + 1 \in Nat /\ \A k \in 1 .. n + 1 : n + 1 - k \in Nat /\ k - 1 \in 0 .. n + 1
  OBVIOUS
<1>1. h \in [Poly \X (1 .. n + 1) -> Poly]
  <2>1. ASSUME NEW p \in Poly \X (1 .. n + 1) PROVE Reduced(p[1], n + 1 - p[2]) \in Poly
    <3>1. p[1] \in Poly /\ p[2] \in 1 .. n + 1
      OBVIOUS
    <3>2. n + 1 - p[2] \in Nat
      BY <3>1, <1>0
    <3> QED  BY <3>1, <3>2, ReducedIs
  <2> QED  BY <2>1
<1>2. PICK r : Follows(r, n + 1, Poly, x, h)
  <2> HIDE DEF h
  <2> QED  BY <1>0, <1>1, Recursion
<1>3. ASSUME NEW k \in 1 .. n + 1 PROVE r[k] = Reduced(r[k - 1], n + 1 - k)
  <2>1. r[k] = h[<<r[k - 1], k>>] /\ r[k - 1] \in Poly
    <3> HIDE DEF h
    <3> QED  BY <1>0, <1>2 DEF Follows
  <2> QED  BY <2>1
<1> QED  BY <1>2, <1>3 DEF Follows, Reduction

LEMMA ReductionUnique ==
    ASSUME NEW x, NEW n \in Nat, NEW r, Reduction(r, x, n), NEW q, Reduction(q, x, n)
    PROVE  r = q
<1> DEFINE S == {k \in 0 .. n + 1 : r[k] = q[k]}
<1>0. n + 1 \in Nat /\ 0 \in 0 .. n + 1
  OBVIOUS
<1>1. 0 \in S
  BY <1>0 DEF Reduction
<1>2. ASSUME NEW k \in 1 .. n + 1, k - 1 \in S PROVE k \in S
  <2>1. k \in 0 .. n + 1
    OBVIOUS
  <2> QED  BY <1>2, <2>1 DEF Reduction
<1>3. \A k \in 0 .. n + 1 : k \in S
  <2> HIDE DEF S
  <2> QED  BY <1>0, <1>1, <1>2, InductionTo
<1> QED  BY <1>3 DEF Reduction

LEMMA FromIs ==
    ASSUME NEW x \in Poly, NEW n \in Nat, NEW r, Reduction(r, x, n)
    PROVE  From(x, n) = r[n + 1]
<1>1. Reduction(CHOOSE q : Reduction(q, x, n), x, n)
  OBVIOUS
<1> QED  BY <1>1, ReductionUnique DEF From

(* The first bit, then the others.                                         *)
LEMMA FromStep ==
    ASSUME NEW x \in Poly, NEW n \in Nat
    PROVE  /\ From(x, n) \in Poly
           /\ n = 0 => From(x, n) = x
           /\ n > 0 => From(x, n) = From(Reduced(x, n), n - 1)
<1>1. PICK r : Reduction(r, x, n)
  BY ReductionExists
<1>2. From(x, n) = r[n + 1]
  BY <1>1, FromIs
<1>3. From(x, n) \in Poly
  BY <1>1, <1>2 DEF Reduction
<1>4. ASSUME n = 0 PROVE From(x, n) = x
  <2>1. r[0] = x /\ r[1] = Reduced(r[0], 0)
    BY <1>1, <1>4 DEF Reduction
  <2>2. Reduced(x, 0) = x
    BY DegreeIs DEF Reduced
  <2> QED  BY <1>2, <1>4, <2>1, <2>2
<1>5. ASSUME n > 0 PROVE From(x, n) = From(Reduced(x, n), n - 1)
  <2> DEFINE q == [k \in 0 .. n |-> r[k + 1]]
  <2>1. n - 1 \in Nat /\ (n - 1) + 1 = n
    BY <1>5
  <2>2. r[1] = Reduced(x, n) /\ Reduced(x, n) \in Poly
    <3>1. r[0] = x /\ r[1] = Reduced(r[0], n + 1 - 1) /\ n + 1 - 1 = n
      BY <1>1, <1>5 DEF Reduction
    <3> QED  BY <3>1, ReducedIs
  <2>3. q \in [0 .. n -> Poly]
    <3>1. \A k \in 0 .. n : k + 1 \in 0 .. n + 1
      OBVIOUS
    <3> QED  BY <3>1, <1>1 DEF Reduction
  <2>4. ASSUME NEW k \in 1 .. n PROVE q[k] = Reduced(q[k - 1], n - k)
    <3>1. /\ k + 1 \in 1 .. n + 1 /\ k \in 0 .. n /\ k - 1 \in 0 .. n
          /\ (k + 1) - 1 = k /\ (k - 1) + 1 = k /\ n + 1 - (k + 1) = n - k
      OBVIOUS
    <3>2. r[k + 1] = Reduced(r[(k + 1) - 1], n + 1 - (k + 1))
      BY <3>1, <1>1 DEF Reduction
    <3>3. q[k] = r[k + 1] /\ q[k - 1] = r[k]
      BY <3>1
    <3> QED  BY <3>1, <3>2, <3>3
  <2>5. q[0] = r[1] /\ q[n] = r[n + 1]
    OBVIOUS
  <2> HIDE DEF q
  <2>6. Reduction(q, Reduced(x, n), n - 1)
    BY <2>1, <2>2, <2>3, <2>4, <2>5 DEF Reduction
  <2>7. From(Reduced(x, n), n - 1) = q[(n - 1) + 1]
    BY <2>1, <2>2, <2>6, FromIs
  <2> QED  BY <2>1, <2>5, <2>7, <1>2
<1> QED  BY <1>3, <1>4, <1>5

(* Bits below the degree are left alone, and so are bits that are not there. *)
LEMMA FromLow ==
    ASSUME NEW x \in Poly, NEW n \in Nat, n < Degree
    PROVE  From(x, n) = x
<1> DEFINE S == {k \in 0 .. n : From(x, k) = x}
<1>1. 0 \in S
  BY FromStep
<1>2. ASSUME NEW k \in 1 .. n, k - 1 \in S PROVE k \in S
  <2>1. k \in Nat /\ k > 0 /\ k < Degree
    BY DegreeIs
  <2>2. Reduced(x, k) = x
    BY <2>1, DegreeIs DEF Reduced
  <2>3. From(x, k) = From(x, k - 1)
    BY <2>1, <2>2, FromStep
  <2> QED  BY <2>1, <2>3, <1>2
<1>3. \A k \in 0 .. n : k \in S
  <2> HIDE DEF S
  <2> QED  BY <1>1, <1>2, InductionTo
<1> QED  BY <1>3

LEMMA FromAbove ==
    ASSUME NEW m \in Nat, NEW n \in Nat, m <= n, NEW x \in SUBSET (0 .. m)
    PROVE  From(x, n) = From(x, m)
<1> DEFINE S == {k \in 0 .. n : k >= m => From(x, k) = From(x, m)}
<1>0. x \in Poly
  BY DEF Poly
<1>1. 0 \in S
  OBVIOUS
<1>2. ASSUME NEW k \in 1 .. n, k - 1 \in S PROVE k \in S
  <2> SUFFICES ASSUME k > m PROVE From(x, k) = From(x, m)
    OBVIOUS
  <2>1. k \in Nat /\ k > 0 /\ k \notin x /\ k - 1 >= m
    OBVIOUS
  <2>2. Reduced(x, k) = x
    BY <2>1 DEF Reduced
  <2>3. From(x, k) = From(x, k - 1)
    BY <1>0, <2>1, <2>2, FromStep
  <2> QED  BY <2>1, <2>3, <1>2
<1>3. \A k \in 0 .. n : k \in S
  <2> HIDE DEF S
  <2> QED  BY <1>1, <1>2, InductionTo
<1> QED  BY <1>3

(* Where mod begins does not matter.                                       *)
LEMMA ModFrom ==
    ASSUME NEW n \in Nat, NEW x \in SUBSET (0 .. n)
    PROVE  Mod(x) = From(x, n)
<1> DEFINE top == IF x = {} THEN 0 ELSE CHOOSE d \in x : \A e \in x : e <= d
           G(f) == [k \in 0 .. top + 1 |-> IF k = 0 THEN x ELSE Reduced(f[k - 1], top + 1 - k)]
<1>0. x \in Poly
  BY DEF Poly
<1>1. top \in 0 .. n /\ x \subseteq 0 .. top
  <2>1. CASE x = {}
    BY <2>1
  <2>2. CASE x # {}
    <3>1. \E d \in x : \A e \in x : e <= d
      BY <2>2, Greatest
    <3>2. top \in x /\ \A e \in x : e <= top
      BY <2>2, <3>1
    <3> HIDE DEF top
    <3>3. \A e \in x : e \in Nat /\ e <= n
      OBVIOUS
    <3> QED  BY <3>2, <3>3
  <2> QED  BY <2>1, <2>2
<1>2. \A r : Reduction(r, x, top) => r = G(r)
  <2> SUFFICES ASSUME NEW r, Reduction(r, x, top) PROVE r = G(r)
    OBVIOUS
  <2>1. top \in Nat
    BY <1>1
  <2> HIDE DEF top
  <2>2. ASSUME NEW k \in 0 .. top + 1
        PROVE  r[k] = IF k = 0 THEN x ELSE Reduced(r[k - 1], top + 1 - k)
    <3>1. k # 0 => k \in 1 .. top + 1
      BY <2>1
    <3> QED  BY <3>1 DEF Reduction
  <2> QED  BY <2>2 DEF Reduction
<1>3. PICK f : f = CHOOSE r : r = G(r)
  OBVIOUS
<1>4. Mod(x) = f[top + 1]
  BY <1>3 DEF Mod
<1> HIDE DEF top
<1>5. f = G(f)
  <2>1. top \in Nat
    BY <1>1
  <2>2. \E r : Reduction(r, x, top)
    BY <1>0, <2>1, ReductionExists
  <2> HIDE DEF G
  <2> QED  BY <1>2, <1>3, <2>2
<1>6. Reduction(f, x, top)
  <2> DEFINE S == {k \in 0 .. top + 1 : f[k] \in Poly}
  <2>0. top \in Nat /\ top + 1 \in Nat
    BY <1>1
  <2>1. f[0] = x /\ \A k \in 1 .. top + 1 : f[k] = Reduced(f[k - 1], top + 1 - k)
    <3>1. 0 \in 0 .. top + 1 /\ \A k \in 1 .. top + 1 : k \in 0 .. top + 1 /\ k # 0
      BY <2>0
    <3>2. \A k \in 0 .. top + 1 : f[k] = IF k = 0 THEN x ELSE Reduced(f[k - 1], top + 1 - k)
      BY <1>5
    <3> QED  BY <3>1, <3>2
  <2>2. 0 \in S
    BY <2>0, <2>1, <1>0
  <2>3. ASSUME NEW k \in 1 .. top + 1, k - 1 \in S PROVE k \in S
    <3>1. k \in 0 .. top + 1 /\ top + 1 - k \in Nat
      BY <2>0
    <3>2. f[k - 1] \in Poly
      BY <2>3
    <3>3. Reduced(f[k - 1], top + 1 - k) \in Poly
      BY ONLY <3>1, <3>2, ReducedIs
    <3> QED  BY <2>1, <3>1, <3>3
  <2>4. \A k \in 0 .. top + 1 : k \in S
    <3> HIDE DEF S
    <3> QED  BY <2>0, <2>2, <2>3, InductionTo
  <2>5. f \in [0 .. top + 1 -> Poly]
    BY <2>4, <1>5
  <2> QED  BY <2>1, <2>5 DEF Reduction
<1>7. Mod(x) = From(x, top)
  BY <1>0, <1>1, <1>4, <1>6, FromIs
<1> QED  BY <1>1, <1>7, FromAbove

LEMMA ReducedPlus ==
    ASSUME NEW x \in Poly, NEW y \in Poly, NEW n \in Nat
    PROVE  Reduced(Plus(x, y), n) = Plus(Reduced(x, n), Reduced(y, n))
<1>1. n \in Plus(x, y) <=> (n \in x /\ n \notin y) \/ (n \notin x /\ n \in y)
  BY Sums
<1> DEFINE t == Times(Polynomial, n - Degree)
<1>2. /\ Plus(Plus(x, y), t) = Plus(Plus(x, t), y)
      /\ Plus(Plus(x, y), t) = Plus(x, Plus(y, t))
      /\ Plus(x, y) = Plus(Plus(x, t), Plus(y, t))
  <2> HIDE DEF t
  <2> QED  BY DEF Plus
<1> HIDE DEF t
<1>3. /\ Reduced(x, n) = IF n \in x /\ n >= Degree THEN Plus(x, t) ELSE x
      /\ Reduced(y, n) = IF n \in y /\ n >= Degree THEN Plus(y, t) ELSE y
      /\ Reduced(Plus(x, y), n) = IF n \in Plus(x, y) /\ n >= Degree
                                  THEN Plus(Plus(x, y), t) ELSE Plus(x, y)
  BY DEF Reduced, t
<1>4. CASE ~(n >= Degree)
  BY <1>3, <1>4
<1>5. CASE n >= Degree /\ n \in x
  BY ONLY <1>1, <1>2, <1>3, <1>5
<1>6. CASE n >= Degree /\ n \notin x
  BY ONLY <1>1, <1>2, <1>3, <1>6
<1> QED  BY <1>4, <1>5, <1>6

(* The remainder is linear.                                                *)
LEMMA FromPlus ==
    ASSUME NEW n \in Nat, NEW x \in Poly, NEW y \in Poly
    PROVE  From(Plus(x, y), n) = Plus(From(x, n), From(y, n))
<1> DEFINE S == {k \in 0 .. n : \A p, q \in Poly :
                                    From(Plus(p, q), k) = Plus(From(p, k), From(q, k))}
<1>1. 0 \in S
  <2> SUFFICES ASSUME NEW p \in Poly, NEW q \in Poly
               PROVE  From(Plus(p, q), 0) = Plus(From(p, 0), From(q, 0))
    OBVIOUS
  <2>1. Plus(p, q) \in Poly
    BY Sums
  <2> QED  BY <2>1, FromStep
<1>2. ASSUME NEW k \in 1 .. n, k - 1 \in S PROVE k \in S
  <2> SUFFICES ASSUME NEW p \in Poly, NEW q \in Poly
               PROVE  From(Plus(p, q), k) = Plus(From(p, k), From(q, k))
    OBVIOUS
  <2>1. k \in Nat /\ k > 0
    OBVIOUS
  <2>2. Plus(p, q) \in Poly /\ Reduced(p, k) \in Poly /\ Reduced(q, k) \in Poly
    BY <2>1, Sums, ReducedIs
  <2>3. Reduced(Plus(p, q), k) = Plus(Reduced(p, k), Reduced(q, k))
    BY <2>1, ReducedPlus
  <2>4. /\ From(Plus(p, q), k) = From(Plus(Reduced(p, k), Reduced(q, k)), k - 1)
        /\ From(p, k) = From(Reduced(p, k), k - 1)
        /\ From(q, k) = From(Reduced(q, k), k - 1)
    BY <2>1, <2>2, <2>3, FromStep
  <2>5. \A a, b \in Poly : From(Plus(a, b), k - 1) = Plus(From(a, k - 1), From(b, k - 1))
    BY <1>2
  <2> QED  BY <2>2, <2>4, <2>5
<1>3. \A k \in 0 .. n : k \in S
  <2> HIDE DEF S
  <2> QED  BY <1>1, <1>2, InductionTo
<1> QED  BY <1>3

(* A polynomial that has the bit loses it, and gets none above.            *)
LEMMA ReducedBelow ==
    ASSUME NEW n \in Nat \ {0}, n >= Degree, NEW x \in SUBSET (0 .. n)
    PROVE  Reduced(x, n) \in SUBSET (0 .. n - 1)
<1>0. x \in Poly /\ n - Degree \in Nat
  BY DegreeIs DEF Poly
<1>1. CASE n \notin x
  BY <1>1 DEF Reduced
<1>2. CASE n \in x
  <2> DEFINE t == Times(Polynomial, n - Degree)
  <2>1. /\ t \in Poly
        /\ \A e \in Nat : e \in t <=> e >= n - Degree /\ e - (n - Degree) \in Polynomial
    BY <1>0, DegreeIs, Sums
  <2>2. /\ Plus(x, t) \in Poly
        /\ \A e \in Nat : e \in Plus(x, t) <=> (e \in x /\ e \notin t) \/ (e \notin x /\ e \in t)
    <3> HIDE DEF t
    <3> QED  BY <1>0, <2>1, Sums
  <2>3. Reduced(x, n) = Plus(x, t)
    BY <1>2 DEF Reduced
  <2> HIDE DEF t
  <2>4. n \in t
    BY <2>1, DegreeIs
  <2>5. ASSUME NEW e \in t PROVE e \in 0 .. n
    <3>1. e \in Nat
      BY <2>1 DEF Poly
    <3>2. e - (n - Degree) \in 0 .. Degree
      BY <3>1, <2>1, DegreeIs
    <3> QED  BY <3>1, <3>2, DegreeIs
  <2>6. ASSUME NEW e \in Plus(x, t) PROVE e \in 0 .. n - 1
    <3>1. e \in Nat
      BY <2>2 DEF Poly
    <3>2. (e \in x \/ e \in t) /\ ~(e \in x /\ e \in t)
      BY <3>1, <2>2
    <3>3. e \in 0 .. n /\ e # n
      BY <3>2, <2>4, <2>5, <1>2
    <3> QED  BY <3>3
  <2> QED  BY <2>3, <2>6
<1> QED  BY <1>1, <1>2

(* The remainder is below the degree.                                      *)
LEMMA FromBelow ==
    ASSUME NEW n \in Nat, NEW x \in SUBSET (0 .. n)
    PROVE  From(x, n) \in SUBSET (0 .. Degree - 1)
<1> DEFINE S == {k \in 0 .. n : \A p \in SUBSET (0 .. k) : From(p, k) \in SUBSET (0 .. Degree - 1)}
<1>0. Degree \in Nat \ {0}
  BY DegreeIs
<1>00. ASSUME NEW k \in Nat, k < Degree, NEW p \in SUBSET (0 .. k)
       PROVE  From(p, k) \in SUBSET (0 .. Degree - 1)
  <2>1. p \in Poly /\ p \in SUBSET (0 .. Degree - 1)
    BY <1>0, <1>00 DEF Poly
  <2> QED  BY <1>00, <2>1, FromLow
<1>1. 0 \in S
  BY <1>0, <1>00
<1>2. ASSUME NEW k \in 1 .. n, k - 1 \in S PROVE k \in S
  <2> SUFFICES ASSUME NEW p \in SUBSET (0 .. k)
               PROVE  From(p, k) \in SUBSET (0 .. Degree - 1)
    OBVIOUS
  <2>1. k \in Nat \ {0} /\ k \in Nat /\ k > 0
    OBVIOUS
  <2>2. CASE k < Degree
    BY <2>1, <2>2, <1>00
  <2>3. CASE k >= Degree
    <3>1. Reduced(p, k) \in SUBSET (0 .. k - 1)
      BY <2>1, <2>3, ReducedBelow
    <3>2. From(p, k) = From(Reduced(p, k), k - 1)
      <4>1. p \in Poly
        BY <2>1 DEF Poly
      <4> QED  BY <4>1, <2>1, FromStep
    <3> QED  BY <3>1, <3>2, <1>2
  <2> QED  BY <2>1, <2>2, <2>3, <1>0
<1>3. \A k \in 0 .. n : k \in S
  <2> HIDE DEF S
  <2> QED  BY <1>1, <1>2, InductionTo
<1> QED  BY <1>3

(* The multiples of the polynomial by a power have no remainder.           *)
LEMMA FromMultiple ==
    ASSUME NEW j \in Nat, NEW n \in Nat, n >= Degree + j
    PROVE  From(Times(Polynomial, j), n) = {}
<1> DEFINE t == Times(Polynomial, j)
           m == Degree + j
<1>1. Degree \in Nat \ {0} /\ m \in Nat \ {0} /\ m \in Nat /\ m - 1 \in Nat /\ m - Degree = j
  BY DegreeIs
<1>2. t \in Poly /\ \A e \in Nat : e \in t <=> e >= j /\ e - j \in Polynomial
  BY DegreeIs, Sums
<1>3. t \in SUBSET (0 .. m) /\ m \in t
  <2>1. ASSUME NEW e \in t PROVE e \in 0 .. m
    <3>1. e \in Nat
      BY <1>2 DEF Poly
    <3>2. e - j \in 0 .. Degree
      BY <1>2, <3>1, DegreeIs
    <3> QED  BY <1>1, <3>1, <3>2
  <2>2. m \in t
    BY <1>1, <1>2, DegreeIs
  <2> QED  BY <2>1, <2>2
<1>4. Reduced(t, m) = {}
  <2>1. Reduced(t, m) = Plus(t, t)
    BY <1>1, <1>3 DEF Reduced
  <2> QED  BY <2>1, SumWithItself
<1> HIDE DEF t, m
<1>5. From(t, m) = From({}, m - 1)
  <2>1. m \in Nat /\ m > 0
    BY <1>1
  <2>2. From(t, m) = From(Reduced(t, m), m - 1)
    BY ONLY <1>2, <2>1, FromStep
  <2> QED  BY ONLY <1>4, <2>2
<1>6. From({}, m - 1) = {}
  <2>1. {} \in SUBSET (0 .. 0) /\ {} \in Poly
    BY DEF Poly
  <2>2. From({}, m - 1) = From({}, 0)
    BY <1>1, <2>1, FromAbove
  <2> QED  BY <2>1, <2>2, FromStep
<1>7. From(t, n) = From(t, m)
  BY <1>1, <1>3, FromAbove DEF m
<1> QED  BY <1>5, <1>6, <1>7 DEF t

LEMMA FromReduced ==
    ASSUME NEW m \in Nat, NEW x \in Poly, NEW s \in Nat, NEW n \in Nat, n >= m + s
    PROVE  From(Times(Reduced(x, m), s), n) = From(Times(x, s), n)
<1>1. CASE ~(m \in x /\ m >= Degree)
  BY <1>1 DEF Reduced
<1>2. CASE m \in x /\ m >= Degree
  <2> DEFINE j == m - Degree
             t == Times(Polynomial, j)
  <2>1. Degree \in Nat /\ j \in Nat /\ j + s \in Nat /\ n >= Degree + (j + s)
    BY <1>2, DegreeIs
  <2>2. t \in Poly /\ Times(t, s) \in Poly /\ Times(x, s) \in Poly
    <3>1. t \in Poly
      BY <2>1, DegreeIs, Sums
    <3> HIDE DEF t
    <3>2. Times(t, s) \in Poly /\ Times(x, s) \in Poly
      BY <3>1, Sums
    <3> QED  BY <3>1, <3>2
  <2>3. Reduced(x, m) = Plus(x, t)
    BY <1>2 DEF Reduced
  <2>4. Times(t, s) = Times(Polynomial, j + s)
    BY <2>1, DegreeIs, TimesTimes
  <2> HIDE DEF t, j
  <2>5. Times(Reduced(x, m), s) = Plus(Times(x, s), Times(t, s))
    BY <2>2, <2>3, TimesPlus
  <2>6. From(Times(t, s), n) = {}
    BY <2>1, <2>4, FromMultiple
  <2>7. From(Plus(Times(x, s), Times(t, s)), n) = Plus(From(Times(x, s), n), From(Times(t, s), n))
    BY <2>2, FromPlus
  <2> QED  BY <2>5, <2>6, <2>7, SumWithItself
<1> QED  BY <1>1, <1>2

(* It does not matter whether the remainder is taken before a shift, too.  *)
LEMMA FromShifted ==
    ASSUME NEW m \in Nat, NEW x \in SUBSET (0 .. m), NEW s \in Nat, NEW n \in Nat, n >= m + s
    PROVE  From(Times(From(x, m), s), n) = From(Times(x, s), n)
<1> DEFINE S == {k \in 0 .. m : \A p \in Poly :
                                    From(Times(From(p, k), s), n) = From(Times(p, s), n)}
<1>1. 0 \in S
  BY FromStep
<1>2. ASSUME NEW k \in 1 .. m, k - 1 \in S PROVE k \in S
  <2> SUFFICES ASSUME NEW p \in Poly
               PROVE  From(Times(From(p, k), s), n) = From(Times(p, s), n)
    OBVIOUS
  <2>1. k \in Nat /\ k > 0 /\ n >= k + s
    OBVIOUS
  <2>2. Reduced(p, k) \in Poly /\ From(p, k) = From(Reduced(p, k), k - 1)
    BY <2>1, ReducedIs, FromStep
  <2>3. From(Times(From(Reduced(p, k), k - 1), s), n) = From(Times(Reduced(p, k), s), n)
    BY <2>2, <1>2
  <2>4. From(Times(Reduced(p, k), s), n) = From(Times(p, s), n)
    BY <2>1, FromReduced
  <2> QED  BY <2>2, <2>3, <2>4
<1>3. \A k \in 0 .. m : k \in S
  <2> HIDE DEF S
  <2> QED  BY <1>1, <1>2, InductionTo
<1>4. x \in Poly
  BY DEF Poly
<1> QED  BY <1>3, <1>4
-----------------------------------------------------------------------------
(* Polynomials of some degree. *)
Bounded(x) == \E n \in Nat : x \in SUBSET (0 .. n)

LEMMA BoundedIs ==
    ASSUME NEW x, NEW y, Bounded(x), Bounded(y), NEW s \in Nat
    PROVE  /\ x \in Poly /\ Bounded(Plus(x, y)) /\ Bounded(x \cup y) /\ Bounded(Times(x, s))
           /\ \E n \in Nat : x \in SUBSET (0 .. n) /\ y \in SUBSET (0 .. n)
<1>1. PICK m \in Nat : x \in SUBSET (0 .. m)
  BY DEF Bounded
<1>2. PICK k \in Nat : y \in SUBSET (0 .. k)
  BY DEF Bounded
<1>3. m + k \in Nat /\ x \in SUBSET (0 .. m + k) /\ y \in SUBSET (0 .. m + k)
  <2>1. 0 .. m \subseteq 0 .. m + k /\ 0 .. k \subseteq 0 .. m + k
    OBVIOUS
  <2> QED  BY <2>1, <1>1, <1>2
<1>4. Plus(x, y) \in SUBSET (0 .. m + k) /\ x \cup y \in SUBSET (0 .. m + k)
  BY <1>3 DEF Plus
<1>5. Times(x, s) \in SUBSET (0 .. m + s) /\ m + s \in Nat
  <2>1. \A e \in 0 .. m : e + s \in 0 .. m + s
    OBVIOUS
  <2> QED  BY <2>1, <1>1 DEF Times
<1>6. x \in Poly
  BY <1>1 DEF Poly
<1> QED  BY <1>3, <1>4, <1>5, <1>6 DEF Bounded

(* What mod gives for any polynomials of some degree.                      *)
LEMMA Remainder ==
    ASSUME NEW x, NEW y, Bounded(x), Bounded(y), NEW s \in Nat
    PROVE  /\ Mod(x) \in SUBSET (0 .. Degree - 1) /\ Bounded(Mod(x))
           /\ x \in SUBSET (0 .. Degree - 1) => Mod(x) = x
           /\ Mod(Plus(x, y)) = Plus(Mod(x), Mod(y))
           /\ Mod(Times(Mod(x), s)) = Mod(Times(x, s))
<1>0. Degree \in Nat \ {0} /\ Degree - 1 \in Nat
  BY DegreeIs
<1>1. PICK n \in Nat : x \in SUBSET (0 .. n) /\ y \in SUBSET (0 .. n)
  BY BoundedIs
<1>2. x \in Poly /\ y \in Poly
  BY <1>1 DEF Poly
<1>3. Mod(x) = From(x, n) /\ Mod(y) = From(y, n)
  BY <1>1, ModFrom
<1>4. Mod(x) \in SUBSET (0 .. Degree - 1)
  BY <1>1, <1>3, FromBelow
<1>5. ASSUME x \in SUBSET (0 .. Degree - 1) PROVE Mod(x) = x
  <2>1. Mod(x) = From(x, Degree - 1)
    BY <1>0, <1>5, ModFrom
  <2> QED  BY <2>1, <1>0, <1>2, FromLow
<1>6. Mod(Plus(x, y)) = Plus(Mod(x), Mod(y))
  <2>1. Plus(x, y) \in SUBSET (0 .. n)
    BY <1>1 DEF Plus
  <2>2. Mod(Plus(x, y)) = From(Plus(x, y), n)
    BY <2>1, ModFrom
  <2> QED  BY <2>2, <1>2, <1>3, FromPlus
<1>7. Mod(Times(Mod(x), s)) = Mod(Times(x, s))
  <2> DEFINE N == Degree + (n + s)
  <2>1. N \in Nat /\ N >= n + s /\ N >= Degree - 1 + s
    BY <1>0
  <2>2. \A e \in 0 .. n : e + s \in 0 .. N
    BY <1>0
  <2>3. \A e \in 0 .. Degree - 1 : e + s \in 0 .. N
    BY <1>0
  <2> HIDE DEF N
  <2>4. Times(x, s) \in SUBSET (0 .. N)
    BY <2>2, <1>1 DEF Times
  <2>5. Times(Mod(x), s) \in SUBSET (0 .. N)
    BY <2>3, <1>4 DEF Times
  <2>6. Mod(Times(x, s)) = From(Times(x, s), N) /\ Mod(Times(Mod(x), s)) = From(Times(Mod(x), s), N)
    BY <2>1, <2>4, <2>5, ModFrom
  <2> QED  BY <2>1, <2>6, <1>1, <1>3, FromShifted
<1> QED  BY <1>0, <1>4, <1>5, <1>6, <1>7 DEF Bounded
-----------------------------------------------------------------------------
(* A byte is its own remainder.                                            *)
LEMMA ByteIs ==
    ASSUME NEW b \in Byte
    PROVE  /\ b \in SUBSET (0 .. ByteBits - 1) /\ b \in SUBSET (0 .. Degree - 1)
           /\ b \in Poly /\ Bounded(b) /\ Mod(b) = b
<1>1. ByteBits - 1 \in Nat /\ 0 .. ByteBits - 1 \subseteq 0 .. Degree - 1
  BY DegreeIs
<1>2. b \in SUBSET (0 .. ByteBits - 1)
  BY DEF Byte
<1>3. Bounded(b)
  BY <1>1, <1>2 DEF Bounded
<1>4. b \in SUBSET (0 .. Degree - 1)
  BY <1>1, <1>2
<1>5. Mod(b) = b
  BY ONLY <1>3, <1>4, Remainder, 0 \in Nat
<1>6. b \in Poly
  BY <1>2 DEF Poly
<1> QED  BY <1>2, <1>3, <1>4, <1>5, <1>6

LEMMA LowBounded ==
    ASSUME NEW d \in SUBSET (0 .. Degree - 1)
    PROVE  Bounded(d) /\ d \in Poly
<1>1. Degree - 1 \in Nat
  BY DegreeIs
<1> QED  BY <1>1 DEF Bounded, Poly

LEMMA AppendedLow ==
    ASSUME NEW d, Bounded(d), NEW b \in Byte
    PROVE  /\ append_byte(d, b) \in SUBSET (0 .. Degree - 1)
           /\ append_byte({}, b) = b
           /\ append_byte(d, {}) = Mod(Times(d, ByteBits))
<1>1. ByteBits \in Nat /\ Bounded(b) /\ Mod(b) = b
  BY DegreeIs, ByteIs
<1>2. Bounded(Times(d, ByteBits))
  BY <1>1, BoundedIs
<1>3. Bounded(Times(d, ByteBits) \cup b)
  BY <1>1, <1>2, BoundedIs, 0 \in Nat
<1>4. Mod(Times(d, ByteBits) \cup b) \in SUBSET (0 .. Degree - 1)
  BY <1>3, Remainder, 0 \in Nat
<1>5. Times({}, ByteBits) \cup b = b /\ Times(d, ByteBits) \cup {} = Times(d, ByteBits)
  BY TimesEmpty
<1> QED  BY <1>1, <1>4, <1>5 DEF append_byte

(* calc_tables' byte with zeros behind it is the remainder of the byte     *)
(* shifted over them.                                                      *)
LEMMA ZerosShift ==
    ASSUME NEW b \in Byte, NEW n \in Nat
    PROVE  ZerosBehind(b, n) = Mod(Times(b, ByteBits * n))
<1> DEFINE Low == SUBSET (0 .. Degree - 1)
           G(f) == [i \in 0 .. n |-> IF i = 0 THEN append_byte({}, b) ELSE append_byte(f[i - 1], {})]
           h == [p \in Low \X (1 .. n) |-> append_byte(p[1], {})]
<1>0. /\ ByteBits \in Nat /\ {} \in Byte /\ b \in Low /\ Bounded({})
      /\ Bounded(b) /\ Mod(b) = b /\ b \in Poly
  <2>1. {} \in SUBSET (0 .. 0)
    OBVIOUS
  <2> QED  BY <2>1, DegreeIs, ByteIs DEF Byte, Bounded
<1>1. append_byte({}, b) = b
  BY <1>0, AppendedLow
<1>2. \A x \in Low : append_byte(x, {}) \in Low /\ append_byte(x, {}) = Mod(Times(x, ByteBits))
  <2> SUFFICES ASSUME NEW x \in Low
               PROVE  append_byte(x, {}) \in Low /\ append_byte(x, {}) = Mod(Times(x, ByteBits))
    OBVIOUS
  <2>1. Bounded(x)
    BY LowBounded
  <2> QED  BY <2>1, <1>0, AppendedLow
<1>3. h \in [Low \X (1 .. n) -> Low]
  <2>1. ASSUME NEW p \in Low \X (1 .. n) PROVE append_byte(p[1], {}) \in Low
    <3>1. p[1] \in Low
      OBVIOUS
    <3> HIDE DEF Low
    <3> QED  BY <3>1, <1>2
  <2> HIDE DEF Low
  <2> QED  BY <2>1
<1>4. PICK f : Follows(f, n, Low, b, h)
  <2> HIDE DEF h, Low
  <2> QED  BY <1>0, <1>3, Recursion
<1>5. ASSUME NEW i \in 1 .. n PROVE f[i] = append_byte(f[i - 1], {}) /\ f[i - 1] \in Low
  <2>1. i - 1 \in 0 .. n
    OBVIOUS
  <2>2. f[i] = h[<<f[i - 1], i>>] /\ f[i - 1] \in Low
    <3> HIDE DEF h, Low
    <3> QED  BY <2>1, <1>4 DEF Follows
  <2> HIDE DEF Low
  <2> QED  BY <2>2
<1>6. f = G(f)
  <2>1. DOMAIN f = 0 .. n /\ f[0] = b /\ f = [i \in 0 .. n |-> f[i]]
    BY <1>4 DEF Follows
  <2>2. ASSUME NEW i \in 0 .. n
        PROVE  f[i] = IF i = 0 THEN append_byte({}, b) ELSE append_byte(f[i - 1], {})
    <3>1. i # 0 => i \in 1 .. n
      OBVIOUS
    <3> QED  BY <3>1, <2>1, <1>1, <1>5
  <2> QED  BY <2>1, <2>2
<1>7. PICK g : g = CHOOSE x : x = G(x)
  OBVIOUS
<1>8. g = G(g)
  <2> HIDE DEF G
  <2> QED  BY <1>6, <1>7
<1>9. ZerosBehind(b, n) = g[n]
  BY <1>7 DEF ZerosBehind
<1> DEFINE S == {i \in 0 .. n : g[i] \in Low /\ g[i] = Mod(Times(b, ByteBits * i))}
<1>10. 0 \in S
  <2>1. g[0] = b /\ 0 \in 0 .. n
    BY <1>1, <1>8
  <2>2. ByteBits * 0 = 0
    BY <1>0
  <2>3. Times(b, ByteBits * 0) = b
    BY <1>0, <2>2, TimesZero
  <2> QED  BY <1>0, <2>1, <2>3
<1>11. ASSUME NEW i \in 1 .. n, i - 1 \in S PROVE i \in S
  <2>1. i \in 0 .. n /\ i # 0 /\ i - 1 \in Nat
    OBVIOUS
  <2>2. g[i] = append_byte(g[i - 1], {})
    BY <2>1, <1>8
  <2>3. g[i - 1] \in Low /\ g[i - 1] = Mod(Times(b, ByteBits * (i - 1)))
    BY <1>11
  <2>4. ByteBits * (i - 1) \in Nat /\ ByteBits * (i - 1) + ByteBits = ByteBits * i
    BY <2>1, <1>0
  <2>5. Bounded(Times(b, ByteBits * (i - 1)))
    BY <2>4, <1>0, BoundedIs
  <2>6. Mod(Times(g[i - 1], ByteBits)) = Mod(Times(Times(b, ByteBits * (i - 1)), ByteBits))
    BY <2>3, <2>5, <1>0, Remainder
  <2>7. Times(Times(b, ByteBits * (i - 1)), ByteBits) = Times(b, ByteBits * i)
    <3>1. PICK m \in Nat : m = ByteBits * (i - 1)
      BY <2>4
    <3>2. Times(Times(b, m), ByteBits) = Times(b, m + ByteBits)
      BY <1>0, TimesTimes
    <3> QED  BY <3>1, <3>2, <2>4
  <2> HIDE DEF Low
  <2> QED  BY <2>1, <2>2, <2>3, <2>6, <2>7, <1>2
<1>12. \A i \in 0 .. n : i \in S
  <2> HIDE DEF S
  <2> QED  BY <1>10, <1>11, InductionTo
<1>13. n \in S
  <2> HIDE DEF S
  <2> QED  BY <1>12
<1> QED  BY <1>9, <1>13

(* The one exclusive or of rabin_append reduces what was appended to.      *)
LEMMA AppendReduces ==
    ASSUME NEW d \in SUBSET (0 .. Degree - 1), NEW b \in Byte
    PROVE  rabin_append(d, b) = Mod(Times(d, ByteBits) \cup b)
<1> DEFINE t == Times(d, ByteBits) \cup b
           index == {e \in 0 .. ByteBits - 1 : e + Degree - ByteBits \in d}
           high == Times(index, Degree)
           low == t \ high
<1>0. /\ Degree \in Nat \ {0} /\ Degree \in Nat /\ ByteBits \in Nat \ {0} /\ ByteBits \in Nat
      /\ ByteBits <= Degree
  BY DegreeIs
<1>1. d \in Poly /\ Bounded(d) /\ b \in Poly /\ Bounded(b) /\ index \in Byte
  BY LowBounded, ByteIs DEF Byte
<1>2. index \in Poly /\ Bounded(index)
  <2> HIDE DEF index
  <2> QED  BY <1>1, ByteIs
<1>3. Bounded(Times(d, ByteBits)) /\ Bounded(high) /\ Times(d, ByteBits) \in Poly /\ high \in Poly
  <2> HIDE DEF index
  <2> QED  BY <1>0, <1>1, <1>2, BoundedIs, Sums
<1>4. t \in Poly /\ Bounded(t)
  <2>1. Bounded(t)
    BY <1>0, <1>1, <1>3, BoundedIs
  <2> QED  BY <2>1, <1>1, <1>3 DEF Poly
<1>5. /\ \A e \in Nat : e \in Times(d, ByteBits) <=> e >= ByteBits /\ e - ByteBits \in d
      /\ \A e \in Nat : e \in high <=> e >= Degree /\ e - Degree \in index
  <2> HIDE DEF index
  <2> QED  BY <1>0, <1>1, <1>2, Sums
<1>6. ASSUME NEW e \in Nat PROVE e \in high <=> e \in t /\ e >= Degree
  <2>1. e >= Degree => e \notin b
    <3>1. b \in SUBSET (0 .. ByteBits - 1)
      BY ByteIs
    <3> QED  BY <3>1, <1>0
  <2>2. ASSUME e >= Degree PROVE e - Degree \in index <=> e - ByteBits \in d
    <3>1. (e - Degree) + Degree - ByteBits = e - ByteBits /\ e - Degree \in Nat
      BY <2>2, <1>0
    <3>2. e - ByteBits \in d => e - Degree \in 0 .. ByteBits - 1
      BY <1>0, <2>2
    <3> QED  BY <3>1, <3>2
  <2>3. e >= Degree => e >= ByteBits
    BY <1>0
  <2> HIDE DEF index, high
  <2> QED  BY <2>1, <2>2, <2>3, <1>5
<1>7. low \in SUBSET (0 .. Degree - 1) /\ high \subseteq t
  <2> HIDE DEF high, t
  <2>1. ASSUME NEW e \in low PROVE e \in 0 .. Degree - 1
    <3>1. e \in Nat /\ e \in t /\ e \notin high
      BY <1>4 DEF Poly
    <3>2. ~(e >= Degree)
      BY ONLY <3>1, <1>6
    <3> QED  BY <3>1, <3>2, <1>0
  <2>2. ASSUME NEW e \in high PROVE e \in t
    <3>1. e \in Nat
      BY <1>3 DEF Poly
    <3> QED  BY ONLY <3>1, <1>6, <2>2
  <2> QED  BY <2>1, <2>2
<1>8. \A e \in high : e >= Degree
  <2> HIDE DEF high, t
  <2> SUFFICES ASSUME NEW e \in high PROVE e >= Degree
    OBVIOUS
  <2>1. e \in Nat
    BY <1>3 DEF Poly
  <2> QED  BY ONLY <2>1, <1>6, e \in high
<1>9. Mod(high) \in SUBSET (0 .. Degree - 1) /\ Mod(low) = low /\ Bounded(low)
  <2> HIDE DEF high, low
  <2>1. Bounded(low)
    BY <1>7, LowBounded
  <2> QED  BY <2>1, <1>3, <1>7, Remainder, 0 \in Nat
<1>10. Mod(t) = Plus(low, Mod(high))
  <2>1. t = Plus(low, high)
    <3> HIDE DEF high, t
    <3> QED  BY <1>7 DEF Plus
  <2> HIDE DEF high, low, t
  <2> QED  BY <2>1, <1>3, <1>9, Remainder, 0 \in Nat
<1>11. Plus(t, Mod(high) \cup high) = Plus(low, Mod(high))
  <2>1. \A e \in high : e \notin Mod(high)
    <3> HIDE DEF high
    <3>1. \A e \in Mod(high) : e \in Int /\ e < Degree
      BY <1>0, <1>9
    <3>2. \A e \in high : e \in Int
      BY <1>3 DEF Poly
    <3> QED  BY <1>0, <1>8, <3>1, <3>2
  <2> HIDE DEF high, t
  <2> QED  BY <2>1, <1>7 DEF Plus
<1>12. rabin_append(d, b) = Plus(t, Mod(high) \cup high)
  BY <1>1 DEF rabin_append, ModTable
<1> QED  BY <1>10, <1>11, <1>12
-----------------------------------------------------------------------------
(* The place after p in a window, the k-th place from p on, and the window *)
(* from there on.                                                          *)
After(p, w) == (p + 1) % w
Place(p, k, w) == (p + k - 1) % w
Unrolled(window, p, w) == [k \in 1 .. w |-> window[Place(p, k, w)]]

(* The bytes of g are those of f from its second on, and one more. *)
MovedUp(f, g, w) == \A k \in 1 .. w - 1 : g[k] = f[k + 1]

(* A place in the window, and one round further.                           *)
LEMMA Wraps ==
    ASSUME NEW w \in Nat \ {0}, NEW a \in 0 .. w - 1
    PROVE  a % w = a /\ (a + w) % w = a
<1>1. \A x \in Nat : x % w \in Nat /\ x % w < w /\ x \div w \in Nat /\ x = ((x \div w) * w) + (x % w)
  OBVIOUS
<1>2. ASSUME NEW q \in Nat, NEW r \in Nat, r < w, a = (q * w) + r PROVE r = a
  <2>1. q = 0
    <3> SUFFICES ASSUME q # 0 PROVE FALSE
      OBVIOUS
    <3>1. q - 1 \in Nat /\ q * w = ((q - 1) * w) + w /\ (q - 1) * w \in Nat
      OBVIOUS
    <3> QED  BY <3>1, <1>2
  <2> QED  BY <2>1, <1>2
<1>3. ASSUME NEW q \in Nat, NEW r \in Nat, r < w, a + w = (q * w) + r PROVE r = a
  <2>1. q # 0
    BY <1>3
  <2>2. q - 1 \in Nat /\ q * w = ((q - 1) * w) + w
    BY <2>1
  <2>3. a = ((q - 1) * w) + r
    BY <1>3, <2>2
  <2> QED  BY <2>2, <2>3, <1>2, <1>3
<1>4. a \in Nat /\ a + w \in Nat
  OBVIOUS
<1> QED  BY <1>1, <1>2, <1>3, <1>4

(* The places of a window, without remainders.                             *)
LEMMA AfterIs ==
    ASSUME NEW w \in Nat \ {0}, NEW p \in 0 .. w - 1
    PROVE  After(p, w) \in 0 .. w - 1 /\ After(p, w) = IF p + 1 = w THEN 0 ELSE p + 1
<1>1. CASE p + 1 = w
  <2>1. 0 \in 0 .. w - 1 /\ 0 + w = w
    OBVIOUS
  <2>2. (0 + w) % w = 0
    BY ONLY <2>1, Wraps, w \in Nat \ {0}
  <2> QED  BY ONLY <1>1, <2>1, <2>2 DEF After
<1>2. CASE p + 1 # w
  <2>1. p + 1 \in 0 .. w - 1
    BY <1>2
  <2>2. (p + 1) % w = p + 1
    BY ONLY <2>1, Wraps, w \in Nat \ {0}
  <2> QED  BY ONLY <1>2, <2>1, <2>2 DEF After
<1> QED  BY <1>1, <1>2

LEMMA PlaceIs ==
    ASSUME NEW w \in Nat \ {0}, NEW p \in 0 .. w - 1, NEW k \in 1 .. w
    PROVE  /\ Place(p, k, w) \in 0 .. w - 1
           /\ Place(p, k, w) = IF p + k - 1 < w THEN p + k - 1 ELSE p + k - 1 - w
<1>1. CASE p + k - 1 < w
  <2>1. PICK x \in 0 .. w - 1 : x = p + k - 1
    BY <1>1
  <2>2. x % w = x
    BY ONLY <2>1, Wraps, w \in Nat \ {0}
  <2> QED  BY ONLY <1>1, <2>1, <2>2 DEF Place
<1>2. CASE ~(p + k - 1 < w)
  <2>1. PICK x \in 0 .. w - 1 : x = p + k - 1 - w
    BY <1>2
  <2>2. x + w = p + k - 1
    BY <2>1
  <2>3. (x + w) % w = x
    BY ONLY <2>1, Wraps, w \in Nat \ {0}
  <2> QED  BY ONLY <1>2, <2>1, <2>2, <2>3 DEF Place
<1> QED  BY <1>1, <1>2

LEMMA UnrolledIs ==
    ASSUME NEW w \in Nat \ {0}, NEW window \in [0 .. w - 1 -> Byte], NEW p \in 0 .. w - 1
    PROVE  /\ After(p, w) \in 0 .. w - 1 /\ Unrolled(window, p, w) \in [1 .. w -> Byte]
           /\ \A k \in 1 .. w : Unrolled(window, p, w)[k] = window[Place(p, k, w)]
<1>1. \A k \in 1 .. w : Place(p, k, w) \in 0 .. w - 1
  BY PlaceIs
<1>2. After(p, w) \in 0 .. w - 1
  BY AfterIs
<1>3. \A k \in 1 .. w : window[Place(p, k, w)] \in Byte
  BY <1>1
<1> QED  BY <1>2, <1>3 DEF Unrolled

(* A byte is slid in behind all others, and the oldest one is gone.        *)
LEMMA WindowSlides ==
    ASSUME NEW w \in Nat \ {0}, NEW window \in [0 .. w - 1 -> Byte], NEW p \in 0 .. w - 1,
           NEW b \in Byte, NEW next, next = [window EXCEPT ![p] = b]
    PROVE  /\ Unrolled(window, p, w)[1] = window[p]
           /\ Unrolled(next, After(p, w), w)[w] = b
           /\ MovedUp(Unrolled(window, p, w), Unrolled(next, After(p, w), w), w)
<1>1. PICK q \in 0 .. w - 1 : q = After(p, w)
  BY UnrolledIs
<1>2. /\ next \in [0 .. w - 1 -> Byte] /\ next[p] = b
      /\ \A i \in 0 .. w - 1 : i # p => next[i] = window[i]
  OBVIOUS
<1>3. /\ \A k \in 1 .. w : Unrolled(window, p, w)[k] = window[Place(p, k, w)]
      /\ \A k \in 1 .. w : Unrolled(next, q, w)[k] = next[Place(q, k, w)]
  <2>1. \A k \in 1 .. w : Unrolled(window, p, w)[k] = window[Place(p, k, w)]
    BY UnrolledIs
  <2>2. \A k \in 1 .. w : Unrolled(next, q, w)[k] = next[Place(q, k, w)]
    BY ONLY <1>1, <1>2, UnrolledIs, w \in Nat \ {0}
  <2> QED  BY <2>1, <2>2
<1>4. q = IF p + 1 = w THEN 0 ELSE p + 1
  BY ONLY <1>1, AfterIs, w \in Nat \ {0}, p \in 0 .. w - 1
<1>5. 1 \in 1 .. w /\ w \in 1 .. w /\ Place(p, 1, w) = p /\ Place(q, w, w) = p
  <2>1. 1 \in 1 .. w /\ w \in 1 .. w
    OBVIOUS
  <2>2. Place(p, 1, w) = IF p + 1 - 1 < w THEN p + 1 - 1 ELSE p + 1 - 1 - w
    BY ONLY <2>1, PlaceIs, w \in Nat \ {0}, p \in 0 .. w - 1
  <2>3. Place(q, w, w) = IF q + w - 1 < w THEN q + w - 1 ELSE q + w - 1 - w
    BY ONLY <1>1, <2>1, PlaceIs, w \in Nat \ {0}
  <2> QED  BY ONLY <1>1, <1>4, <2>1, <2>2, <2>3, w \in Nat \ {0}, p \in 0 .. w - 1
<1>6. Unrolled(window, p, w)[1] = window[p] /\ Unrolled(next, q, w)[w] = b
  BY ONLY <1>2, <1>3, <1>5
<1>7. ASSUME NEW k \in 1 .. w - 1
      PROVE  Unrolled(next, q, w)[k] = Unrolled(window, p, w)[k + 1]
  <2>1. k \in 1 .. w
    OBVIOUS
  <2>2. PICK j \in 1 .. w : j = k + 1
    OBVIOUS
  <2>3. Unrolled(window, p, w)[j] = window[Place(p, j, w)] /\ Unrolled(next, q, w)[k] = next[Place(q, k, w)]
    BY ONLY <1>3, <2>1, <2>2
  <2>4. /\ Place(q, k, w) \in 0 .. w - 1
        /\ Place(q, k, w) = IF q + k - 1 < w THEN q + k - 1 ELSE q + k - 1 - w
    BY ONLY PlaceIs, <1>1, <2>1, w \in Nat \ {0}
  <2>5. Place(p, j, w) = IF p + j - 1 < w THEN p + j - 1 ELSE p + j - 1 - w
    BY ONLY PlaceIs, <2>2, w \in Nat \ {0}, p \in 0 .. w - 1
  <2>6. Place(q, k, w) = Place(p, j, w) /\ Place(q, k, w) # p
    BY ONLY <1>1, <1>4, <2>2, <2>4, <2>5, w \in Nat \ {0}, p \in 0 .. w - 1, k \in 1 .. w - 1
  <2> QED  BY ONLY <1>2, <2>2, <2>3, <2>4, <2>6
<1> QED  BY <1>1, <1>6, <1>7 DEF MovedUp

(* The bits of a sequence of bytes.                                        *)
LEMMA BitsAre ==
    ASSUME NEW w \in Nat \ {0}, NEW f \in [1 .. w -> Byte]
    PROVE  Bits(f) = UNION {Times(f[k], ByteBits * (w - k)) : k \in 1 .. w}
<1>1. f \in Seq(Byte) /\ Len(f) = w /\ DOMAIN f = 1 .. w
  OBVIOUS
<1> QED  BY <1>1 DEF Bits

LEMMA BitsRange ==
    ASSUME NEW w \in Nat \ {0}, NEW k \in 1 .. w, NEW b \in Byte, NEW e \in Times(b, ByteBits * (w - k))
    PROVE  /\ e \in Nat /\ ByteBits * (w - k) \in Nat
           /\ e < ByteBits * w /\ (k > 1 => e < ByteBits * (w - 1))
<1>1. ByteBits \in Nat /\ w - k \in Nat /\ ByteBits * (w - k) \in Nat
  BY DegreeIs
<1>2. PICK a \in b : e = a + ByteBits * (w - k)
  BY DEF Times
<1>3. a \in Nat /\ a < ByteBits
  BY <1>1, ByteIs
<1>4. e \in Nat /\ e < ByteBits * (w - k) + ByteBits
  BY <1>1, <1>2, <1>3
<1>5. \A i, j \in Nat : i <= j => ByteBits * i <= ByteBits * j
  <2> TAKE i \in Nat, j \in Nat
  <2> HAVE i <= j
  <2>1. j - i \in Nat /\ ByteBits * (j - i) \in Nat
    BY <1>1
  <2>2. ByteBits * j = ByteBits * i + ByteBits * (j - i)
    BY <1>1, <2>1
  <2> QED  BY <1>1, <2>1, <2>2
<1>6. ByteBits * (w - k) + ByteBits = ByteBits * (w - k + 1) /\ w - k + 1 \in Nat /\ w - 1 \in Nat
  BY <1>1
<1>7. ByteBits * (w - k + 1) <= ByteBits * w
  BY <1>5, <1>6
<1>8. k > 1 => ByteBits * (w - k + 1) <= ByteBits * (w - 1)
  BY <1>5, <1>6
<1>9. ByteBits * w \in Nat /\ ByteBits * (w - 1) \in Nat /\ ByteBits * (w - k + 1) \in Nat
  BY <1>1, <1>6
<1> QED  BY ONLY <1>1, <1>4, <1>6, <1>7, <1>8, <1>9

LEMMA BitsBounded ==
    ASSUME NEW w \in Nat \ {0}, NEW f \in [1 .. w -> Byte]
    PROVE  Bounded(Bits(f))
<1>1. ByteBits * w \in Nat
  BY DegreeIs
<1>2. ASSUME NEW e \in Bits(f) PROVE e \in 0 .. ByteBits * w
  <2>1. PICK k \in 1 .. w : e \in Times(f[k], ByteBits * (w - k))
    BY BitsAre
  <2>2. PICK b \in Byte : b = f[k]
    OBVIOUS
  <2>3. e \in Nat /\ e < ByteBits * w
    BY <2>1, <2>2, BitsRange
  <2> QED  BY <1>1, <2>3
<1> QED  BY <1>1, <1>2 DEF Bounded

(* The oldest byte leaves the bits of the window, the others move up.      *)
LEMMA BitsSlide ==
    ASSUME NEW w \in Nat \ {0}, NEW f \in [1 .. w -> Byte], NEW g \in [1 .. w -> Byte],
           MovedUp(f, g, w)
    PROVE  \E rest : /\ Bounded(rest)
                     /\ Plus(Bits(f), Times(f[1], ByteBits * (w - 1))) = rest
                     /\ Bits(g) = Times(rest, ByteBits) \cup g[w]
<1> DEFINE rest == UNION {Times(f[k], ByteBits * (w - k)) : k \in 2 .. w}
           first == Times(f[1], ByteBits * (w - 1))
<1>0. /\ ByteBits \in Nat /\ w - 1 \in Nat /\ ByteBits * (w - 1) \in Nat
      /\ \A k \in 1 .. w : f[k] \in Byte /\ g[k] \in Byte
      /\ 1 \in 1 .. w /\ w \in 1 .. w
  BY DegreeIs
<1>1. Bits(f) = first \cup rest
  <2>1. 1 .. w = {1} \cup 2 .. w
    OBVIOUS
  <2> DEFINE T(k) == Times(f[k], ByteBits * (w - k))
  <2>2. Bits(f) = UNION {T(k) : k \in {1} \cup 2 .. w}
    BY <2>1, BitsAre
  <2>3. first = T(1) /\ rest = UNION {T(k) : k \in 2 .. w}
    OBVIOUS
  <2> HIDE DEF T, first, rest
  <2> QED  BY <2>2, <2>3
<1>2. ASSUME NEW e \in rest PROVE e \in 0 .. ByteBits * (w - 1) /\ e < ByteBits * (w - 1)
  <2>1. PICK k \in 2 .. w : e \in Times(f[k], ByteBits * (w - k))
    OBVIOUS
  <2>2. k \in 1 .. w /\ k > 1
    OBVIOUS
  <2>3. PICK b \in Byte : b = f[k]
    BY <2>2
  <2>4. e \in Nat /\ e < ByteBits * (w - 1)
    BY ONLY <2>1, <2>2, <2>3, BitsRange, w \in Nat \ {0}
  <2> QED  BY <2>4, <1>0
<1>3. Bounded(rest)
  <2> HIDE DEF rest
  <2> QED  BY <1>0, <1>2 DEF Bounded
<1>4. ASSUME NEW e \in first PROVE e \notin rest
  <2>1. PICK a \in f[1] : e = a + ByteBits * (w - 1)
    BY DEF Times
  <2>2. a \in Nat
    BY <1>0, ByteIs DEF Poly
  <2>3. ~(e < ByteBits * (w - 1))
    BY <1>0, <2>1, <2>2
  <2> HIDE DEF rest, first
  <2> QED  BY <2>3, <1>2
<1>5. Plus(Bits(f), first) = rest
  <2> HIDE DEF rest, first
  <2> QED  BY <1>1, <1>4 DEF Plus
<1>6. Bits(g) = Times(rest, ByteBits) \cup g[w]
  <2>1. Bits(g) = UNION {Times(g[k], ByteBits * (w - k)) : k \in 1 .. w}
    BY BitsAre
  <2>2. Times(g[w], ByteBits * (w - w)) = g[w]
    <3>1. w - w = 0 /\ ByteBits * 0 = 0 /\ g[w] \in Poly
      BY <1>0, ByteIs
    <3> QED  BY <3>1, TimesZero
  <2>3. ASSUME NEW k \in 1 .. w - 1
        PROVE  /\ k + 1 \in 2 .. w /\ k \in 1 .. w
               /\ Times(g[k], ByteBits * (w - k)) = Times(Times(f[k + 1], ByteBits * (w - (k + 1))), ByteBits)
    <3>1. k + 1 \in 1 .. w /\ k + 1 \in 2 .. w /\ k \in 1 .. w /\ w - (k + 1) \in Nat
      OBVIOUS
    <3>2. /\ ByteBits * (w - (k + 1)) \in Nat
          /\ ByteBits * (w - (k + 1)) + ByteBits = ByteBits * ((w - (k + 1)) + 1)
          /\ (w - (k + 1)) + 1 = w - k
      BY <3>1, <1>0
    <3>3. f[k + 1] \in Poly
      BY <3>1, <1>0, ByteIs
    <3>4. PICK m \in Nat : m = ByteBits * (w - (k + 1))
      BY <3>2
    <3>5. ByteBits * (w - k) = m + ByteBits
      BY <3>2, <3>4
    <3>6. Times(Times(f[k + 1], m), ByteBits) = Times(f[k + 1], m + ByteBits)
      BY <3>3, <1>0, TimesTimes
    <3>7. g[k] = f[k + 1]
      BY DEF MovedUp
    <3> QED  BY ONLY <3>1, <3>4, <3>5, <3>6, <3>7
  <2>4. ASSUME NEW e \in Bits(g) PROVE e \in Times(rest, ByteBits) \cup g[w]
    <3>1. PICK k \in 1 .. w : e \in Times(g[k], ByteBits * (w - k))
      BY <2>1
    <3>2. CASE k = w
      BY <3>1, <3>2, <2>2
    <3>3. CASE k # w
      <4>1. k \in 1 .. w - 1
        BY <3>3
      <4>2. e \in Times(Times(f[k + 1], ByteBits * (w - (k + 1))), ByteBits)
        BY <3>1, <4>1, <2>3
      <4>3. PICK a \in Times(f[k + 1], ByteBits * (w - (k + 1))) : e = a + ByteBits
        BY <4>2 DEF Times
      <4>4. a \in rest
        BY <4>1, <4>3, <2>3
      <4> HIDE DEF rest
      <4> QED  BY <4>3, <4>4 DEF Times
    <3> QED  BY <3>2, <3>3
  <2>5. ASSUME NEW e \in Times(rest, ByteBits) PROVE e \in Bits(g)
    <3>1. PICK a \in rest : e = a + ByteBits
      BY <2>5 DEF Times
    <3>2. PICK i \in 2 .. w : a \in Times(f[i], ByteBits * (w - i))
      OBVIOUS
    <3>3. i - 1 \in 1 .. w - 1 /\ (i - 1) + 1 = i
      OBVIOUS
    <3>4. e \in Times(Times(f[i], ByteBits * (w - i)), ByteBits)
      BY <3>1, <3>2 DEF Times
    <3>5. e \in Times(g[i - 1], ByteBits * (w - (i - 1))) /\ i - 1 \in 1 .. w
      BY <3>3, <3>4, <2>3
    <3> QED  BY <3>5, <2>1
  <2>6. ASSUME NEW e \in g[w] PROVE e \in Bits(g)
    BY <2>1, <2>2, <1>0
  <2> HIDE DEF rest
  <2> QED  BY <2>4, <2>5, <2>6
<1> QED  BY <1>3, <1>5, <1>6

(* The digest of the window before gives that of the next one.             *)
LEMMA DigestSlides ==
    ASSUME NEW w \in Nat \ {0}, NEW f \in [1 .. w -> Byte], NEW g \in [1 .. w -> Byte],
           MovedUp(f, g, w)
    PROVE  rabin_append(Plus(Mod(Bits(f)), OutTable(w)[f[1]]), g[w]) = Mod(Bits(g))
<1> DEFINE first == Times(f[1], ByteBits * (w - 1))
<1>0. /\ ByteBits \in Nat /\ w - 1 \in Nat /\ ByteBits * (w - 1) \in Nat
      /\ f[1] \in Byte /\ g[w] \in Byte
  BY DegreeIs
<1>1. PICK rest : /\ Bounded(rest)
                  /\ Plus(Bits(f), first) = rest
                  /\ Bits(g) = Times(rest, ByteBits) \cup g[w]
  BY BitsSlide
<1>2. OutTable(w)[f[1]] = Mod(first)
  BY <1>0, ZerosShift DEF OutTable
<1>3. Bounded(Bits(f)) /\ Bounded(first) /\ Bounded(g[w]) /\ Mod(g[w]) = g[w] /\ g[w] \in Poly
  BY <1>0, BitsBounded, ByteIs, BoundedIs
<1> HIDE DEF first
<1>4. Plus(Mod(Bits(f)), OutTable(w)[f[1]]) = Mod(rest)
  BY <1>1, <1>2, <1>3, Remainder, 0 \in Nat
<1>5. Mod(rest) \in SUBSET (0 .. Degree - 1) /\ Bounded(Mod(rest))
  BY <1>1, Remainder, 0 \in Nat
<1>6. rabin_append(Mod(rest), g[w]) = Mod(Times(Mod(rest), ByteBits) \cup g[w])
  BY <1>0, <1>5, AppendReduces
<1>7. ASSUME NEW x, Bounded(x)
      PROVE  /\ Bounded(Times(x, ByteBits))
             /\ Mod(Times(x, ByteBits) \cup g[w]) = Plus(Mod(Times(x, ByteBits)), g[w])
  <2>1. Bounded(Times(x, ByteBits)) /\ x \in Poly
    BY <1>0, <1>7, BoundedIs
  <2>2. Times(x, ByteBits) \cup g[w] = Plus(Times(x, ByteBits), g[w])
    <3>1. \A e \in Times(x, ByteBits) : e \in Nat /\ e >= ByteBits
      <4>1. Times(x, ByteBits) \in Poly /\ \A e \in Nat : e \in Times(x, ByteBits) => e >= ByteBits
        BY <2>1, <1>0, Sums
      <4> QED  BY <4>1 DEF Poly
    <3>2. \A e \in g[w] : e \in Nat /\ ~(e >= ByteBits)
      BY <1>0, ByteIs
    <3> QED  BY <3>1, <3>2 DEF Plus
  <2>3. Mod(Plus(Times(x, ByteBits), g[w])) = Plus(Mod(Times(x, ByteBits)), Mod(g[w]))
    <3>1. PICK y : y = Times(x, ByteBits)
      OBVIOUS
    <3>2. PICK b : b = g[w]
      OBVIOUS
    <3>3. Bounded(y) /\ Bounded(b)
      BY <2>1, <1>3, <3>1, <3>2
    <3>4. Mod(Plus(y, b)) = Plus(Mod(y), Mod(b))
      BY ONLY <3>3, Remainder, 0 \in Nat
    <3> QED  BY <3>1, <3>2, <3>4
  <2> QED  BY <2>1, <2>2, <2>3, <1>3
<1>8. Mod(Times(Mod(rest), ByteBits)) = Mod(Times(rest, ByteBits))
  BY <1>0, <1>1, Remainder
<1> QED  BY <1>1, <1>4, <1>5, <1>6, <1>7, <1>8
-----------------------------------------------------------------------------
(* The window is made of bytes, and the digest is the remainder of its     *)
(* bits.                                                                   *)
Rolled(o, h) ==
    LET w == WinSize(o)
    IN  /\ h.window \in [0 .. w - 1 -> Byte]
        /\ h.wpos \in 0 .. w - 1
        /\ h.digest = Mod(Bits(Unrolled(h.window, h.wpos, w)))

(* Options, image and walk are what they should be; so is a Rabin digest.  *)
DigestInv ==
    /\ opt \in Cases
    /\ cell \in [(0 .. opt.h - 1) \X (0 .. opt.w - 1) -> Blocks]
    /\ band \in Nat /\ pos \in Nat
    /\ opt.method = "rabin" => Rolled(opt, hash)

(* The options have a window of at least a byte.                           *)
LEMMA CaseIs ==
    ASSUME NEW o \in Cases
    PROVE  /\ o.method \in {"2df", "rabin", "gear"} /\ o.dim \in 0 .. 2
           /\ o.side \in Nat \ {0} /\ o.w \in Nat \ {0} /\ o.h \in Nat \ {0}
           /\ o.dim = 0 => o.w >= o.side /\ o.h >= o.side
           /\ WinSize(o) \in Nat \ {0}
<1>1. o \in [method : {"2df", "rabin", "gear"}, dim : 0 .. 2,
             side : Nat \ {0}, w : Nat \ {0}, h : Nat \ {0}]
  BY CasesAssumption
<1>2. o.side \in Nat \ {0} /\ o.dim \in 0 .. 2 /\ WordBits \in Nat \ {0}
  BY <1>1, DegreeIs
<1>3. /\ o.side * o.side \in Nat \ {0} /\ o.side * WordBits \in Nat \ {0}
      /\ \A a, b \in Nat \ {0} : a * b \in Nat \ {0}
  BY <1>2
<1>4. o.side * o.side * WordBits \in Nat \ {0}
  BY <1>2, <1>3
<1>5. o.dim = 0 \/ o.dim = 1 \/ o.dim = 2
  BY <1>2
<1>6. WinSize(o) \in Nat \ {0}
  BY ONLY <1>2, <1>3, <1>4, <1>5 DEF WinSize, BlockBytes
<1> QED  BY <1>1, <1>6, CasesAssumption

(* A byte slid in is the last of the window, and the others move up.       *)
LEMMA SlideMoves ==
    ASSUME NEW o \in Cases, NEW h, Rolled(o, h), NEW b \in Byte
    PROVE  LET w == WinSize(o)
               s == Slide(o, h, b)
               f == Unrolled(h.window, h.wpos, w)
               g == Unrolled(s.window, s.wpos, w)
           IN  /\ s.window \in [0 .. w - 1 -> Byte] /\ s.wpos \in 0 .. w - 1
               /\ f \in [1 .. w -> Byte] /\ g \in [1 .. w -> Byte]
               /\ f[1] = h.window[h.wpos] /\ g[w] = b /\ MovedUp(f, g, w)
<1> DEFINE w == WinSize(o)
           f == Unrolled(h.window, h.wpos, w)
           s == Slide(o, h, b)
           g == Unrolled(s.window, s.wpos, w)
<1>1. w \in Nat \ {0}
  BY CaseIs
<1>2. h.window \in [0 .. w - 1 -> Byte] /\ h.wpos \in 0 .. w - 1 /\ h.digest = Mod(Bits(f))
  BY DEF Rolled
<1>3. /\ s.window = [h.window EXCEPT ![h.wpos] = b]
      /\ s.wpos = (h.wpos + 1) % w
      /\ s.digest = rabin_append(Plus(h.digest, OutTables[o][h.window[h.wpos]]), b)
  BY DEF Slide
<1>5. s.window \in [0 .. w - 1 -> Byte]
  BY <1>2, <1>3
<1> HIDE DEF w, s
<1>6. /\ f \in [1 .. w -> Byte] /\ g \in [1 .. w -> Byte] /\ s.wpos \in 0 .. w - 1
      /\ f[1] = h.window[h.wpos] /\ g[w] = b /\ MovedUp(f, g, w)
  <2>1. PICK window \in [0 .. w - 1 -> Byte] : window = h.window
    BY ONLY <1>2
  <2>2. PICK p \in 0 .. w - 1 : p = h.wpos
    BY ONLY <1>2
  <2>3. PICK next \in [0 .. w - 1 -> Byte] : next = s.window
    BY ONLY <1>5
  <2>4. next = [window EXCEPT ![p] = b]
    BY ONLY <1>3, <2>1, <2>2, <2>3
  <2>5. s.wpos = After(p, w)
    BY ONLY <1>3, <2>2 DEF After
  <2>6. f = Unrolled(window, p, w) /\ g = Unrolled(next, After(p, w), w)
    BY <2>1, <2>2, <2>3, <2>5
  <2>7. After(p, w) \in 0 .. w - 1 /\ Unrolled(window, p, w) \in [1 .. w -> Byte]
    BY ONLY <1>1, <2>1, <2>2, UnrolledIs
  <2>8. Unrolled(next, After(p, w), w) \in [1 .. w -> Byte]
    BY ONLY <1>1, <2>3, <2>7, UnrolledIs
  <2>9. /\ Unrolled(window, p, w)[1] = window[p]
        /\ Unrolled(next, After(p, w), w)[w] = b
        /\ MovedUp(Unrolled(window, p, w), Unrolled(next, After(p, w), w), w)
    BY ONLY <1>1, <2>1, <2>2, <2>4, WindowSlides, b \in Byte
  <2> HIDE DEF f, g
  <2> QED  BY ONLY <2>1, <2>2, <2>5, <2>6, <2>7, <2>8, <2>9
<1> HIDE DEF f, g
<1> QED  BY ONLY <1>5, <1>6 DEF w, s, f, g

(* A byte slid in leaves the digest that of the window.                    *)
LEMMA SlideKeeps ==
    ASSUME NEW o \in Cases, o.method = "rabin", NEW h, Rolled(o, h), NEW b \in Byte
    PROVE  Rolled(o, Slide(o, h, b))
<1> DEFINE w == WinSize(o)
           f == Unrolled(h.window, h.wpos, w)
           s == Slide(o, h, b)
           g == Unrolled(s.window, s.wpos, w)
<1>1. w \in Nat \ {0}
  BY CaseIs
<1>2. h.window \in [0 .. w - 1 -> Byte] /\ h.wpos \in 0 .. w - 1 /\ h.digest = Mod(Bits(f))
  BY DEF Rolled
<1>3. s.digest = rabin_append(Plus(h.digest, OutTables[o][h.window[h.wpos]]), b)
  BY DEF Slide
<1>4. OutTables[o] = OutTable(w)
  BY DEF OutTables
<1>5. /\ s.window \in [0 .. w - 1 -> Byte] /\ s.wpos \in 0 .. w - 1
      /\ f \in [1 .. w -> Byte] /\ g \in [1 .. w -> Byte]
      /\ f[1] = h.window[h.wpos] /\ g[w] = b /\ MovedUp(f, g, w)
  BY SlideMoves
<1> HIDE DEF w, s, f, g
<1>6. rabin_append(Plus(Mod(Bits(f)), OutTable(w)[f[1]]), g[w]) = Mod(Bits(g))
  BY ONLY <1>1, <1>5, DigestSlides
<1>7. s.digest = Mod(Bits(g))
  BY ONLY <1>2, <1>3, <1>4, <1>5, <1>6
<1> QED  BY <1>5, <1>7 DEF Rolled, w, s, g

(* An empty window has the digest of no bits.                              *)
LEMMA EmptyRolled == ASSUME NEW o \in Cases PROVE Rolled(o, Empty(o))
<1> DEFINE w == WinSize(o)
           none == [k \in 0 .. w - 1 |-> {}]
           f == Unrolled(none, 0, w)
<1>1. w \in Nat \ {0} /\ {} \in Byte
  BY CaseIs DEF Byte
<1> HIDE DEF w
<1>2. none \in [0 .. w - 1 -> Byte] /\ 0 \in 0 .. w - 1
  BY <1>1
<1>3. f \in [1 .. w -> Byte] /\ \A k \in 1 .. w : f[k] = {}
  <2>1. \A k \in 1 .. w : Place(0, k, w) \in 0 .. w - 1
    BY ONLY <1>1, <1>2, PlaceIs
  <2>2. \A k \in 1 .. w : none[Place(0, k, w)] = {}
    BY <2>1
  <2> HIDE DEF none
  <2> QED  BY <2>2, <1>1 DEF Unrolled
<1> HIDE DEF f
<1>4. Bits(f) = {}
  <2>1. Bits(f) = UNION {Times(f[k], ByteBits * (w - k)) : k \in 1 .. w}
    BY <1>1, <1>3, BitsAre
  <2>2. \A k \in 1 .. w : Times(f[k], ByteBits * (w - k)) = {}
    BY <1>3, TimesEmpty
  <2> QED  BY <2>1, <2>2
<1>5. Mod({}) = {}
  BY <1>1, ByteIs
<1> QED  BY <1>2, <1>4, <1>5 DEF Rolled, Empty, w, f

(* What is below a product, divided by one of its factors, is below the    *)
(* other.                                                                  *)
LEMMA Quotient ==
    ASSUME NEW a \in Nat \ {0}, NEW b \in Nat \ {0}, NEW n \in Nat, n < a * b
    PROVE  n \div b \in 0 .. a - 1 /\ n % b \in 0 .. b - 1
<1>1. n \div b \in Nat /\ n % b \in 0 .. b - 1 /\ n = ((n \div b) * b) + (n % b)
  OBVIOUS
<1>2. PICK q \in Nat : q = n \div b
  BY <1>1
<1>3. q * b <= n /\ q * b \in Nat /\ a * b \in Nat
  BY <1>1, <1>2
<1>4. q < a
  <2> SUFFICES ASSUME q >= a PROVE FALSE
    BY <1>2
  <2>1. q - a \in Nat /\ (q - a) * b \in Nat /\ q * b = (a * b) + ((q - a) * b)
    BY <1>2
  <2> QED  BY <2>1, <1>3
<1> QED  BY <1>1, <1>2, <1>4

(* The image has a block at each of its places.                            *)
Complete(o, image) == image \in [(0 .. o.h - 1) \X (0 .. o.w - 1) -> Blocks]

LEMMA BlockBytesIs ==
    /\ BlockBytes \in Nat \ {0}
    /\ \A block \in Blocks : block \in Seq(Byte) /\ Len(block) = BlockBytes
    /\ \A block \in Blocks, n \in Nat : InBlock(block, n) \in Byte
<1>1. BlockBytes \in Nat \ {0}
  BY DegreeIs DEF BlockBytes
<1>2. ASSUME NEW block \in Blocks PROVE block \in Seq(Byte) /\ Len(block) = BlockBytes
  BY BlocksAssumption DEF BlockBytes
<1>3. ASSUME NEW block \in Blocks, NEW n \in Nat PROVE InBlock(block, n) \in Byte
  <2>1. (n % BlockBytes) + 1 \in 1 .. BlockBytes
    BY <1>1
  <2>2. block[(n % BlockBytes) + 1] \in Byte
    BY <2>1, <1>2
  <2> QED  BY <2>2 DEF InBlock
<1> QED  BY <1>1, <1>2, <1>3

(* The walks stay inside the image.                                        *)
LEMMA ColumnIsBlock ==
    ASSUME NEW o \in Cases, o.dim = 0, Complete(o, cell), NEW i \in 0 .. o.h - o.side,
           NEW n \in 0 .. (o.w * o.side) - 1
    PROVE  Column(o, i, n) \in Blocks
<1>1. o.side \in Nat \ {0} /\ o.w \in Nat \ {0} /\ o.h \in Nat \ {0} /\ o.h >= o.side
  BY CaseIs
<1>2. o.w * o.side \in Nat /\ n \in Nat /\ n < o.w * o.side
  BY <1>1
<1>3. n \div o.side \in 0 .. o.w - 1 /\ n % o.side \in 0 .. o.side - 1
  BY ONLY <1>1, <1>2, Quotient
<1>4. i + (n % o.side) \in 0 .. o.h - 1
  BY ONLY <1>1, <1>3, i \in 0 .. o.h - o.side
<1>5. PICK r \in 0 .. o.h - 1, c \in 0 .. o.w - 1 : r = i + (n % o.side) /\ c = n \div o.side
  BY ONLY <1>3, <1>4
<1>6. cell[r, c] \in Blocks
  BY ONLY Complete(o, cell), r \in 0 .. o.h - 1, c \in 0 .. o.w - 1 DEF Complete
<1> QED  BY ONLY <1>5, <1>6 DEF Column

LEMMA RasterIsBlock ==
    ASSUME NEW o \in Cases, Complete(o, cell), NEW n \in 0 .. (o.w * o.h) - 1
    PROVE  Raster(o, n) \in Blocks
<1>1. o.w \in Nat \ {0} /\ o.h \in Nat \ {0}
  BY CaseIs
<1>2. o.h * o.w \in Nat /\ n \in Nat /\ n < o.h * o.w
  BY <1>1
<1>3. n \div o.w \in 0 .. o.h - 1 /\ n % o.w \in 0 .. o.w - 1
  BY ONLY <1>1, <1>2, Quotient
<1>4. PICK r \in 0 .. o.h - 1, c \in 0 .. o.w - 1 : r = n \div o.w /\ c = n % o.w
  BY ONLY <1>3
<1>5. cell[r, c] \in Blocks
  BY ONLY Complete(o, cell), r \in 0 .. o.h - 1, c \in 0 .. o.w - 1 DEF Complete
<1> QED  BY ONLY <1>4, <1>5 DEF Raster

(* What rabin_slide is given is a byte of the image.                       *)
LEMMA UnitIsByte ==
    ASSUME NEW o \in Cases, o.method = "rabin", Complete(o, cell),
           NEW i \in Nat, i < Bands(o), NEW n \in Nat, n < Units(o)
    PROVE  Unit(o, i, n) \in Byte
<1> DEFINE q == n \div BlockBytes
<1>1. /\ o.side \in Nat \ {0} /\ o.w \in Nat \ {0} /\ o.h \in Nat \ {0}
      /\ o.dim \in 0 .. 2 /\ BlockBytes \in Nat \ {0}
      /\ o.w * o.side \in Nat \ {0} /\ o.w * o.h \in Nat \ {0}
  <2>1. \A a, b \in Nat \ {0} : a * b \in Nat \ {0}
    OBVIOUS
  <2> QED  BY <2>1, CaseIs, BlockBytesIs
<1>2. CASE o.dim = 0
  <2>1. Units(o) = o.w * o.side * BlockBytes /\ Bands(o) = o.h - o.side + 1
    BY <1>2 DEF Units, Bands
  <2>2. q \in 0 .. (o.w * o.side) - 1 /\ i \in 0 .. o.h - o.side
    BY <1>1, <2>1, Quotient
  <2>3. Column(o, i, q) \in Blocks
    BY <2>2, <1>2, ColumnIsBlock
  <2>4. Unit(o, i, n) = InBlock(Column(o, i, q), n)
    BY <1>2, ZenonT(30) DEF Unit
  <2> QED  BY <2>3, <2>4, BlockBytesIs
<1>3. CASE o.dim # 0
  <2>1. Units(o) = o.w * o.h * BlockBytes
    BY <1>3 DEF Units, ByteCount
  <2>2. q \in 0 .. (o.w * o.h) - 1
    BY <1>1, <2>1, Quotient
  <2>3. Raster(o, q) \in Blocks
    BY <2>2, RasterIsBlock
  <2>4. Unit(o, i, n) = InBlock(Raster(o, q), n)
    BY <1>3, ZenonT(30) DEF Unit
  <2> QED  BY <2>3, <2>4, BlockBytesIs
<1> QED  BY <1>2, <1>3

LEMMA ResetRolled == ASSUME NEW o \in Cases, o.method = "rabin" PROVE Rolled(o, Reset(o))
<1>1. {0} \in Byte
  BY DegreeIs DEF Byte
<1> QED  BY <1>1, EmptyRolled, SlideKeeps DEF Reset

(* Each step of compute_features keeps it.                                 *)
LEMMA DigestInvHolds == FeaturesSpec => []DigestInv
<1>1. FeaturesInit => DigestInv
  <2> SUFFICES ASSUME FeaturesInit PROVE DigestInv
    OBVIOUS
  <2>1. /\ opt \in Cases /\ band = 0 /\ pos = 0 /\ hash = Fresh(opt)
        /\ cell \in [(0 .. opt.h - 1) \X (0 .. opt.w - 1) -> Blocks]
    BY DEF FeaturesInit
  <2>2. opt.method = "rabin" => hash = Reset(opt)
    BY <2>1 DEF Fresh
  <2> QED  BY <2>1, <2>2, ResetRolled DEF DigestInv
<1>2. ASSUME DigestInv, Roll PROVE DigestInv'
  <2>1. /\ opt' = opt /\ cell' = cell /\ band' = band /\ pos' = pos + 1
        /\ band < Bands(opt) /\ pos < Units(opt)
        /\ hash' = Take(opt, hash, Unit(opt, band, pos))
    BY <1>2 DEF Roll
  <2>2. ASSUME opt.method = "rabin" PROVE Rolled(opt, hash')
    <3>1. hash' = Slide(opt, hash, Unit(opt, band, pos))
      BY <2>1, <2>2 DEF Take
    <3>2. Unit(opt, band, pos) \in Byte
      BY <1>2, <2>1, <2>2, UnitIsByte DEF DigestInv, Complete
    <3> QED  BY <3>1, <3>2, <1>2, <2>2, SlideKeeps DEF DigestInv
  <2> QED  BY <2>1, <2>2, <1>2 DEF DigestInv
<1>3. ASSUME DigestInv, NextBand PROVE DigestInv'
  <2>1. opt' = opt /\ cell' = cell /\ band' = band + 1 /\ pos' = 0 /\ hash' = Fresh(opt)
    BY <1>3 DEF NextBand
  <2>2. opt.method = "rabin" => hash' = Reset(opt)
    BY <2>1 DEF Fresh
  <2> QED  BY <2>1, <2>2, <1>3, ResetRolled DEF DigestInv
<1>4. ASSUME DigestInv, Sum \/ UNCHANGED featuresVars PROVE DigestInv'
  BY <1>4 DEF DigestInv, Sum, featuresVars
<1>5. DigestInv /\ [FeaturesNext]_featuresVars => DigestInv'
  BY <1>2, <1>3, <1>4 DEF FeaturesNext
<1> QED  BY <1>1, <1>5, PTL DEF FeaturesSpec

(* Whatever the polynomial, the widths, the window and the image: after    *)
(* every byte the digest of rabin_slide is the remainder of the window.    *)
THEOREM DigestOfWindow == FeaturesSpec => []DigestIsHash
<1>1. DigestInv => DigestIsHash
  BY DEF DigestInv, Rolled, Unrolled, Place, DigestIsHash
<1> QED  BY <1>1, DigestInvHolds, PTL

-----------------------------------------------------------------------------
(* Numbers of words.                                                       *)
LEMMA PowIs ==
    /\ DOMAIN Pow = 0 .. WordBits
    /\ \A k \in 0 .. WordBits : Pow[k] \in Nat \ {0}
<1> DEFINE G(f) == [k \in 0 .. WordBits |-> IF k = 0 THEN 1 ELSE 2 * f[k - 1]]
           h == [x \in Nat \X (1 .. WordBits) |-> 2 * x[1]]
<1>1. WordBits \in Nat
  BY DegreeIs
<1>2. h \in [Nat \X (1 .. WordBits) -> Nat]
  <2>1. \A x \in Nat \X (1 .. WordBits) : x[1] \in Nat
    OBVIOUS
  <2> QED  BY <2>1
<1>3. PICK f : Follows(f, WordBits, Nat, 1, h)
  <2> HIDE DEF h
  <2> QED  BY <1>1, <1>2, Recursion
<1>4. f = G(f)
  <2>1. DOMAIN f = 0 .. WordBits /\ f[0] = 1 /\ f = [k \in 0 .. WordBits |-> f[k]]
    BY <1>3 DEF Follows
  <2>2. ASSUME NEW k \in 0 .. WordBits PROVE f[k] = IF k = 0 THEN 1 ELSE 2 * f[k - 1]
    <3>1. CASE k # 0
      <4>1. k \in 1 .. WordBits /\ k - 1 \in 0 .. WordBits
        BY <3>1, <1>1
      <4>2. f[k] = h[<<f[k - 1], k>>] /\ f[k - 1] \in Nat
        <5> HIDE DEF h
        <5> QED  BY <4>1, <1>3 DEF Follows
      <4> QED  BY <4>1, <4>2, <3>1
    <3> QED  BY <3>1, <2>1
  <2> QED  BY <2>1, <2>2
<1>5. Pow = G(Pow)
  <2>1. PICK g : g = CHOOSE x : x = G(x)
    OBVIOUS
  <2>2. g = G(g)
    <3> HIDE DEF G
    <3> QED  BY <1>4, <2>1
  <2>3. Pow = g
    BY <2>1 DEF Pow
  <2> HIDE DEF G
  <2> QED  BY <2>2, <2>3
<1> DEFINE S == {k \in 0 .. WordBits : Pow[k] \in Nat \ {0}}
<1>6. 0 \in S
  <2>1. Pow[0] = 1 /\ 0 \in 0 .. WordBits
    BY <1>1, <1>5
  <2> QED  BY <2>1
<1>7. ASSUME NEW k \in 1 .. WordBits, k - 1 \in S PROVE k \in S
  <2>1. Pow[k] = 2 * Pow[k - 1] /\ k \in 0 .. WordBits
    BY <1>1, <1>5
  <2> QED  BY <2>1, <1>7
<1> HIDE DEF S
<1>8. \A k \in 0 .. WordBits : k \in S
  BY <1>1, <1>6, <1>7, InductionTo
<1>9. DOMAIN Pow = 0 .. WordBits
  BY <1>5
<1> QED  BY <1>8, <1>9 DEF S

(* A step that leads from a number to a number, n times, from a number.    *)
LEMMA StepsTyped ==
    ASSUME NEW n \in Nat, NEW g, g[0] \in Nat,
           \A k \in 1 .. n : g[k - 1] \in Nat => g[k] \in Nat
    PROVE  \A k \in 0 .. n : g[k] \in Nat
<1> DEFINE S == {k \in 0 .. n : g[k] \in Nat}
<1>1. 0 \in S
  OBVIOUS
<1>2. ASSUME NEW k \in 1 .. n, k - 1 \in S PROVE k \in S
  <2>1. k \in 0 .. n /\ g[k - 1] \in Nat
    BY <1>2
  <2> QED  BY <2>1
<1> HIDE DEF S
<1>3. \A k \in 0 .. n : k \in S
  BY <1>1, <1>2, InductionTo
<1> QED  BY <1>3 DEF S

(* The number of a word.                                                   *)
LEMMA NumberIs == ASSUME NEW x PROVE Number(x) \in Nat
<1> DEFINE G(f) == [k \in 0 .. WordBits |->
                       IF k = 0 THEN 0 ELSE f[k - 1] + IF k - 1 \in x THEN Pow[k - 1] ELSE 0]
           h == [y \in Nat \X (1 .. WordBits) |->
                       y[1] + IF y[2] - 1 \in x THEN Pow[y[2] - 1] ELSE 0]
<1>1. WordBits \in Nat
  BY DegreeIs
<1>2. \A k \in 1 .. WordBits : k - 1 \in 0 .. WordBits /\ Pow[k - 1] \in Nat
  BY <1>1, PowIs
<1>3. h \in [Nat \X (1 .. WordBits) -> Nat]
  <2>1. ASSUME NEW y \in Nat \X (1 .. WordBits)
        PROVE  (y[1] + IF y[2] - 1 \in x THEN Pow[y[2] - 1] ELSE 0) \in Nat
    <3>1. y[1] \in Nat /\ y[2] \in 1 .. WordBits
      OBVIOUS
    <3>2. Pow[y[2] - 1] \in Nat
      BY <3>1, <1>2
    <3> QED  BY <3>1, <3>2
  <2> QED  BY <2>1
<1>4. PICK f : Follows(f, WordBits, Nat, 0, h)
  <2> HIDE DEF h
  <2> QED  BY <1>1, <1>3, Recursion
<1>5. f = G(f)
  <2>1. DOMAIN f = 0 .. WordBits /\ f[0] = 0 /\ f = [k \in 0 .. WordBits |-> f[k]]
    BY <1>4 DEF Follows
  <2>2. ASSUME NEW k \in 0 .. WordBits
        PROVE  f[k] = IF k = 0 THEN 0 ELSE f[k - 1] + IF k - 1 \in x THEN Pow[k - 1] ELSE 0
    <3>1. CASE k # 0
      <4>1. k \in 1 .. WordBits /\ k - 1 \in 0 .. WordBits
        BY <3>1, <1>1
      <4>2. f[k] = h[<<f[k - 1], k>>] /\ f[k - 1] \in Nat
        <5> HIDE DEF h
        <5> QED  BY <4>1, <1>4 DEF Follows
      <4> QED  BY <4>1, <4>2, <3>1
    <3> QED  BY <3>1, <2>1
  <2> QED  BY <2>1, <2>2
<1>6. PICK g : g = CHOOSE y : y = G(y)
  OBVIOUS
<1>7. g = G(g)
  <2> HIDE DEF G
  <2> QED  BY <1>5, <1>6
<1>8. Number(x) = g[WordBits]
  BY <1>6 DEF Number
<1>9. g[0] \in Nat /\ \A k \in 1 .. WordBits : g[k - 1] \in Nat => g[k] \in Nat
  <2>1. g[0] = 0 /\ 0 \in 0 .. WordBits
    BY <1>1, <1>7
  <2>2. ASSUME NEW k \in 1 .. WordBits, g[k - 1] \in Nat PROVE g[k] \in Nat
    <3>1. g[k] = g[k - 1] + IF k - 1 \in x THEN Pow[k - 1] ELSE 0
      BY <1>1, <1>7
    <3> QED  BY <3>1, <2>2, <1>2
  <2> QED  BY <2>1, <2>2
<1>10. \A k \in 0 .. WordBits : g[k] \in Nat
  BY ONLY <1>1, <1>9, StepsTyped
<1> QED  BY <1>1, <1>8, <1>10

(* What gear_slide returns is a word.                                      *)
LEMMA GearIs ==
    /\ \A x \in Nat, b \in Byte : gear_slide(x, b) \in Nat
    /\ \A m \in DOMAIN K, x \in Nat : Linear(m, x) \in Nat
<1>1. WordBits \in 0 .. WordBits /\ Pow[WordBits] \in Nat \ {0}
  BY DegreeIs, PowIs
<1> DEFINE M == Pow[WordBits]
<1>2. M \in Nat \ {0} /\ \A y \in Int : y % M \in Nat
  BY <1>1
<1>3. Word \subseteq Nat
  BY <1>1 DEF Word
<1>4. ASSUME NEW x \in Nat, NEW b \in Byte PROVE gear_slide(x, b) \in Nat
  <2>1. GearTable[b] \in Nat
    BY <1>3, TablesAssumption
  <2>2. 2 * x + GearTable[b] \in Int
    BY <2>1
  <2> QED  BY <2>2, <1>2 DEF gear_slide
<1>5. ASSUME NEW m \in DOMAIN K, NEW x \in Nat PROVE Linear(m, x) \in Nat
  <2>1. K[m] \in Nat /\ B[m] \in Nat
    <3>1. K \in Seq(Word) /\ B \in Seq(Word) /\ Len(K) = Len(B)
      BY TablesAssumption
    <3>2. m \in 1 .. Len(K) /\ m \in 1 .. Len(B)
      BY <3>1
    <3>3. K[m] \in Word /\ B[m] \in Word
      BY <3>1, <3>2
    <3> QED  BY <3>3, <1>3
  <2>2. K[m] * x + B[m] \in Int
    BY <2>1
  <2> QED  BY <2>2, <1>2 DEF Linear
<1> QED  BY <1>4, <1>5

LEMMA SlidOverIs ==
    ASSUME NEW c \in Seq(Byte), NEW from \in Nat, NEW n \in Nat, from + n <= Len(c)
    PROVE  SlidOver(c, from, n) \in Nat
<1> DEFINE G(f) == [k \in 0 .. n |-> IF k = 0 THEN 0 ELSE gear_slide(f[k - 1], c[from + k])]
           h == [y \in Nat \X (1 .. n) |-> gear_slide(y[1], c[from + y[2]])]
<1>1. ASSUME NEW x \in Nat, NEW k \in 1 .. n PROVE gear_slide(x, c[from + k]) \in Nat
  <2>1. from + k \in 1 .. Len(c)
    OBVIOUS
  <2>2. c[from + k] \in Byte
    BY <2>1
  <2> QED  BY <2>2, GearIs
<1>2. h \in [Nat \X (1 .. n) -> Nat]
  <2>1. \A y \in Nat \X (1 .. n) : y[1] \in Nat /\ y[2] \in 1 .. n
    OBVIOUS
  <2> QED  BY <2>1, <1>1
<1>3. PICK f : Follows(f, n, Nat, 0, h)
  <2> HIDE DEF h
  <2> QED  BY <1>2, Recursion
<1>4. f = G(f)
  <2>1. DOMAIN f = 0 .. n /\ f[0] = 0 /\ f = [k \in 0 .. n |-> f[k]]
    BY <1>3 DEF Follows
  <2>2. ASSUME NEW k \in 0 .. n
        PROVE  f[k] = IF k = 0 THEN 0 ELSE gear_slide(f[k - 1], c[from + k])
    <3>1. CASE k # 0
      <4>1. k \in 1 .. n /\ k - 1 \in 0 .. n
        BY <3>1
      <4>2. f[k] = h[<<f[k - 1], k>>] /\ f[k - 1] \in Nat
        <5> HIDE DEF h
        <5> QED  BY <4>1, <1>3 DEF Follows
      <4> QED  BY <4>1, <4>2, <3>1
    <3> QED  BY <3>1, <2>1
  <2> QED  BY <2>1, <2>2
<1>5. PICK g : g = CHOOSE y : y = G(y)
  OBVIOUS
<1>6. g = G(g)
  <2> HIDE DEF G
  <2> QED  BY <1>4, <1>5
<1>7. SlidOver(c, from, n) = g[n]
  BY <1>5 DEF SlidOver
<1>8. g[0] \in Nat /\ \A k \in 1 .. n : g[k - 1] \in Nat => g[k] \in Nat
  <2>1. g[0] = 0 /\ 0 \in 0 .. n
    BY <1>6
  <2>2. ASSUME NEW k \in 1 .. n, g[k - 1] \in Nat PROVE g[k] \in Nat
    <3>1. g[k] = gear_slide(g[k - 1], c[from + k])
      BY <1>6
    <3> QED  BY <3>1, <2>2, <1>1
  <2> QED  BY <2>1, <2>2
<1>9. \A k \in 0 .. n : g[k] \in Nat
  BY ONLY <1>8, StepsTyped, n \in Nat
<1> QED  BY <1>7, <1>9

LEMMA GearBlockIs == ASSUME NEW c \in Blocks PROVE gear_slide_a_block(c) \in Nat
<1> DEFINE middle == Len(c) \div 2
<1>1. c \in Seq(Byte) /\ Len(c) \in Nat
  BY BlockBytesIs
<1>2. middle \in Nat /\ middle <= Len(c) /\ Len(c) - middle \in Nat
  BY <1>1
<1> HIDE DEF middle
<1>3. SlidOver(c, 0, middle) \in Nat
  BY <1>1, <1>2, SlidOverIs
<1>4. SlidOver(c, middle, Len(c) - middle) \in Nat
  <2>1. PICK n \in Nat : n = Len(c) - middle
    BY <1>2
  <2>2. middle + n <= Len(c)
    BY <1>1, <1>2, <2>1
  <2> QED  BY <1>1, <1>2, <2>1, <2>2, SlidOverIs
<1>5. WordBits \in 0 .. WordBits /\ Pow[WordBits] \in Nat \ {0}
  BY DegreeIs, PowIs
<1>6. (SlidOver(c, 0, middle) + SlidOver(c, middle, Len(c) - middle)) % Pow[WordBits] \in Nat
  BY ONLY <1>3, <1>4, <1>5
<1> QED  BY <1>6 DEF gear_slide_a_block, middle

(* A remainder may be taken of a part of a sum first.                      *)
LEMMA RemainderOfSum ==
    ASSUME NEW m \in Nat \ {0}, NEW a \in Nat, NEW b \in Nat
    PROVE  ((a % m) + b) % m = (a + b) % m
<1>1. \A x \in Nat : x % m \in 0 .. m - 1 /\ x \div m \in Nat /\ x = ((x \div m) * m) + (x % m)
  OBVIOUS
<1>2. PICK q \in Nat, r \in 0 .. m - 1 : r = a % m /\ a = (q * m) + r
  BY <1>1
<1>3. PICK p \in Nat, s \in 0 .. m - 1 : s = (r + b) % m /\ r + b = (p * m) + s
  <2>1. r + b \in Nat
    OBVIOUS
  <2> QED  BY <2>1, <1>1
<1>4. PICK t \in Nat, u \in 0 .. m - 1 : u = (a + b) % m /\ a + b = (t * m) + u
  <2>1. a + b \in Nat
    OBVIOUS
  <2> QED  BY <2>1, <1>1
<1>5. (t * m) + u = ((q + p) * m) + s
  <2>1. (q + p) * m = (q * m) + (p * m)
    OBVIOUS
  <2> QED  BY <2>1, <1>2, <1>3, <1>4
<1>6. t = q + p
  <2>1. CASE t > q + p
    <3>1. PICK d \in Nat : t = q + p + d + 1
      <4>1. t - (q + p) - 1 \in Nat
        BY <2>1
      <4> QED  BY <4>1
    <3>2. t * m = ((q + p) * m) + (d * m) + m /\ d * m \in Nat
      BY <3>1
    <3> QED  BY <3>2, <1>5
  <2>2. CASE t < q + p
    <3>1. PICK d \in Nat : q + p = t + d + 1
      <4>1. (q + p) - t - 1 \in Nat
        BY <2>2
      <4> QED  BY <4>1
    <3>2. (q + p) * m = (t * m) + (d * m) + m /\ d * m \in Nat
      BY <3>1
    <3> QED  BY <3>2, <1>5
  <2> QED  BY <2>1, <2>2
<1>7. s = u
  BY <1>5, <1>6
<1> QED  BY <1>2, <1>3, <1>4, <1>7

(* A super feature that is kept a word at every step is the remainder of   *)
(* the sum.                                                                *)
LEMMA SumsAgree ==
    ASSUME max \in [DOMAIN K -> Nat], NEW i \in 1 .. Len(K) \div PerSF
    PROVE  Summed(i) = Total(max, i) % Pow[WordBits]
<1> DEFINE M == Pow[WordBits]
           at(j) == max[(i - 1) * PerSF + j]
           F(f) == [j \in 0 .. PerSF |-> IF j = 0 THEN 0 ELSE (f[j - 1] + at(j)) % M]
           G(f) == [j \in 0 .. PerSF |-> IF j = 0 THEN 0 ELSE f[j - 1] + at(j)]
           p == [y \in Nat \X (1 .. PerSF) |-> (y[1] + at(y[2])) % M]
           q == [y \in Nat \X (1 .. PerSF) |-> y[1] + at(y[2])]
<1>1. M \in Nat \ {0} /\ PerSF \in Nat \ {0}
  <2>1. WordBits \in 0 .. WordBits
    BY DegreeIs
  <2> QED  BY <2>1, PowIs, TablesAssumption
<1>2. ASSUME NEW j \in 1 .. PerSF PROVE at(j) \in Nat
  <2>1. K \in Seq(Word) /\ Len(K) \in Nat /\ DOMAIN K = 1 .. Len(K)
    BY TablesAssumption
  <2>2. Len(K) \div PerSF \in Nat /\ (Len(K) \div PerSF) * PerSF <= Len(K)
    BY <1>1, <2>1
  <2>3. PICK n \in Nat : n = Len(K) \div PerSF
    BY <2>2
  <2>4. PICK l \in Nat : l = Len(K)
    BY <2>1
  <2>5. PICK k \in Nat : n = i + k
    <3>1. n - i \in Nat
      BY <2>3
    <3> QED  BY <3>1
  <2>6. n * PerSF = (i - 1) * PerSF + PerSF + k * PerSF /\ k * PerSF \in Nat /\ (i - 1) * PerSF \in Nat
    BY <1>1, <2>3, <2>5
  <2>7. (i - 1) * PerSF + j \in 1 .. l
    BY <1>1, <2>2, <2>3, <2>4, <2>6
  <2> QED  BY <2>1, <2>4, <2>7
<1> HIDE DEF M, at
<1>3. ASSUME NEW x \in Nat, NEW j \in 1 .. PerSF PROVE x + at(j) \in Nat /\ (x + at(j)) % M \in Nat
  <2>1. PICK a \in Nat : a = at(j)
    BY <1>2
  <2>2. x + a \in Nat /\ (x + a) % M \in Nat
    BY <1>1
  <2> QED  BY <2>1, <2>2
<1>4. p \in [Nat \X (1 .. PerSF) -> Nat] /\ q \in [Nat \X (1 .. PerSF) -> Nat]
  <2>1. \A y \in Nat \X (1 .. PerSF) : y[1] \in Nat /\ y[2] \in 1 .. PerSF
    OBVIOUS
  <2> QED  BY <2>1, <1>3
<1>5. PICK f : Follows(f, PerSF, Nat, 0, p)
  <2> HIDE DEF p
  <2> QED  BY <1>1, <1>4, Recursion
<1>6. PICK g : Follows(g, PerSF, Nat, 0, q)
  <2> HIDE DEF q
  <2> QED  BY <1>1, <1>4, Recursion
<1>7. f = F(f)
  <2>1. DOMAIN f = 0 .. PerSF /\ f[0] = 0 /\ f = [j \in 0 .. PerSF |-> f[j]]
    BY <1>5 DEF Follows
  <2>2. ASSUME NEW j \in 0 .. PerSF
        PROVE  f[j] = IF j = 0 THEN 0 ELSE (f[j - 1] + at(j)) % M
    <3>1. CASE j # 0
      <4>1. j \in 1 .. PerSF /\ j - 1 \in 0 .. PerSF
        BY <3>1, <1>1
      <4>2. f[j] = p[<<f[j - 1], j>>] /\ f[j - 1] \in Nat
        <5> HIDE DEF p
        <5> QED  BY <4>1, <1>5 DEF Follows
      <4> QED  BY <4>1, <4>2, <3>1
    <3> QED  BY <3>1, <2>1
  <2> QED  BY <2>1, <2>2
<1>8. g = G(g)
  <2>1. DOMAIN g = 0 .. PerSF /\ g[0] = 0 /\ g = [j \in 0 .. PerSF |-> g[j]]
    BY <1>6 DEF Follows
  <2>2. ASSUME NEW j \in 0 .. PerSF
        PROVE  g[j] = IF j = 0 THEN 0 ELSE g[j - 1] + at(j)
    <3>1. CASE j # 0
      <4>1. j \in 1 .. PerSF /\ j - 1 \in 0 .. PerSF
        BY <3>1, <1>1
      <4>2. g[j] = q[<<g[j - 1], j>>] /\ g[j - 1] \in Nat
        <5> HIDE DEF q
        <5> QED  BY <4>1, <1>6 DEF Follows
      <4> QED  BY <4>1, <4>2, <3>1
    <3> QED  BY <3>1, <2>1
  <2> QED  BY <2>1, <2>2
<1>9. PICK s : s = CHOOSE y : y = F(y)
  OBVIOUS
<1>10. PICK t : t = CHOOSE y : y = G(y)
  OBVIOUS
<1>11. s = F(s) /\ t = G(t)
  <2> HIDE DEF F, G
  <2> QED  BY <1>7, <1>8, <1>9, <1>10
<1>12. Summed(i) = s[PerSF] /\ Total(max, i) = t[PerSF]
  BY <1>9, <1>10 DEF Summed, Total, M, at
<1>13. /\ s[0] = 0 /\ t[0] = 0
       /\ \A j \in 1 .. PerSF : s[j] = (s[j - 1] + at(j)) % M /\ t[j] = t[j - 1] + at(j)
  <2>1. 0 \in 0 .. PerSF /\ \A j \in 1 .. PerSF : j \in 0 .. PerSF /\ j # 0
    BY <1>1
  <2>2. s[0] = 0 /\ t[0] = 0
    BY <1>11, <2>1
  <2>3. \A j \in 1 .. PerSF : s[j] = (s[j - 1] + at(j)) % M /\ t[j] = t[j - 1] + at(j)
    BY <1>11, <2>1
  <2> QED  BY <2>2, <2>3
<1> DEFINE S == {j \in 0 .. PerSF : t[j] \in Nat /\ s[j] = t[j] % M}
<1>14. 0 \in S
  <2>1. 0 % M = 0 /\ 0 \in 0 .. PerSF
    <3>1. 0 \in 0 .. M - 1
      BY <1>1
    <3> QED  BY <1>1, <3>1, Wraps
  <2> QED  BY <2>1, <1>13
<1>15. ASSUME NEW j \in 1 .. PerSF, j - 1 \in S PROVE j \in S
  <2>1. j \in 0 .. PerSF /\ t[j - 1] \in Nat /\ s[j - 1] = t[j - 1] % M /\ at(j) \in Nat
    BY <1>15, <1>2
  <2>2. ((t[j - 1] % M) + at(j)) % M = (t[j - 1] + at(j)) % M
    BY ONLY <2>1, <1>1, RemainderOfSum
  <2>3. t[j] = t[j - 1] + at(j) /\ s[j] = (s[j - 1] + at(j)) % M
    BY <1>13
  <2>4. t[j] \in Nat /\ s[j] = t[j] % M
    BY ONLY <2>1, <2>2, <2>3
  <2> QED  BY <2>1, <2>4
<1> HIDE DEF S
<1>16. \A j \in 0 .. PerSF : j \in S
  BY ONLY <1>1, <1>14, <1>15, InductionTo
<1>17. PerSF \in 0 .. PerSF
  BY <1>1
<1>18. s[PerSF] = t[PerSF] % M
  BY <1>16, <1>17 DEF S
<1> QED  BY <1>12, <1>18 DEF M

-----------------------------------------------------------------------------
(* The units of a walk, by band and number: what the rolling value takes   *)
(* in.                                                                     *)
Walk(o) == [x \in Nat \X Nat |-> Unit(o, x[1], x[2])]

(* The last units of a window, n units of band i being in.                 *)
Stretch(o, u, i, n) == [k \in 1 .. First(o) |-> u[<<i, n - First(o) + k - 1>>]]

(* The bytes in the window of a Rabin fingerprint are the last n.          *)
WindowIs(o, u, h, i, n) ==
    LET w == WinSize(o)
        f == Unrolled(h.window, h.wpos, w)
    IN  \A k \in 1 .. w : n + k > w => f[k] = u[<<i, n - w + k - 1>>]

(* The register has the slots of the last blocks, the newest one lowest.   *)
Register(o, u, i, n) ==
    {e \in 0 .. WordBits - 1 : /\ e \div PerSlot(o) < n
                               /\ e % PerSlot(o) \in Slot(o, u[<<i, n - 1 - (e \div PerSlot(o))>>])}

(* The rolling value after n units of band i.                              *)
RollsOn(o, u, h, i, n) ==
    /\ o.method = "rabin" => Rolled(o, h) /\ WindowIs(o, u, h, i, n)
    /\ o.method = "2df" => h = Register(o, u, i, n)
    /\ o.method = "gear" /\ n > 0 => h = gear_slide_a_block(u[<<i, n - 1>>])

LEMMA WalkIs ==
    ASSUME NEW o, NEW i \in Nat, NEW n \in Nat
    PROVE  Walk(o)[<<i, n>>] = Unit(o, i, n)
BY DEF Walk

(* A window has a unit at least.                                           *)
LEMMA FirstIs ==
    ASSUME NEW o \in Cases
    PROVE  /\ First(o) \in Nat \ {0} /\ Every(o) \in Nat \ {0}
           /\ Units(o) \in Nat /\ Bands(o) \in Nat
<1>1. /\ o.method \in {"2df", "rabin", "gear"} /\ o.dim \in 0 .. 2
      /\ o.side \in Nat \ {0} /\ o.w \in Nat \ {0} /\ o.h \in Nat \ {0}
      /\ o.dim = 0 => o.w >= o.side /\ o.h >= o.side
      /\ WinSize(o) \in Nat \ {0}
  BY CaseIs
<1>2. WordBits \in Nat \ {0} /\ BlockBytes \in Nat \ {0}
  BY DegreeIs, BlockBytesIs
<1>3. /\ \A a, b \in Nat \ {0} : a * b \in Nat \ {0}
      /\ o.side * o.side \in Nat \ {0} /\ o.side * BlockBytes \in Nat \ {0}
      /\ o.w * o.side \in Nat \ {0} /\ o.w * o.h \in Nat \ {0}
  BY <1>1, <1>2
<1>4. /\ o.w * o.side * BlockBytes \in Nat \ {0}
      /\ o.w * o.h * BlockBytes \in Nat \ {0}
  BY ONLY <1>2, <1>3
<1>5. First(o) \in Nat \ {0}
  BY ONLY <1>1, <1>2, <1>3 DEF First
<1>6. Every(o) \in Nat \ {0}
  BY ONLY <1>1, <1>2, <1>3 DEF Every
<1>7. Units(o) \in Nat
  BY ONLY <1>1, <1>2, <1>3, <1>4 DEF Units, ByteCount
<1>8. Bands(o) \in Nat
  BY ONLY <1>1 DEF Bands
<1> QED  BY ONLY <1>5, <1>6, <1>7, <1>8

LEMMA StretchIs ==
    ASSUME NEW o \in Cases, NEW u, NEW i, NEW n
    PROVE  /\ DOMAIN Stretch(o, u, i, n) = 1 .. First(o) /\ Len(Stretch(o, u, i, n)) = First(o)
           /\ \A k \in 1 .. First(o) : Stretch(o, u, i, n)[k] = u[<<i, n - First(o) + k - 1>>]
<1>1. First(o) \in Nat \ {0}
  BY FirstIs
<1> QED  BY <1>1 DEF Stretch

(* A byte slid in.                                                         *)
LEMMA WindowRolls ==
    ASSUME NEW o \in Cases, o.method = "rabin", NEW u, NEW h, Rolled(o, h), NEW i \in Nat, NEW n \in Nat,
           WindowIs(o, u, h, i, n), u[<<i, n>>] \in Byte
    PROVE  WindowIs(o, u, Slide(o, h, u[<<i, n>>]), i, n + 1)
<1> DEFINE w == WinSize(o)
           b == u[<<i, n>>]
           s == Slide(o, h, b)
           f == Unrolled(h.window, h.wpos, w)
           g == Unrolled(s.window, s.wpos, w)
<1>1. w \in Nat \ {0}
  BY CaseIs
<1>2. g[w] = b /\ MovedUp(f, g, w)
  BY SlideMoves
<1>3. \A k \in 1 .. w : n + k > w => f[k] = u[<<i, n - w + k - 1>>]
  BY DEF WindowIs
<1> SUFFICES \A k \in 1 .. w : (n + 1) + k > w => g[k] = u[<<i, (n + 1) - w + k - 1>>]
  BY DEF WindowIs
<1> HIDE DEF w, f, g, s
<1> SUFFICES ASSUME NEW k \in 1 .. w, (n + 1) + k > w
             PROVE  g[k] = u[<<i, (n + 1) - w + k - 1>>]
  OBVIOUS
<1>4. CASE k = w
  <2>1. (n + 1) - w + k - 1 = n
    BY <1>1, <1>4
  <2> QED  BY <2>1, <1>2, <1>4
<1>5. CASE k # w
  <2>1. k \in 1 .. w - 1 /\ k + 1 \in 1 .. w /\ n + (k + 1) > w
    BY <1>1, <1>5
  <2>2. g[k] = f[k + 1]
    BY <2>1, <1>2 DEF MovedUp
  <2>3. f[k + 1] = u[<<i, n - w + (k + 1) - 1>>]
    BY <2>1, <1>3
  <2>4. n - w + (k + 1) - 1 = (n + 1) - w + k - 1
    BY <1>1
  <2> QED  BY <2>2, <2>3, <2>4
<1> QED  BY <1>4, <1>5

(* Quotient and remainder of a number that is given by them.               *)
LEMMA DivisionIs ==
    ASSUME NEW b \in Nat \ {0}, NEW q \in Nat, NEW r \in 0 .. b - 1
    PROVE  ((q * b) + r) \div b = q /\ ((q * b) + r) % b = r
<1>1. \A x \in Nat : x % b \in 0 .. b - 1 /\ x \div b \in Nat /\ x = ((x \div b) * b) + (x % b)
  OBVIOUS
<1>2. PICK x \in Nat : x = (q * b) + r
  <2>1. q * b \in Nat
    OBVIOUS
  <2> QED  BY <2>1
<1>3. PICK p \in Nat, s \in 0 .. b - 1 : p = x \div b /\ s = x % b /\ x = (p * b) + s
  BY <1>1
<1>4. p = q
  <2>1. CASE p > q
    <3>1. PICK d \in Nat : p = q + d + 1
      <4>1. p - q - 1 \in Nat
        BY <2>1
      <4> QED  BY <4>1
    <3>2. p * b = (q * b) + (d * b) + b /\ d * b \in Nat
      BY <3>1
    <3> QED  BY <3>2, <1>2, <1>3
  <2>2. CASE p < q
    <3>1. PICK d \in Nat : q = p + d + 1
      <4>1. q - p - 1 \in Nat
        BY <2>2
      <4> QED  BY <4>1
    <3>2. q * b = (p * b) + (d * b) + b /\ d * b \in Nat
      BY <3>1
    <3> QED  BY <3>2, <1>2, <1>3
  <2> QED  BY <2>1, <2>2
<1>5. s = r
  BY <1>2, <1>3, <1>4
<1> QED  BY <1>2, <1>3, <1>4, <1>5

(* Where the shift is defined and the slots fill the word, a slot has the  *)
(* bits below the next one.                                                *)
LEMMA SlotIs ==
    ASSUME NEW o \in Cases, o.method = "2df", Exact(o)
    PROVE  /\ PerSlot(o) \in Nat \ {0} /\ PerSlot(o) < WordBits
           /\ o.side * o.side \in Nat \ {0} /\ WordBits = (o.side * o.side) * PerSlot(o)
           /\ \A c : Slot(o, c) \subseteq 0 .. PerSlot(o) - 1
<1>1. o.side \in Nat \ {0} /\ WordBits \in Nat \ {0}
  BY CaseIs, DegreeIs
<1>2. o.side * o.side \in Nat \ {0}
  BY <1>1
<1>3. PICK s \in Nat \ {0} : s = o.side * o.side
  BY <1>2
<1>4. PerSlot(o) \in Nat
  <2>1. PerSlot(o) = IF s <= WordBits THEN WordBits \div s ELSE 1
    BY <1>3 DEF PerSlot
  <2>2. WordBits \div s \in Nat
    BY <1>1
  <2> QED  BY <2>1, <2>2
<1>5. PICK p \in Nat : p = PerSlot(o)
  BY <1>4
<1>6. s * p = WordBits /\ p < WordBits
  BY <1>3, <1>5 DEF Exact
<1>7. p # 0
  <2> SUFFICES ASSUME p = 0 PROVE FALSE
    OBVIOUS
  <2>1. s * 0 = 0
    OBVIOUS
  <2> QED  BY <2>1, <1>6, <1>1
<1>8. WordBits \div p = s
  <2>1. 0 \in 0 .. p - 1 /\ p \in Nat \ {0} /\ (s * p) + 0 = WordBits
    BY <1>1, <1>6, <1>7
  <2> QED  BY <2>1, DivisionIs
<1>9. (WordBits + s - 1) \div s = p
  <2>1. s - 1 \in 0 .. s - 1 /\ (p * s) + (s - 1) = WordBits + s - 1
    BY <1>1, <1>6
  <2> QED  BY <2>1, DivisionIs
<1>10. ASSUME NEW c PROVE Slot(o, c) \subseteq 0 .. p - 1
  <2>1. Slot(o, c) = {p - 1 - t : t \in {t \in 0 .. p - 1 : 0 \in c[t * s + 1]}}
    BY <1>5, <1>8, <1>9 DEF Slot
  <2>2. \A t \in 0 .. p - 1 : p - 1 - t \in 0 .. p - 1
    OBVIOUS
  <2> QED  BY <2>1, <2>2
<1> QED  BY <1>2, <1>3, <1>5, <1>6, <1>7, <1>10

(* One more block pushes the others up by a slot, and the oldest one out.  *)
LEMMA RegisterRolls ==
    ASSUME NEW o \in Cases, o.method = "2df", Exact(o), NEW u, NEW i \in Nat, NEW n \in Nat
    PROVE  Shift(Register(o, u, i, n), PerSlot(o)) \cup Slot(o, u[<<i, n>>])
             = Register(o, u, i, n + 1)
<1> DEFINE old == Register(o, u, i, n)
           new == Register(o, u, i, n + 1)
           at(k) == Slot(o, u[<<i, k>>])
<1>1. PICK p \in Nat \ {0} : p = PerSlot(o) /\ p < WordBits
  BY SlotIs
<1>2. \A k : at(k) \subseteq 0 .. p - 1
  BY <1>1, SlotIs
<1>3. WordBits \in Nat /\ p % WordBits = p
  <2>1. WordBits \in Nat \ {0} /\ p \in 0 .. WordBits - 1
    BY <1>1, DegreeIs
  <2> QED  BY <2>1, Wraps
<1>4. \A m, e : e \in Register(o, u, i, m)
                    <=> e \in 0 .. WordBits - 1 /\ e \div p < m /\ e % p \in at(m - 1 - (e \div p))
  BY <1>1 DEF Register
<1>5. Shift(old, p) = {e \in Times(old, p) : e < WordBits}
  BY <1>3 DEF Shift
<1>6. old \in Poly
  <2>1. old \subseteq 0 .. WordBits - 1
    BY DEF Register
  <2>2. 0 .. WordBits - 1 \subseteq Nat
    BY ONLY <1>3
  <2> QED  BY <2>1, <2>2 DEF Poly
<1>7. \A e \in Nat : e \in Times(old, p) <=> e >= p /\ e - p \in old
  BY <1>1, <1>6, Sums
<1>8. Times(old, p) \in Poly
  BY <1>1, <1>6, Sums
<1> HIDE DEF old, new, at
<1>9. ASSUME NEW e \in 0 .. WordBits - 1, e < p
      PROVE  (e \in Shift(old, p) \cup at(n)) <=> e \in new
  <2>1. e \in Nat /\ ~(e >= p) /\ e \in 0 .. p - 1
    BY <1>1, <1>3, <1>9
  <2>2. e \notin Shift(old, p)
    BY <2>1, <1>5, <1>7
  <2>3. e \div p = 0 /\ e % p = e
    <3>1. (0 * p) + e = e /\ 0 \in Nat
      BY <1>1, <2>1
    <3> QED  BY <2>1, <3>1, <1>1, DivisionIs
  <2>4. e \in new <=> 0 < n + 1 /\ e \in at((n + 1) - 1 - 0)
    BY <1>4, <1>9, <2>3 DEF new
  <2>5. 0 < n + 1 /\ (n + 1) - 1 - 0 = n
    OBVIOUS
  <2> QED  BY <2>2, <2>4, <2>5
<1>10. ASSUME NEW e \in 0 .. WordBits - 1, ~(e < p)
       PROVE  (e \in Shift(old, p) \cup at(n)) <=> e \in new
  <2>1. PICK d \in Nat : e = d + p
    <3>1. e - p \in Nat /\ e = (e - p) + p
      BY <1>1, <1>3, <1>10
    <3> QED  BY <3>1
  <2>2. e \in Nat /\ e >= p /\ e - p = d /\ e < WordBits /\ d \in 0 .. WordBits - 1
    BY <1>1, <1>3, <2>1
  <2>3. e \notin at(n)
    BY <1>1, <1>2, <2>2
  <2>4. e \in Shift(old, p) <=> d \in old
    BY <1>5, <1>7, <2>2
  <2>5. PICK q \in Nat, r \in 0 .. p - 1 : q = d \div p /\ r = d % p /\ d = (q * p) + r
    <3>1. d \div p \in Nat /\ d % p \in 0 .. p - 1 /\ d = ((d \div p) * p) + (d % p)
      OBVIOUS
    <3> QED  BY ONLY <3>1
  <2>6. e \div p = q + 1 /\ e % p = r
    <3>1. ((q + 1) * p) + r = e /\ q + 1 \in Nat
      <4>1. (q + 1) * p = (q * p) + p /\ q * p \in Nat
        OBVIOUS
      <4> QED  BY ONLY <2>1, <2>5, <4>1, d \in Nat, q \in Nat, p \in Nat, r \in 0 .. p - 1
    <3> QED  BY <3>1, <1>1, DivisionIs
  <2>7. e \in new <=> q + 1 < n + 1 /\ r \in at((n + 1) - 1 - (q + 1))
    BY <1>4, <2>6 DEF new
  <2>8. d \in old <=> q < n /\ r \in at(n - 1 - q)
    BY <1>4, <2>2, <2>5 DEF old
  <2>9. (n + 1) - 1 - (q + 1) = n - 1 - q /\ (q + 1 < n + 1 <=> q < n)
    OBVIOUS
  <2> QED  BY <2>3, <2>4, <2>7, <2>8, <2>9
<1>11. \A e \in Shift(old, p) \cup at(n) : e \in 0 .. WordBits - 1
  <2>1. \A e \in Shift(old, p) : e \in 0 .. WordBits - 1
    BY <1>3, <1>5, <1>8 DEF Poly
  <2>2. \A e \in at(n) : e \in 0 .. WordBits - 1
    <3>1. \A e \in 0 .. p - 1 : e \in 0 .. WordBits - 1
      BY <1>1, <1>3
    <3> QED  BY <3>1, <1>2
  <2> QED  BY <2>1, <2>2
<1>12. \A e \in new : e \in 0 .. WordBits - 1
  BY <1>4 DEF new
<1>13. Shift(old, p) \cup at(n) = new
  BY <1>9, <1>10, <1>11, <1>12
<1> QED  BY <1>1, <1>13 DEF old, new, at

(* A band begins with nothing of an image in.                              *)
LEMMA FreshRolls ==
    ASSUME NEW o \in Cases, Exact(o), NEW u, NEW i
    PROVE  RollsOn(o, u, Fresh(o), i, 0)
<1>1. ASSUME o.method = "rabin" PROVE Rolled(o, Fresh(o)) /\ WindowIs(o, u, Fresh(o), i, 0)
  <2>1. Fresh(o) = Reset(o)
    BY <1>1 DEF Fresh
  <2>2. Rolled(o, Reset(o))
    BY <1>1, ResetRolled
  <2>3. WinSize(o) \in Nat
    BY CaseIs
  <2>4. \A k \in 1 .. WinSize(o) : ~(0 + k > WinSize(o))
    BY ONLY <2>3
  <2> QED  BY <2>1, <2>2, <2>4 DEF WindowIs
<1>2. ASSUME o.method = "2df" PROVE Fresh(o) = Register(o, u, i, 0)
  <2>1. PICK p \in Nat \ {0} : p = PerSlot(o)
    BY <1>2, SlotIs
  <2>2. WordBits \in Nat
    BY DegreeIs
  <2>3. \A e \in 0 .. WordBits - 1 : ~(e \div p < 0)
    BY ONLY <2>2, p \in Nat \ {0}
  <2>4. Fresh(o) = {}
    BY <1>2 DEF Fresh
  <2> QED  BY <2>1, <2>3, <2>4 DEF Register
<1> QED  BY <1>1, <1>2 DEF RollsOn

(* Each unit taken in keeps it.                                            *)
LEMMA TakeRolls ==
    ASSUME NEW o \in Cases, Exact(o), Complete(o, cell), NEW u, u = Walk(o), NEW h,
           NEW i \in Nat, i < Bands(o), NEW n \in Nat, n < Units(o), RollsOn(o, u, h, i, n)
    PROVE  RollsOn(o, u, Take(o, h, Unit(o, i, n)), i, n + 1)
<1>1. PICK b : b = Unit(o, i, n)
  OBVIOUS
<1>2. u[<<i, n>>] = b
  BY <1>1, WalkIs
<1>3. ASSUME o.method = "rabin"
      PROVE  Rolled(o, Take(o, h, b)) /\ WindowIs(o, u, Take(o, h, b), i, n + 1)
  <2>1. Take(o, h, b) = Slide(o, h, b)
    BY <1>3 DEF Take
  <2>2. b \in Byte
    BY <1>1, <1>3, UnitIsByte
  <2>3. Rolled(o, h) /\ WindowIs(o, u, h, i, n)
    BY <1>3 DEF RollsOn
  <2>4. Rolled(o, Slide(o, h, b))
    BY <1>3, <2>2, <2>3, SlideKeeps
  <2>5. WindowIs(o, u, Slide(o, h, u[<<i, n>>]), i, n + 1)
    BY ONLY <1>2, <1>3, <2>2, <2>3, WindowRolls, o \in Cases, i \in Nat, n \in Nat
  <2> QED  BY ONLY <1>2, <2>1, <2>4, <2>5
<1>4. ASSUME o.method = "2df" PROVE Take(o, h, b) = Register(o, u, i, n + 1)
  <2>1. Take(o, h, b) = Shift(h, PerSlot(o)) \cup Slot(o, b)
    BY <1>4 DEF Take
  <2>2. h = Register(o, u, i, n)
    BY <1>4 DEF RollsOn
  <2>3. Shift(Register(o, u, i, n), PerSlot(o)) \cup Slot(o, u[<<i, n>>]) = Register(o, u, i, n + 1)
    BY ONLY <1>4, RegisterRolls, o \in Cases, Exact(o), i \in Nat, n \in Nat
  <2> QED  BY ONLY <1>2, <2>1, <2>2, <2>3
<1>5. ASSUME o.method = "gear" PROVE Take(o, h, b) = gear_slide_a_block(u[<<i, (n + 1) - 1>>])
  <2>1. o.dim \in 0 .. 2 /\ o.dim # 1
    BY <1>5, CaseIs DEF Exact
  <2>2. o.dim # 0
    <3> SUFFICES ASSUME o.dim = 0 PROVE FALSE
      OBVIOUS
    <3>1. Bands(o) = 0
      BY <1>5 DEF Bands
    <3> QED  BY <3>1
  <2>3. o.dim = 2
    BY <2>1, <2>2
  <2>4. Take(o, h, b) = gear_slide_a_block(b)
    BY <1>5, <2>3 DEF Take
  <2>5. (n + 1) - 1 = n
    OBVIOUS
  <2> QED  BY ONLY <1>2, <2>4, <2>5
<1> QED  BY ONLY <1>1, <1>3, <1>4, <1>5 DEF RollsOn

(* The exponents of a register are those of the slots of its blocks.       *)
LEMMA RegisterOfWindow ==
    ASSUME NEW o \in Cases, o.method = "2df", Exact(o), NEW u, NEW i \in Nat, NEW n \in Nat,
           Due(o, n), n <= Units(o), NEW s, s = Stretch(o, u, i, n)
    PROVE  UNION {Times(Slot(o, s[k]), PerSlot(o) * (Len(s) - k)) : k \in DOMAIN s}
             = Register(o, u, i, n)
<1> DEFINE at(k) == Slot(o, u[<<i, k>>])
<1>1. PICK p \in Nat \ {0}, q \in Nat \ {0} :
        /\ p = PerSlot(o) /\ q = o.side * o.side /\ WordBits = q * p
        /\ \A c : Slot(o, c) \subseteq 0 .. p - 1
  BY SlotIs
<1>2. PICK l \in Nat \ {0} : l = First(o)
  BY FirstIs
<1>3. n >= l /\ (l = q \/ (l = n /\ l <= q))
  <2>1. o.w \in Nat \ {0} /\ Units(o) \in Nat
    BY CaseIs, FirstIs
  <2>2. n >= l
    BY <1>2 DEF Due
  <2>3. First(o) = IF o.dim = 0 \/ o.w > q THEN q ELSE o.w
    BY <1>1 DEF First
  <2>4. CASE o.dim = 0 \/ o.w > q
    BY <1>2, <2>2, <2>3, <2>4
  <2>5. CASE ~(o.dim = 0 \/ o.w > q)
    <3>1. Units(o) = o.w
      BY <2>5 DEF Units
    <3>2. l = o.w /\ o.w <= q
      BY <1>2, <2>1, <2>3, <2>5
    <3>3. l = n
      BY <2>1, <2>2, <3>1, <3>2
    <3> QED  BY <2>2, <3>2, <3>3
  <2> QED  BY <2>4, <2>5
<1>4. /\ DOMAIN s = 1 .. l /\ Len(s) = l
      /\ \A k \in 1 .. l : s[k] = u[<<i, n - l + k - 1>>]
  BY <1>2, StretchIs
<1>5. \A k \in 1 .. l : Slot(o, s[k]) = at(n - l + k - 1)
  BY <1>4
<1>6. \A k : at(k) \subseteq 0 .. p - 1
  BY <1>1
<1> DEFINE all == UNION {Times(Slot(o, s[k]), p * (l - k)) : k \in 1 .. l}
           reg == {e \in 0 .. WordBits - 1 : e \div p < n /\ e % p \in at(n - 1 - (e \div p))}
<1>7. UNION {Times(Slot(o, s[k]), PerSlot(o) * (Len(s) - k)) : k \in DOMAIN s} = all
  BY ONLY <1>1, <1>4
<1>8. Register(o, u, i, n) = reg
  BY <1>1 DEF Register
<1> HIDE DEF at
<1>9. ASSUME NEW e \in all PROVE e \in reg
  <2>1. PICK k \in 1 .. l : e \in Times(Slot(o, s[k]), p * (l - k))
    OBVIOUS
  <2>2. PICK m \in Nat : m = l - k /\ m < l /\ n - l + k - 1 = n - 1 - m
    BY <1>3
  <2>3. PICK r \in at(n - 1 - m) : e = r + p * m
    <3>1. e \in Times(at(n - 1 - m), p * m)
      BY ONLY <2>1, <2>2, <1>5
    <3> QED  BY <3>1 DEF Times
  <2>4. r \in 0 .. p - 1 /\ p * m = m * p /\ m * p \in Nat
    BY <1>6
  <2>5. e = (m * p) + r
    BY <2>3, <2>4
  <2>6. e \div p = m /\ e % p = r
    BY ONLY <2>4, <2>5, DivisionIs, p \in Nat \ {0}, m \in Nat
  <2>7. m < n /\ m + 1 <= q
    BY <1>3, <2>2
  <2>8. e \in 0 .. WordBits - 1
    <3>1. PICK d \in Nat : q = m + 1 + d
      <4>1. q - (m + 1) \in Nat
        BY <2>7
      <4> QED  BY <4>1
    <3>2. q * p = (m * p) + p + (d * p) /\ d * p \in Nat
      BY <3>1
    <3> QED  BY ONLY <1>1, <2>4, <2>5, <3>2
  <2> QED  BY ONLY <2>3, <2>6, <2>7, <2>8
<1>10. ASSUME NEW e \in reg PROVE e \in all
  <2>1. e \in 0 .. WordBits - 1 /\ e \div p < n /\ e % p \in at(n - 1 - (e \div p))
    OBVIOUS
  <2>2. e \in Nat /\ e < q * p
    BY ONLY <1>1, <2>1
  <2>3. PICK m \in Nat, r \in 0 .. p - 1 : m = e \div p /\ r = e % p /\ e = (m * p) + r /\ m < q
    <3>1. e \div p \in 0 .. q - 1 /\ e % p \in 0 .. p - 1
      BY ONLY <2>2, Quotient, p \in Nat \ {0}, q \in Nat \ {0}
    <3>2. e = ((e \div p) * p) + (e % p)
      BY ONLY <2>2, p \in Nat \ {0}
    <3> QED  BY ONLY <3>1, <3>2, q \in Nat \ {0}
  <2>4. m < l
    BY <1>3, <2>1, <2>3
  <2>5. PICK k \in 1 .. l : k = l - m /\ m = l - k /\ n - l + k - 1 = n - 1 - m
    <3>1. l - m \in 1 .. l /\ m = l - (l - m) /\ n - l + (l - m) - 1 = n - 1 - m
      BY <2>4
    <3> QED  BY ONLY <3>1
  <2>6. r \in Slot(o, s[k])
    BY ONLY <1>5, <2>1, <2>3, <2>5
  <2>7. e = r + p * (l - k)
    <3>1. m * p = p * m /\ m * p \in Nat /\ r \in Nat /\ (m * p) + r = r + (m * p)
      OBVIOUS
    <3>2. e = r + p * m
      BY ONLY <2>3, <3>1
    <3> QED  BY ONLY <2>5, <3>2
  <2>8. e \in Times(Slot(o, s[k]), p * (l - k))
    BY ONLY <2>6, <2>7 DEF Times
  <2> QED  BY <2>8
<1> HIDE DEF all, reg
<1>11. all = reg
  BY ONLY <1>9, <1>10
<1> QED  BY ONLY <1>7, <1>8, <1>11

(* When a window is complete, the value is that of its units.              *)
LEMMA ValueOfWindow ==
    ASSUME NEW o \in Cases, Exact(o), Complete(o, cell), NEW u, u = Walk(o), NEW h,
           NEW i \in Nat, i < Bands(o), NEW n \in Nat, n <= Units(o), Due(o, n),
           RollsOn(o, u, h, i, n)
    PROVE  /\ Value(o, h) = WindowValue(o, Stretch(o, u, i, n))
           /\ Value(o, h) \in Nat
<1> DEFINE s == Stretch(o, u, i, n)
<1>1. /\ o.method \in {"2df", "rabin", "gear"} /\ WinSize(o) \in Nat \ {0}
      /\ First(o) \in Nat \ {0} /\ Units(o) \in Nat
  BY CaseIs, FirstIs
<1>2. CASE o.method = "rabin"
  <2> DEFINE w == WinSize(o)
             f == Unrolled(h.window, h.wpos, w)
  <2>1. First(o) = w /\ n >= w
    BY <1>2, Zenon DEF First, Due
  <2>2. Rolled(o, h) /\ WindowIs(o, u, h, i, n)
    BY <1>2 DEF RollsOn
  <2>3. \A k \in 1 .. w : f[k] = u[<<i, n - w + k - 1>>]
    <3>1. \A k \in 1 .. w : n + k > w => f[k] = u[<<i, n - w + k - 1>>]
      BY <2>2 DEF WindowIs
    <3>2. \A k \in 1 .. w : n + k > w
      <4>1. PICK v \in Nat : v = w
        BY <1>1
      <4>2. \A k \in 1 .. v : n + k > v
        BY ONLY <2>1, <4>1, n \in Nat
      <4> QED  BY ONLY <4>1, <4>2
    <3> QED  BY ONLY <3>1, <3>2
  <2>4. s = f
    <3>1. s = [k \in 1 .. w |-> u[<<i, n - w + k - 1>>]]
      BY <2>1 DEF Stretch
    <3>2. f = [k \in 1 .. w |-> f[k]]
      BY DEF Unrolled
    <3> QED  BY ONLY <2>3, <3>1, <3>2
  <2>5. h.digest = Mod(Bits(f))
    BY <2>2 DEF Rolled
  <2>6. Value(o, h) = Number(h.digest) /\ WindowValue(o, s) = Number(Mod(Bits(s)))
    BY <1>2 DEF Value, WindowValue
  <2> QED  BY ONLY <2>4, <2>5, <2>6, NumberIs
<1>3. CASE o.method = "2df"
  <2>1. h = Register(o, u, i, n)
    BY <1>3 DEF RollsOn
  <2>2. UNION {Times(Slot(o, s[k]), PerSlot(o) * (Len(s) - k)) : k \in DOMAIN s}
          = Register(o, u, i, n)
    BY <1>3, RegisterOfWindow
  <2>3. Value(o, h) = Number(h)
    BY <1>3 DEF Value
  <2> HIDE DEF s
  <2>4. WindowValue(o, s)
          = Number(UNION {Times(Slot(o, s[k]), PerSlot(o) * (Len(s) - k)) : k \in DOMAIN s})
    BY <1>3 DEF WindowValue
  <2> QED  BY ONLY <2>1, <2>2, <2>3, <2>4, NumberIs DEF s
<1>4. CASE o.method = "gear"
  <2>1. o.dim = 2
    <3>1. o.dim \in 0 .. 2 /\ o.dim # 1
      BY <1>4, CaseIs DEF Exact
    <3>2. o.dim = 0 => Bands(o) = 0
      BY <1>4 DEF Bands
    <3> QED  BY <3>1, <3>2
  <2>2. First(o) = 1 /\ Units(o) = o.w * o.h
    BY <1>4, <2>1 DEF First, Units
  <2>3. n >= 1 /\ n - 1 \in 0 .. (o.w * o.h) - 1 /\ n - 1 \in Nat
    BY <1>1, <2>2 DEF Due
  <2>4. h = gear_slide_a_block(u[<<i, n - 1>>])
    BY <1>4, <2>3 DEF RollsOn
  <2>5. s[1] = u[<<i, n - 1>>]
    <3>1. 1 \in 1 .. First(o) /\ n - First(o) + 1 - 1 = n - 1
      BY <2>2
    <3> QED  BY <3>1, StretchIs
  <2>6. u[<<i, n - 1>>] \in Blocks
    <3>1. u[<<i, n - 1>>] = Unit(o, i, n - 1)
      BY <2>3, WalkIs
    <3>2. Unit(o, i, n - 1) = Raster(o, n - 1)
      BY <1>4, <2>1 DEF Unit
    <3> QED  BY <3>1, <3>2, <2>3, RasterIsBlock
  <2>7. Value(o, h) = h
    BY <1>4 DEF Value
  <2> HIDE DEF s
  <2>8. WindowValue(o, s) = gear_slide_a_block(s[1])
    BY <1>4 DEF WindowValue
  <2> QED  BY ONLY <2>4, <2>5, <2>6, <2>7, <2>8, GearBlockIs DEF s
<1> QED  BY <1>1, <1>2, <1>3, <1>4

-----------------------------------------------------------------------------
(* The number of the windows of a band that are complete after n units.    *)
LEMMA DueIs ==
    ASSUME NEW o \in Cases, NEW n \in Nat
    PROVE  Due(o, n) <=> \E j \in Nat : n = First(o) + j * Every(o)
<1>1. PICK f \in Nat \ {0}, e \in Nat \ {0} : f = First(o) /\ e = Every(o)
  BY FirstIs
<1>2. ASSUME n >= f, (n - f) % e = 0 PROVE \E j \in Nat : n = f + j * e
  <2>1. PICK d \in Nat : d = n - f
    BY <1>2
  <2>2. d \div e \in Nat /\ d = ((d \div e) * e) + (d % e)
    OBVIOUS
  <2>3. n = f + (d \div e) * e
    BY <1>2, <2>1, <2>2
  <2> QED  BY <2>2, <2>3
<1>3. ASSUME NEW j \in Nat, n = f + j * e PROVE n >= f /\ (n - f) % e = 0
  <2>1. j * e \in Nat /\ 0 \in 0 .. e - 1 /\ (j * e) + 0 = j * e
    OBVIOUS
  <2>2. (j * e) % e = 0
    BY <2>1, DivisionIs
  <2>3. n - f = j * e
    BY <1>3, <2>1
  <2> QED  BY <1>3, <2>1, <2>2, <2>3
<1> QED  BY <1>1, <1>2, <1>3 DEF Due

(* The column walk by squares: a band of rows is a column of side blocks   *)
(* after the other.                                                        *)
LEMMA ColumnOf ==
    ASSUME NEW o \in Cases, NEW i, NEW j \in Nat, NEW m \in Nat
    PROVE  Column(o, i, j * o.side + m) = cell[i + (m % o.side), j + m \div o.side]
<1>1. PICK s \in Nat \ {0} : s = o.side
  BY CaseIs
<1>2. PICK q \in Nat, r \in 0 .. s - 1 : q = m \div s /\ r = m % s /\ m = (q * s) + r
  <2>1. m \div s \in Nat /\ m % s \in 0 .. s - 1 /\ m = ((m \div s) * s) + (m % s)
    OBVIOUS
  <2> QED  BY ONLY <2>1
<1>3. j * s + m = ((j + q) * s) + r /\ j + q \in Nat
  <2>1. (j + q) * s = (j * s) + (q * s) /\ j * s \in Nat /\ q * s \in Nat
    OBVIOUS
  <2> QED  BY ONLY <1>2, <2>1, j \in Nat, q \in Nat, r \in 0 .. s - 1, s \in Nat \ {0}
<1>4. (j * s + m) \div s = j + q /\ (j * s + m) % s = r
  BY ONLY <1>3, DivisionIs, s \in Nat \ {0}, r \in 0 .. s - 1
<1> QED  BY ONLY <1>1, <1>2, <1>4, Zenon DEF Column

LEMMA SquareIs ==
    ASSUME NEW o \in Cases, NEW i, NEW j \in Nat
    PROVE  Square(o, i, j) = [k \in 1 .. o.side * o.side |-> Column(o, i, j * o.side + (k - 1))]
<1>1. o.side * o.side \in Nat
  BY CaseIs
<1>2. ASSUME NEW k \in 1 .. o.side * o.side
      PROVE  Column(o, i, j * o.side + (k - 1)) = cell[i + ((k - 1) % o.side), j + (k - 1) \div o.side]
  <2>1. k - 1 \in Nat
    BY ONLY <1>1, k \in 1 .. o.side * o.side
  <2> QED  BY ONLY <2>1, ColumnOf, o \in Cases, j \in Nat
<1> QED  BY ONLY <1>2, Zenon DEF Square

LEMMA ImageIs ==
    ASSUME NEW o \in Cases
    PROVE  /\ DOMAIN Image(o) = 1 .. o.w * o.h /\ Len(Image(o)) = o.w * o.h /\ o.w * o.h \in Nat \ {0}
           /\ \A n \in 0 .. (o.w * o.h) - 1 : Image(o)[n + 1] = Raster(o, n)
<1>1. PICK a \in Nat \ {0} : a = o.w * o.h
  <2>1. o.w \in Nat \ {0} /\ o.h \in Nat \ {0}
    BY CaseIs
  <2>2. o.w * o.h \in Nat \ {0}
    BY <2>1
  <2> QED  BY <2>2
<1>2. Image(o) = [k \in 1 .. a |-> Raster(o, k - 1)]
  BY <1>1 DEF Image
<1>3. ASSUME NEW n \in 0 .. a - 1 PROVE Image(o)[n + 1] = Raster(o, n)
  <2>1. n + 1 \in 1 .. a /\ (n + 1) - 1 = n
    OBVIOUS
  <2> QED  BY <1>2, <2>1
<1>4. DOMAIN Image(o) = 1 .. a /\ Len(Image(o)) = a
  BY <1>2
<1> QED  BY <1>1, <1>3, <1>4

LEMMA ConcatIs ==
    ASSUME NEW n \in Nat, NEW s, Len(s) = n
    PROVE  /\ Concat(s) = [k \in 1 .. n * BlockBytes |-> InBlock(s[(k - 1) \div BlockBytes + 1], k - 1)]
           /\ n * BlockBytes \in Nat /\ Len(Concat(s)) = n * BlockBytes
<1>1. PICK l \in Nat : l = n * BlockBytes
  <2>1. n * BlockBytes \in Nat
    BY BlockBytesIs
  <2> QED  BY <2>1
<1>2. Concat(s) = [k \in 1 .. l |-> InBlock(s[(k - 1) \div BlockBytes + 1], k - 1)]
  BY <1>1 DEF Concat
<1>3. Len(Concat(s)) = l
  BY <1>2
<1> QED  BY <1>1, <1>2, <1>3

-----------------------------------------------------------------------------
(* A window is the units before a place where features are taken.          *)
Placed(o, u, s) ==
    \E i \in 0 .. Bands(o) - 1, n \in Nat : Due(o, n) /\ n <= Units(o) /\ s = Stretch(o, u, i, n)

LEMMA ProductIs == \A a, b, c \in Nat : a + c * b \in Nat
OBVIOUS

LEMMA ProductsIs == \A a, b \in Nat : a * b \in Nat
OBVIOUS

LEMMA ByPlace ==
    ASSUME NEW o \in Cases, NEW u, NEW I \in Nat, I = Bands(o), NEW J \in Int, NEW W,
           \A j \in Nat : First(o) + j * Every(o) <= Units(o) <=> j <= J,
           \A i \in 0 .. I - 1, j \in 0 .. J : Stretch(o, u, i, First(o) + j * Every(o)) \in W,
           \A s \in W : \E i \in 0 .. I - 1, j \in 0 .. J :
               s = Stretch(o, u, i, First(o) + j * Every(o))
    PROVE  \A s : s \in W <=> Placed(o, u, s)
<1>1. ASSUME NEW s \in W PROVE Placed(o, u, s)
  <2>0. PICK i \in 0 .. I - 1, j \in 0 .. J : s = Stretch(o, u, i, First(o) + j * Every(o))
    OBVIOUS
  <2>1. First(o) \in Nat /\ Every(o) \in Nat /\ j \in Nat /\ j <= J
    BY FirstIs
  <2>2. PICK n \in Nat : n = First(o) + j * Every(o)
    <3> QED  BY ONLY <2>1, ProductIs
  <2>3. Due(o, n)
    BY <2>1, <2>2, DueIs
  <2>4. n <= Units(o)
    BY ONLY <2>1, <2>2, \A k \in Nat : First(o) + k * Every(o) <= Units(o) <=> k <= J
  <2>5. s = Stretch(o, u, i, n)
    BY <2>0, <2>2
  <2>6. i \in 0 .. Bands(o) - 1
    OBVIOUS
  <2> QED  BY ONLY <2>2, <2>3, <2>4, <2>5, <2>6 DEF Placed
<1>2. ASSUME NEW s, Placed(o, u, s) PROVE s \in W
  <2>1. PICK i \in 0 .. I - 1, n \in Nat : Due(o, n) /\ n <= Units(o) /\ s = Stretch(o, u, i, n)
    BY <1>2 DEF Placed
  <2>2. PICK j \in Nat : n = First(o) + j * Every(o)
    BY <2>1, DueIs
  <2>3. First(o) + j * Every(o) <= Units(o)
    BY ONLY <2>1, <2>2
  <2>4. j <= J
    BY ONLY <2>3, j \in Nat, \A k \in Nat : First(o) + k * Every(o) <= Units(o) <=> k <= J
  <2>5. j \in 0 .. J
    BY ONLY <2>4, j \in Nat, J \in Int
  <2> QED  BY <2>1, <2>2, <2>5
<1> QED  BY ONLY <1>1, <1>2

(* A factor does not change an order, and adds to a quotient alone.        *)
LEMMA FactorIs ==
    ASSUME NEW b \in Nat \ {0}, NEW a \in Nat, NEW c \in Nat
    PROVE  /\ a * b <= c * b <=> a <= c
           /\ (a * b + c) \div b = a + (c \div b) /\ (a * b + c) % b = c % b
<1>1. ASSUME a <= c PROVE a * b <= c * b
  <2>1. PICK d \in Nat : c = a + d
    <3>1. c - a \in Nat
      BY <1>1
    <3> QED  BY <3>1
  <2>2. c * b = (a * b) + (d * b) /\ d * b \in Nat /\ a * b \in Nat
    BY <2>1
  <2> QED  BY <2>2
<1>2. ASSUME ~(a <= c) PROVE ~(a * b <= c * b)
  <2>1. PICK d \in Nat : a = c + d + 1
    <3>1. a - c - 1 \in Nat
      BY <1>2
    <3> QED  BY <3>1
  <2>2. a * b = (c * b) + (d * b) + b /\ d * b \in Nat /\ c * b \in Nat
    BY <2>1
  <2> QED  BY <2>2
<1>3. PICK q \in Nat, r \in 0 .. b - 1 : q = c \div b /\ r = c % b /\ c = (q * b) + r
  <2>1. c \div b \in Nat /\ c % b \in 0 .. b - 1 /\ c = ((c \div b) * b) + (c % b)
    OBVIOUS
  <2> QED  BY ONLY <2>1
<1>4. a * b + c = ((a + q) * b) + r /\ a + q \in Nat
  <2>1. (a + q) * b = (a * b) + (q * b) /\ a * b \in Nat /\ q * b \in Nat
    OBVIOUS
  <2> QED  BY ONLY <1>3, <2>1, a \in Nat, q \in Nat, r \in 0 .. b - 1, b \in Nat \ {0}
<1>5. ((a + q) * b + r) \div b = a + q /\ ((a + q) * b + r) % b = r
  BY ONLY <1>4, DivisionIs, r \in 0 .. b - 1, b \in Nat \ {0}
<1>6. (a * b + c) \div b = a + (c \div b) /\ (a * b + c) % b = c % b
  BY ONLY <1>3, <1>4, <1>5
<1> QED  BY ONLY <1>1, <1>2, <1>6

LEMMA SquaresByPlace ==
    ASSUME NEW o \in Cases, o.method = "2df", o.dim = 0, NEW u, u = Walk(o)
    PROVE  \A s : s \in Windows(o) <=> Placed(o, u, s)
<1>1. /\ o.side \in Nat \ {0} /\ o.w \in Nat \ {0} /\ o.h \in Nat \ {0}
      /\ o.w >= o.side /\ o.h >= o.side
  BY CaseIs
<1>2. PICK d \in Nat \ {0}, w \in Nat \ {0}, h \in Nat \ {0} :
        d = o.side /\ w = o.w /\ h = o.h /\ w >= d /\ h >= d
  BY <1>1
<1>3. First(o) = d * d /\ Every(o) = d /\ Units(o) = w * d /\ Bands(o) = h - d + 1
  BY <1>2 DEF First, Every, Units, Bands
<1>4. PICK I \in Nat : I = h - d + 1 /\ I - 1 = h - d
  BY <1>2
<1>5. PICK J \in Int : J = w - d
  OBVIOUS
<1>6. ASSUME NEW j \in Nat PROVE First(o) + j * Every(o) <= Units(o) <=> j <= J
  <2>1. d * d + j * d = (d + j) * d /\ d + j \in Nat
    OBVIOUS
  <2>2. (d + j) * d <= w * d <=> d + j <= w
    BY ONLY <2>1, FactorIs, d \in Nat \ {0}, w \in Nat \ {0}
  <2>3. d + j <= w <=> j <= J
    BY <1>5
  <2> QED  BY ONLY <1>3, <2>1, <2>2, <2>3
<1>7. ASSUME NEW i \in 0 .. I - 1, NEW j \in 0 .. J
      PROVE  Stretch(o, u, i, First(o) + j * Every(o)) = Square(o, i, j)
  <2>1. i \in Nat /\ j \in Nat
    OBVIOUS
  <2>3. Square(o, i, j) = [k \in 1 .. d * d |-> Column(o, i, j * d + (k - 1))]
    BY <2>1, <1>2, SquareIs
  <2>4. ASSUME NEW k \in 1 .. d * d
        PROVE  u[<<i, (d * d + j * d) - d * d + k - 1>>] = Column(o, i, j * d + (k - 1))
    <3>1. d * d \in Nat /\ j * d \in Nat
      BY <2>1
    <3>2. (d * d + j * d) - d * d + k - 1 = j * d + (k - 1) /\ j * d + (k - 1) \in Nat
      BY <3>1
    <3>3. u[<<i, j * d + (k - 1)>>] = Unit(o, i, j * d + (k - 1))
      BY ONLY <2>1, <3>2, WalkIs, u = Walk(o)
    <3>4. Unit(o, i, j * d + (k - 1)) = Column(o, i, j * d + (k - 1))
      BY DEF Unit
    <3> QED  BY ONLY <3>2, <3>3, <3>4
  <2>5. Stretch(o, u, i, First(o) + j * Every(o))
          = [k \in 1 .. d * d |-> u[<<i, (d * d + j * d) - d * d + k - 1>>]]
    BY <1>3 DEF Stretch
  <2> QED  BY ONLY <2>3, <2>4, <2>5
<1>8. \A s : s \in Windows(o) <=> \E i \in 0 .. I - 1, j \in 0 .. J : s = Square(o, i, j)
  <2>1. Windows(o) = Squares(o)
    BY DEF Windows
  <2>2. o.h - o.side = I - 1 /\ o.w - o.side = J
    BY <1>2, <1>4, <1>5
  <2>3. Squares(o) = {Square(o, i, j) : i \in 0 .. I - 1, j \in 0 .. J}
    BY ONLY <2>2 DEF Squares
  <2>4. \A s : s \in Squares(o) <=> \E i \in 0 .. I - 1, j \in 0 .. J : s = Square(o, i, j)
    BY ONLY <2>3
  <2> QED  BY ONLY <2>1, <2>4
<1>9. I = Bands(o)
  BY <1>3, <1>4
<1>10. \A i \in 0 .. I - 1, j \in 0 .. J : Stretch(o, u, i, First(o) + j * Every(o)) \in Windows(o)
  BY ONLY <1>7, <1>8
<1>11. \A s \in Windows(o) : \E i \in 0 .. I - 1, j \in 0 .. J :
          s = Stretch(o, u, i, First(o) + j * Every(o))
  BY ONLY <1>7, <1>8
<1> QED  BY ONLY <1>6, <1>9, <1>10, <1>11, ByPlace, o \in Cases, I \in Nat, J \in Int

LEMMA RowsByPlace ==
    ASSUME NEW o \in Cases, o.method = "2df", o.dim # 0, NEW u, u = Walk(o)
    PROVE  \A s : s \in Windows(o) <=> Placed(o, u, s)
<1>1. PICK w \in Nat \ {0}, h \in Nat \ {0}, l \in Nat \ {0} : w = o.w /\ h = o.h /\ l = First(o)
  BY CaseIs, FirstIs
<1>2. Every(o) = 1 /\ Units(o) = w /\ Bands(o) = h
  BY <1>1 DEF Every, Units, Bands
<1>3. PICK J \in Int : J = w - l
  OBVIOUS
<1> DEFINE cut(i, j) == [k \in 1 .. l |-> Row(o, i)[j + k]]
<1>4. ASSUME NEW j \in Nat PROVE First(o) + j * Every(o) <= Units(o) <=> j <= J
  <2>1. l + j * 1 <= w <=> j <= J
    BY ONLY <1>3, j \in Nat, w \in Nat, l \in Nat
  <2> QED  BY ONLY <1>1, <1>2, <2>1
<1>5. ASSUME NEW i \in 0 .. h - 1, NEW j \in 0 .. J
      PROVE  Stretch(o, u, i, First(o) + j * Every(o)) = cut(i, j)
  <2>1. i \in Nat /\ j \in Nat /\ j <= w - l
    BY <1>3
  <2>2. ASSUME NEW k \in 1 .. l PROVE u[<<i, (l + j * 1) - l + k - 1>>] = Row(o, i)[j + k]
    <3>1. (l + j * 1) - l + k - 1 = j + k - 1 /\ j + k - 1 \in Nat /\ j + k \in 1 .. w
      BY ONLY <2>1, k \in 1 .. l, l \in Nat, w \in Nat
    <3>2. u[<<i, j + k - 1>>] = Unit(o, i, j + k - 1)
      BY ONLY <2>1, <3>1, WalkIs, u = Walk(o)
    <3>3. Unit(o, i, j + k - 1) = cell[i, j + k - 1]
      BY DEF Unit
    <3>4. Row(o, i)[j + k] = cell[i, j + k - 1]
      <4>1. \A m \in 1 .. w : Row(o, i)[m] = cell[i, m - 1]
        BY <1>1, Zenon DEF Row
      <4>2. PICK m \in 1 .. w : m = j + k /\ m - 1 = j + k - 1
        BY ONLY <2>1, <3>1, k \in 1 .. l, l \in Nat
      <4>3. Row(o, i)[m] = cell[i, m - 1]
        BY <4>1, Zenon
      <4> QED  BY <4>2, <4>3, Zenon
    <3> QED  BY ONLY <3>1, <3>2, <3>3, <3>4
  <2>3. Stretch(o, u, i, First(o) + j * Every(o)) = [k \in 1 .. l |-> u[<<i, (l + j * 1) - l + k - 1>>]]
    BY ONLY <1>1, <1>2 DEF Stretch
  <2> QED  BY ONLY <2>2, <2>3
<1>6. \A s : s \in Windows(o) <=> \E i \in 0 .. h - 1, j \in 0 .. J : s = cut(i, j)
  <2>1. Windows(o) = UNION {Cut(Row(o, i), l) : i \in 0 .. h - 1}
    BY <1>1 DEF Windows
  <2>2. ASSUME NEW i PROVE Cut(Row(o, i), l) = {cut(i, j) : j \in 0 .. J}
    <3>1. Len(Row(o, i)) = w
      BY <1>1 DEF Row
    <3>2. Len(Row(o, i)) - l = J
      BY ONLY <1>3, <3>1
    <3> QED  BY ONLY <3>2 DEF Cut
  <2> HIDE DEF cut
  <2> QED  BY ONLY <2>1, <2>2
<1>7. \A i \in 0 .. h - 1, j \in 0 .. J : Stretch(o, u, i, First(o) + j * Every(o)) \in Windows(o)
  <2> HIDE DEF cut
  <2> QED  BY ONLY <1>5, <1>6
<1>8. \A s \in Windows(o) : \E i \in 0 .. h - 1, j \in 0 .. J :
          s = Stretch(o, u, i, First(o) + j * Every(o))
  <2> HIDE DEF cut
  <2> QED  BY ONLY <1>5, <1>6
<1>9. h \in Nat /\ h = Bands(o)
  BY <1>2
<1> QED  BY ONLY <1>4, <1>7, <1>8, <1>9, ByPlace, o \in Cases, J \in Int

(* A byte of a block is found by its number in the block.                  *)
LEMMA InBlockIs ==
    ASSUME NEW a \in Nat, NEW c \in Nat, NEW block
    PROVE  InBlock(block, a * BlockBytes + c) = InBlock(block, c)
<1>1. (a * BlockBytes + c) % BlockBytes = c % BlockBytes
  BY BlockBytesIs, FactorIs
<1> QED  BY ONLY <1>1 DEF InBlock

LEMMA SquareBytesByPlace ==
    ASSUME NEW o \in Cases, o.method = "rabin", o.dim = 0, NEW u, u = Walk(o)
    PROVE  \A s : s \in Windows(o) <=> Placed(o, u, s)
<1>1. /\ o.side \in Nat \ {0} /\ o.w \in Nat \ {0} /\ o.h \in Nat \ {0}
      /\ o.w >= o.side /\ o.h >= o.side
  BY CaseIs
<1>2. PICK d \in Nat \ {0}, w \in Nat \ {0}, h \in Nat \ {0}, b \in Nat \ {0} :
        d = o.side /\ w = o.w /\ h = o.h /\ b = BlockBytes /\ w >= d /\ h >= d
  BY <1>1, BlockBytesIs
<1>3. First(o) = d * d * b /\ Every(o) = d * b /\ Units(o) = w * d * b /\ Bands(o) = h - d + 1
  BY <1>2 DEF First, Every, Units, Bands, WinSize
<1>4. PICK I \in Nat : I = h - d + 1 /\ I - 1 = h - d
  BY <1>2
<1>5. PICK J \in Int : J = w - d
  OBVIOUS
<1>6. ASSUME NEW j \in Nat PROVE First(o) + j * Every(o) <= Units(o) <=> j <= J
  <2>1. d * d \in Nat /\ j * d \in Nat /\ w * d \in Nat /\ d * d + j * d \in Nat
    OBVIOUS
  <2>2. d * d * b + j * (d * b) = (d * d + j * d) * b
    <3>1. j * (d * b) = (j * d) * b
      BY ONLY j \in Nat, d \in Nat, b \in Nat
    <3>2. (d * d + j * d) * b = (d * d) * b + (j * d) * b
      BY ONLY <2>1, b \in Nat
    <3> QED  BY ONLY <3>1, <3>2
  <2>3. (d * d + j * d) * b <= (w * d) * b <=> d * d + j * d <= w * d
    BY ONLY <2>1, FactorIs, b \in Nat \ {0}
  <2>4. d * d + j * d = (d + j) * d /\ d + j \in Nat
    BY ONLY j \in Nat, d \in Nat
  <2>5. (d + j) * d <= w * d <=> d + j <= w
    BY ONLY <2>4, FactorIs, d \in Nat \ {0}, w \in Nat \ {0}
  <2>6. d + j <= w <=> j <= J
    BY ONLY <1>5, j \in Nat, d \in Nat, w \in Nat
  <2> QED  BY ONLY <1>3, <2>2, <2>3, <2>4, <2>5, <2>6
<1>7. ASSUME NEW i \in 0 .. I - 1, NEW j \in 0 .. J
      PROVE  Stretch(o, u, i, First(o) + j * Every(o)) = Concat(Square(o, i, j))
  <2>1. i \in Nat /\ j \in Nat
    OBVIOUS
  <2>2. PICK q \in Nat \ {0} : q = d * d
    <3>1. d * d \in Nat \ {0}
      OBVIOUS
    <3> QED  BY <3>1
  <2>3. Square(o, i, j) = [k \in 1 .. q |-> Column(o, i, j * d + (k - 1))]
    BY ONLY <2>1, <2>2, <1>2, SquareIs, o \in Cases
  <2>4. Concat(Square(o, i, j))
          = [k \in 1 .. q * b |-> InBlock(Square(o, i, j)[(k - 1) \div b + 1], k - 1)]
    <3>1. Len(Square(o, i, j)) = q
      BY ONLY <2>3, q \in Nat
    <3>2. PICK s : s = Square(o, i, j)
      OBVIOUS
    <3>3. Concat(s) = [k \in 1 .. q * BlockBytes |-> InBlock(s[(k - 1) \div BlockBytes + 1], k - 1)]
      BY ONLY <3>1, <3>2, ConcatIs, q \in Nat
    <3> QED  BY ONLY <3>2, <3>3, <1>2
  <2>5. ASSUME NEW k \in 1 .. q * b
        PROVE  u[<<i, (q * b + j * (d * b)) - q * b + k - 1>>]
                 = InBlock(Square(o, i, j)[(k - 1) \div b + 1], k - 1)
    <3>1. PICK n \in Nat : n = k - 1 /\ n < q * b /\ k = n + 1
      <4>1. q * b \in Nat
        BY ONLY q \in Nat, b \in Nat
      <4> QED  BY ONLY <4>1, k \in 1 .. q * b
    <3>2. PICK a \in Nat : a = j * d
      BY ONLY <2>1, d \in Nat, ProductsIs
    <3>3. (q * b + j * (d * b)) - q * b + k - 1 = a * b + n /\ a * b + n \in Nat
      <4>1. j * (d * b) = (j * d) * b
        BY ONLY <2>1, d \in Nat, b \in Nat
      <4>2. a * b \in Nat /\ q * b \in Nat
        BY ONLY a \in Nat, q \in Nat, b \in Nat
      <4>3. j * (d * b) = a * b
        BY ONLY <3>2, <4>1
      <4>4. (q * b + a * b) - q * b + k - 1 = a * b + n
        BY ONLY <3>1, <4>2, n \in Nat
      <4> QED  BY ONLY <4>2, <4>3, <4>4, n \in Nat
    <3>4. u[<<i, a * b + n>>] = Unit(o, i, a * b + n)
      BY ONLY <2>1, <3>3, WalkIs, u = Walk(o)
    <3>5. Unit(o, i, a * b + n) = InBlock(Column(o, i, (a * b + n) \div b), a * b + n)
      BY <1>2 DEF Unit
    <3>6. (a * b + n) \div b = a + (n \div b) /\ n \div b \in 0 .. q - 1
      BY ONLY <3>1, FactorIs, Quotient, a \in Nat, n \in Nat, q \in Nat \ {0}, b \in Nat \ {0}
    <3>7. Square(o, i, j)[(n \div b) + 1] = Column(o, i, a + (n \div b))
      <4>1. PICK m \in 0 .. q - 1 : m = n \div b
        BY ONLY <3>6
      <4>2. m + 1 \in 1 .. q /\ (m + 1) - 1 = m
        BY ONLY m \in 0 .. q - 1, q \in Nat
      <4> QED  BY ONLY <2>3, <3>2, <4>1, <4>2
    <3>8. \A block : InBlock(block, a * b + n) = InBlock(block, n)
      BY ONLY <1>2, InBlockIs, a \in Nat, n \in Nat
    <3> QED  BY ONLY <3>1, <3>3, <3>4, <3>5, <3>6, <3>7, <3>8
  <2>6. Stretch(o, u, i, First(o) + j * Every(o))
          = [k \in 1 .. q * b |-> u[<<i, (q * b + j * (d * b)) - q * b + k - 1>>]]
    BY ONLY <1>3, <2>2 DEF Stretch
  <2> QED  BY ONLY <2>4, <2>5, <2>6
<1>8. \A s : s \in Windows(o) <=> \E i \in 0 .. I - 1, j \in 0 .. J : s = Concat(Square(o, i, j))
  <2>1. Windows(o) = {Concat(s) : s \in Squares(o)}
    BY DEF Windows
  <2>2. o.h - o.side = I - 1 /\ o.w - o.side = J
    BY <1>2, <1>4, <1>5
  <2>3. Squares(o) = {Square(o, i, j) : i \in 0 .. I - 1, j \in 0 .. J}
    BY ONLY <2>2 DEF Squares
  <2>4. \A s : s \in Squares(o) <=> \E i \in 0 .. I - 1, j \in 0 .. J : s = Square(o, i, j)
    BY ONLY <2>3
  <2> QED  BY ONLY <2>1, <2>4
<1>9. I = Bands(o)
  BY <1>3, <1>4
<1>10. \A i \in 0 .. I - 1, j \in 0 .. J : Stretch(o, u, i, First(o) + j * Every(o)) \in Windows(o)
  BY ONLY <1>7, <1>8
<1>11. \A s \in Windows(o) : \E i \in 0 .. I - 1, j \in 0 .. J :
          s = Stretch(o, u, i, First(o) + j * Every(o))
  BY ONLY <1>7, <1>8
<1> QED  BY ONLY <1>6, <1>9, <1>10, <1>11, ByPlace, o \in Cases, I \in Nat, J \in Int

(* The bytes of an image, one block of its raster after the other.         *)
LEMMA ImageBytes ==
    ASSUME NEW o \in Cases, NEW n \in Nat, n < o.w * o.h * BlockBytes
    PROVE  /\ Len(Concat(Image(o))) = o.w * o.h * BlockBytes
           /\ Concat(Image(o))[n + 1] = InBlock(Raster(o, n \div BlockBytes), n)
<1>1. PICK a \in Nat \ {0}, b \in Nat \ {0} : a = o.w * o.h /\ b = BlockBytes
  BY ImageIs, BlockBytesIs
<1>2. PICK s : s = Image(o)
  OBVIOUS
<1>3. Len(s) = a /\ \A k \in 0 .. a - 1 : s[k + 1] = Raster(o, k)
  BY ONLY <1>1, <1>2, ImageIs, o \in Cases
<1>4. /\ Concat(s) = [k \in 1 .. a * BlockBytes |-> InBlock(s[(k - 1) \div BlockBytes + 1], k - 1)]
      /\ Len(Concat(s)) = a * BlockBytes
  BY ONLY <1>3, ConcatIs, a \in Nat
<1>5. n < a * b /\ n + 1 \in 1 .. a * b /\ (n + 1) - 1 = n
  <2>1. n < a * b /\ a * b \in Nat
    BY ONLY <1>1, ProductsIs, n < o.w * o.h * BlockBytes
  <2> QED  BY ONLY <2>1, n \in Nat
<1>6. Concat(s)[n + 1] = InBlock(s[(n \div b) + 1], n)
  BY ONLY <1>1, <1>4, <1>5
<1>7. n \div b \in 0 .. a - 1
  BY ONLY <1>5, Quotient, a \in Nat \ {0}, b \in Nat \ {0}, n \in Nat
<1> QED  BY ONLY <1>1, <1>2, <1>3, <1>4, <1>6, <1>7

LEMMA BytesByPlace ==
    ASSUME NEW o \in Cases, o.method = "rabin", o.dim = 1, NEW u, u = Walk(o)
    PROVE  \A s : s \in Windows(o) <=> Placed(o, u, s)
<1>1. PICK d \in Nat \ {0}, a \in Nat : d = o.side /\ a = o.w * o.h * BlockBytes
  <2>1. o.side \in Nat \ {0} /\ o.w * o.h \in Nat /\ BlockBytes \in Nat
    BY CaseIs, ImageIs, BlockBytesIs
  <2>2. o.w * o.h * BlockBytes \in Nat
    BY ONLY <2>1, ProductsIs
  <2> QED  BY ONLY <2>1, <2>2
<1>2. First(o) = d /\ Every(o) = 1 /\ Units(o) = a /\ Bands(o) = 1
  BY <1>1 DEF First, Every, Units, Bands, WinSize, ByteCount
<1>3. PICK J \in Int : J = a - d
  OBVIOUS
<1>4. PICK c : c = Concat(Image(o))
  OBVIOUS
<1> DEFINE cut(j) == [k \in 1 .. d |-> c[j + k]]
<1>5. Len(c) = a /\ \A n \in Nat : n < a => c[n + 1] = InBlock(Raster(o, n \div BlockBytes), n)
  <2>1. \A n \in Nat : n < a => c[n + 1] = InBlock(Raster(o, n \div BlockBytes), n)
    BY <1>1, <1>4, ImageBytes
  <2>2. Len(c) = a
    <3>1. 0 \in Nat /\ Len(Image(o)) = o.w * o.h /\ o.w * o.h \in Nat
      BY ImageIs
    <3> QED  BY ONLY <1>1, <1>4, <3>1, ConcatIs
  <2> QED  BY <2>1, <2>2
<1>6. ASSUME NEW j \in Nat PROVE First(o) + j * Every(o) <= Units(o) <=> j <= J
  <2>1. d + j * 1 <= a <=> j <= J
    BY ONLY <1>3, j \in Nat, a \in Nat, d \in Nat
  <2> QED  BY ONLY <1>2, <2>1
<1>7. ASSUME NEW i \in 0 .. 1 - 1, NEW j \in 0 .. J
      PROVE  Stretch(o, u, i, First(o) + j * Every(o)) = cut(j)
  <2>1. i \in Nat /\ j \in Nat /\ j <= a - d
    BY <1>3
  <2>2. ASSUME NEW k \in 1 .. d PROVE u[<<i, (d + j * 1) - d + k - 1>>] = c[j + k]
    <3>1. PICK n \in Nat : n = j + k - 1 /\ n < a /\ n + 1 = j + k /\ (d + j * 1) - d + k - 1 = n
      BY ONLY <2>1, k \in 1 .. d, d \in Nat, a \in Nat
    <3>2. u[<<i, n>>] = Unit(o, i, n)
      BY ONLY <2>1, WalkIs, u = Walk(o), n \in Nat
    <3>3. Unit(o, i, n) = InBlock(Raster(o, n \div BlockBytes), n)
      BY DEF Unit
    <3> QED  BY ONLY <3>1, <3>2, <3>3, <1>5
  <2>3. Stretch(o, u, i, First(o) + j * Every(o)) = [k \in 1 .. d |-> u[<<i, (d + j * 1) - d + k - 1>>]]
    BY ONLY <1>2 DEF Stretch
  <2> QED  BY ONLY <2>2, <2>3
<1>8. Windows(o) = {cut(j) : j \in 0 .. J}
  <2>1. Windows(o) = Cut(c, d)
    BY <1>1, <1>4 DEF Windows
  <2> QED  BY ONLY <2>1, <1>3, <1>5 DEF Cut
<1> HIDE DEF cut
<1>9. \A i \in 0 .. 1 - 1, j \in 0 .. J : Stretch(o, u, i, First(o) + j * Every(o)) \in Windows(o)
  BY ONLY <1>7, <1>8
<1>10. \A s \in Windows(o) : \E i \in 0 .. 1 - 1, j \in 0 .. J :
          s = Stretch(o, u, i, First(o) + j * Every(o))
  BY ONLY <1>7, <1>8
<1>11. 1 \in Nat /\ 1 = Bands(o)
  BY <1>2
<1> QED  BY ONLY <1>6, <1>9, <1>10, <1>11, ByPlace, o \in Cases, J \in Int

LEMMA StripsByPlace ==
    ASSUME NEW o \in Cases, o.method = "rabin", o.dim = 2, NEW u, u = Walk(o)
    PROVE  \A s : s \in Windows(o) <=> Placed(o, u, s)
<1>1. PICK d \in Nat \ {0}, a \in Nat \ {0}, b \in Nat \ {0} :
        d = o.side /\ a = o.w * o.h /\ b = BlockBytes
  BY CaseIs, ImageIs, BlockBytesIs
<1>2. First(o) = d * b /\ Every(o) = b /\ Units(o) = a * b /\ Bands(o) = 1
  BY <1>1 DEF First, Every, Units, Bands, WinSize, ByteCount
<1>3. PICK J \in Int : J = a - d
  OBVIOUS
<1>4. PICK s : s = Image(o)
  OBVIOUS
<1>5. Len(s) = a /\ \A k \in 0 .. a - 1 : s[k + 1] = Raster(o, k)
  BY ONLY <1>1, <1>4, ImageIs, o \in Cases
<1> DEFINE cut(j) == [k \in 1 .. d |-> s[j + k]]
<1>6. ASSUME NEW j \in Nat PROVE First(o) + j * Every(o) <= Units(o) <=> j <= J
  <2>1. d * b + j * b = (d + j) * b /\ d + j \in Nat
    BY ONLY j \in Nat, d \in Nat, b \in Nat
  <2>2. (d + j) * b <= a * b <=> d + j <= a
    BY ONLY <2>1, FactorIs, a \in Nat, b \in Nat \ {0}
  <2>3. d + j <= a <=> j <= J
    BY ONLY <1>3, j \in Nat, a \in Nat, d \in Nat
  <2> QED  BY ONLY <1>2, <2>1, <2>2, <2>3
<1>7. ASSUME NEW i \in 0 .. 1 - 1, NEW j \in 0 .. J
      PROVE  Stretch(o, u, i, First(o) + j * Every(o)) = Concat(cut(j))
  <2>1. i \in Nat /\ j \in Nat /\ j <= a - d
    BY <1>3
  <2>2. PICK t : t = cut(j)
    OBVIOUS
  <2>3. Len(t) = d /\ \A m \in 0 .. d - 1 : t[m + 1] = Raster(o, j + m)
    <3>1. t = [k \in 1 .. d |-> s[j + k]]
      BY <2>2
    <3>2. ASSUME NEW m \in 0 .. d - 1 PROVE t[m + 1] = Raster(o, j + m)
      <4>1. PICK x \in 0 .. a - 1 : x = j + m /\ x + 1 = j + (m + 1) /\ m + 1 \in 1 .. d
        BY ONLY <2>1, m \in 0 .. d - 1, a \in Nat, d \in Nat
      <4> QED  BY ONLY <1>5, <3>1, <4>1
    <3>3. Len(t) = d
      BY ONLY <3>1, d \in Nat
    <3> QED  BY ONLY <3>2, <3>3
  <2>4. Concat(t) = [k \in 1 .. d * b |-> InBlock(t[(k - 1) \div b + 1], k - 1)]
    <3>1. Concat(t) = [k \in 1 .. d * BlockBytes |-> InBlock(t[(k - 1) \div BlockBytes + 1], k - 1)]
      BY ONLY <2>3, ConcatIs, d \in Nat
    <3> QED  BY ONLY <1>1, <3>1
  <2>5. ASSUME NEW k \in 1 .. d * b
        PROVE  u[<<i, (d * b + j * b) - d * b + k - 1>>] = InBlock(t[(k - 1) \div b + 1], k - 1)
    <3>1. PICK n \in Nat : n = k - 1 /\ n < d * b /\ k = n + 1
      <4>1. d * b \in Nat
        BY ONLY d \in Nat, b \in Nat
      <4> QED  BY ONLY <4>1, k \in 1 .. d * b
    <3>2. (d * b + j * b) - d * b + k - 1 = j * b + n /\ j * b + n \in Nat
      <4>1. d * b \in Nat /\ j * b \in Nat
        BY ONLY <2>1, d \in Nat, b \in Nat
      <4> QED  BY ONLY <3>1, <4>1, n \in Nat
    <3>3. u[<<i, j * b + n>>] = Unit(o, i, j * b + n)
      BY ONLY <2>1, <3>2, WalkIs, u = Walk(o)
    <3>4. Unit(o, i, j * b + n) = InBlock(Raster(o, (j * b + n) \div b), j * b + n)
      BY <1>1 DEF Unit
    <3>5. (j * b + n) \div b = j + (n \div b) /\ n \div b \in 0 .. d - 1
      BY ONLY <2>1, <3>1, FactorIs, Quotient, n \in Nat, d \in Nat \ {0}, b \in Nat \ {0}
    <3>6. t[(n \div b) + 1] = Raster(o, j + (n \div b))
      BY ONLY <2>3, <3>5
    <3>7. \A block : InBlock(block, j * b + n) = InBlock(block, n)
      BY ONLY <1>1, <2>1, InBlockIs, n \in Nat
    <3> QED  BY ONLY <3>1, <3>2, <3>3, <3>4, <3>5, <3>6, <3>7
  <2>6. Stretch(o, u, i, First(o) + j * Every(o))
          = [k \in 1 .. d * b |-> u[<<i, (d * b + j * b) - d * b + k - 1>>]]
    BY ONLY <1>2 DEF Stretch
  <2> HIDE DEF cut
  <2> QED  BY ONLY <2>2, <2>4, <2>5, <2>6
<1>8. \A t : t \in Windows(o) <=> \E j \in 0 .. J : t = Concat(cut(j))
  <2>1. Windows(o) = {Concat(t) : t \in Cut(s, d)}
    BY <1>1, <1>4 DEF Windows
  <2>2. Cut(s, d) = {cut(j) : j \in 0 .. J}
    BY ONLY <1>3, <1>5 DEF Cut
  <2> HIDE DEF cut
  <2> QED  BY ONLY <2>1, <2>2
<1> HIDE DEF cut
<1>9. \A i \in 0 .. 1 - 1, j \in 0 .. J : Stretch(o, u, i, First(o) + j * Every(o)) \in Windows(o)
  BY ONLY <1>7, <1>8
<1>10. \A t \in Windows(o) : \E i \in 0 .. 1 - 1, j \in 0 .. J :
          t = Stretch(o, u, i, First(o) + j * Every(o))
  <2>1. 0 \in 0 .. 1 - 1
    OBVIOUS
  <2> QED  BY ONLY <1>7, <1>8, <2>1
<1>11. 1 \in Nat /\ 1 = Bands(o)
  BY <1>2
<1> QED  BY ONLY <1>6, <1>9, <1>10, <1>11, ByPlace, o \in Cases, J \in Int

LEMMA BlocksByPlace ==
    ASSUME NEW o \in Cases, o.method = "gear", o.dim # 1, NEW u, u = Walk(o)
    PROVE  \A s : s \in Windows(o) <=> Placed(o, u, s)
<1>1. o.dim \in 0 .. 2
  BY CaseIs
<1>2. CASE o.dim = 0
  <2>1. Bands(o) = 0 /\ Windows(o) = {}
    BY <1>2 DEF Bands, Windows
  <2>2. 0 .. 0 - 1 = {}
    OBVIOUS
  <2> QED  BY ONLY <2>1, <2>2 DEF Placed
<1>3. CASE o.dim = 2
  <2>1. PICK a \in Nat \ {0} : a = o.w * o.h
    BY ImageIs
  <2>2. First(o) = 1 /\ Every(o) = 1 /\ Units(o) = a /\ Bands(o) = 1
    BY <1>3, <2>1 DEF First, Every, Units, Bands
  <2>3. PICK J \in Int : J = a - 1
    OBVIOUS
  <2>4. PICK s : s = Image(o)
    OBVIOUS
  <2>5. Len(s) = a /\ \A k \in 0 .. a - 1 : s[k + 1] = Raster(o, k)
    BY ONLY <2>1, <2>4, ImageIs, o \in Cases
  <2> DEFINE cut(j) == [k \in 1 .. 1 |-> s[j + k]]
  <2>6. ASSUME NEW j \in Nat PROVE First(o) + j * Every(o) <= Units(o) <=> j <= J
    <3>1. 1 + j * 1 <= a <=> j <= J
      BY ONLY <2>3, j \in Nat, a \in Nat
    <3> QED  BY ONLY <2>2, <3>1
  <2>7. ASSUME NEW i \in 0 .. 1 - 1, NEW j \in 0 .. J
        PROVE  Stretch(o, u, i, First(o) + j * Every(o)) = cut(j)
    <3>1. i \in Nat /\ j \in Nat /\ j \in 0 .. a - 1
      BY <2>3
    <3>2. ASSUME NEW k \in 1 .. 1 PROVE u[<<i, (1 + j * 1) - 1 + k - 1>>] = s[j + k]
      <4>1. (1 + j * 1) - 1 + k - 1 = j /\ j + k = j + 1
        BY ONLY <3>1, k \in 1 .. 1
      <4>2. u[<<i, j>>] = Unit(o, i, j)
        BY ONLY <3>1, WalkIs, u = Walk(o)
      <4>3. Unit(o, i, j) = Raster(o, j)
        BY <1>3 DEF Unit
      <4> QED  BY ONLY <2>5, <3>1, <4>1, <4>2, <4>3
    <3>3. Stretch(o, u, i, First(o) + j * Every(o)) = [k \in 1 .. 1 |-> u[<<i, (1 + j * 1) - 1 + k - 1>>]]
      BY ONLY <2>2 DEF Stretch
    <3> QED  BY ONLY <3>2, <3>3
  <2>8. Windows(o) = {cut(j) : j \in 0 .. J}
    <3>1. Windows(o) = Cut(s, 1)
      BY <1>3, <2>4 DEF Windows
    <3> QED  BY ONLY <3>1, <2>3, <2>5 DEF Cut
  <2> HIDE DEF cut
  <2>9. \A i \in 0 .. 1 - 1, j \in 0 .. J : Stretch(o, u, i, First(o) + j * Every(o)) \in Windows(o)
    BY ONLY <2>7, <2>8
  <2>10. \A t \in Windows(o) : \E i \in 0 .. 1 - 1, j \in 0 .. J :
            t = Stretch(o, u, i, First(o) + j * Every(o))
    BY ONLY <2>7, <2>8
  <2>11. 1 \in Nat /\ 1 = Bands(o)
    BY <2>2
  <2> QED  BY ONLY <2>6, <2>9, <2>10, <2>11, ByPlace, o \in Cases, J \in Int
<1> QED  BY <1>1, <1>2, <1>3

(* The windows that the walk completes are the windows of the image.       *)
LEMMA WindowsByPlace ==
    ASSUME NEW o \in Cases, Exact(o), NEW u, u = Walk(o)
    PROVE  \A s : s \in Windows(o) <=> Placed(o, u, s)
<1>1. o.method \in {"2df", "rabin", "gear"} /\ o.dim \in 0 .. 2
  BY CaseIs
<1>2. o.method = "gear" => o.dim # 1
  BY DEF Exact
<1> QED  BY ONLY <1>1, <1>2, SquaresByPlace, RowsByPlace, SquareBytesByPlace, BytesByPlace,
            StripsByPlace, BlocksByPlace, o \in Cases, u = Walk(o)

-----------------------------------------------------------------------------
(* Places where features have been taken: band and units in.               *)
Seen(o, b, p) == {x \in Nat \X Nat : /\ Due(o, x[2]) /\ x[2] <= Units(o)
                                     /\ x[1] < b \/ (x[1] = b /\ x[2] <= p)}
SeenValues(o, u, b, p) == {WindowValue(o, Stretch(o, u, x[1], x[2])) : x \in Seen(o, b, p)}

(* The greatest that every transformation has over some numbers.           *)
GreatestOver(g, V) ==
    /\ g \in [DOMAIN K -> Nat] /\ V \subseteq Nat
    /\ \A m \in DOMAIN K : /\ \A y \in V : g[m] >= Linear(m, y)
                           /\ g[m] = 0 \/ \E y \in V : g[m] = Linear(m, y)

LEMMA GreatestOfNone == GreatestOver([m \in DOMAIN K |-> 0], {})
BY DEF GreatestOver

LEMMA GreatestOfMore ==
    ASSUME NEW g, NEW V, GreatestOver(g, V), NEW y \in Nat
    PROVE  GreatestOver([m \in DOMAIN K |-> Greater(g[m], Linear(m, y))], V \cup {y})
<1> DEFINE h == [m \in DOMAIN K |-> Greater(g[m], Linear(m, y))]
<1>1. /\ g \in [DOMAIN K -> Nat] /\ V \subseteq Nat
      /\ \A m \in DOMAIN K : /\ \A z \in V : g[m] >= Linear(m, z)
                             /\ g[m] = 0 \/ \E z \in V : g[m] = Linear(m, z)
  BY DEF GreatestOver
<1>2. \A m \in DOMAIN K, z \in Nat : Linear(m, z) \in Nat
  BY GearIs
<1>3. \A a, b \in Nat : /\ Greater(a, b) \in {a, b} /\ Greater(a, b) \in Nat
                        /\ Greater(a, b) >= a /\ Greater(a, b) >= b
  BY DEF Greater
<1>4. ASSUME NEW m \in DOMAIN K
      PROVE  /\ h[m] \in Nat /\ \A z \in V \cup {y} : h[m] >= Linear(m, z)
             /\ h[m] = 0 \/ \E z \in V \cup {y} : h[m] = Linear(m, z)
  <2>1. PICK a \in Nat, b \in Nat : a = g[m] /\ b = Linear(m, y)
    BY <1>1, <1>2
  <2>2. PICK c \in Nat : c = h[m] /\ c \in {a, b} /\ c >= a /\ c >= b
    BY <1>3, <2>1
  <2>3. ASSUME NEW z \in V \cup {y} PROVE c >= Linear(m, z)
    <3>1. CASE z = y
      BY <3>1, <2>1, <2>2
    <3>2. CASE z \in V
      <4>1. PICK d \in Nat : d = Linear(m, z)
        BY <3>2, <1>1, <1>2
      <4>2. a >= d
        BY <3>2, <4>1, <1>1, <2>1
      <4> QED  BY ONLY <4>1, <4>2, <2>2, a \in Nat
    <3> QED  BY <3>1, <3>2
  <2>4. c = 0 \/ \E z \in V \cup {y} : c = Linear(m, z)
    BY <1>1, <2>1, <2>2
  <2> QED  BY ONLY <2>2, <2>3, <2>4
<1>5. h \in [DOMAIN K -> Nat] /\ V \cup {y} \subseteq Nat
  <2>1. h = [m \in DOMAIN K |-> h[m]]
    OBVIOUS
  <2> HIDE DEF h
  <2> QED  BY <1>1, <1>4, <2>1
<1> HIDE DEF h
<1>6. GreatestOver(h, V \cup {y})
  BY ONLY <1>4, <1>5 DEF GreatestOver
<1> QED  BY <1>6 DEF h

(* There is one such number for each transformation.                       *)
LEMMA GreatestIs ==
    ASSUME NEW g, NEW V, GreatestOver(g, V)
    PROVE  g = [m \in DOMAIN K |-> CHOOSE x \in {0} \cup {Linear(m, y) : y \in V} :
                                        \A y \in V : x >= Linear(m, y)]
<1>1. /\ g \in [DOMAIN K -> Nat] /\ V \subseteq Nat
      /\ \A m \in DOMAIN K : /\ \A z \in V : g[m] >= Linear(m, z)
                             /\ g[m] = 0 \/ \E z \in V : g[m] = Linear(m, z)
  BY DEF GreatestOver
<1>2. \A m \in DOMAIN K, z \in Nat : Linear(m, z) \in Nat
  BY GearIs
<1>3. ASSUME NEW m \in DOMAIN K
      PROVE  g[m] = CHOOSE x \in {0} \cup {Linear(m, y) : y \in V} :
                        \A y \in V : x >= Linear(m, y)
  <2> DEFINE S == {0} \cup {Linear(m, y) : y \in V}
  <2>1. g[m] \in S /\ \A y \in V : g[m] >= Linear(m, y)
    BY <1>1
  <2>2. PICK x : x = CHOOSE z \in S : \A y \in V : z >= Linear(m, y)
    OBVIOUS
  <2>3. x \in S /\ \A y \in V : x >= Linear(m, y)
    <3> HIDE DEF S
    <3> QED  BY ONLY <2>1, <2>2
  <2>4. \A a \in S : a \in Nat
    BY <1>1, <1>2
  <2>5. ASSUME NEW a \in S, NEW b \in S, \A y \in V : b >= Linear(m, y) PROVE b >= a
    <3>1. b \in Nat /\ (a = 0 \/ \E y \in V : a = Linear(m, y))
      BY <2>4
    <3> QED  BY ONLY <3>1, <2>5
  <2>6. g[m] >= x /\ x >= g[m]
    BY ONLY <2>1, <2>3, <2>5
  <2>7. g[m] = x
    <3>1. PICK a \in Nat, b \in Nat : a = g[m] /\ b = x
      BY ONLY <2>1, <2>3, <2>4
    <3> QED  BY ONLY <2>6, <3>1
  <2> QED  BY ONLY <2>2, <2>7
<1> QED  BY ONLY <1>1, <1>3

LEMMA SeenIs ==
    ASSUME NEW o \in Cases, NEW u, NEW b \in Nat, NEW p \in Nat
    PROVE  /\ SeenValues(o, u, 0, 0) = {}
           /\ SeenValues(o, u, b, Units(o)) = SeenValues(o, u, b + 1, 0)
           /\ p < Units(o) /\ ~Due(o, p + 1) =>
                  SeenValues(o, u, b, p + 1) = SeenValues(o, u, b, p)
           /\ p < Units(o) /\ Due(o, p + 1) =>
                  SeenValues(o, u, b, p + 1)
                    = SeenValues(o, u, b, p) \cup {WindowValue(o, Stretch(o, u, b, p + 1))}
<1>1. First(o) \in Nat \ {0} /\ Units(o) \in Nat
  BY FirstIs
<1>2. \A n \in Nat : Due(o, n) => n > 0
  BY ONLY <1>1 DEF Due
<1>3. \A c, q, x : x \in Seen(o, c, q) <=> /\ x \in Nat \X Nat /\ Due(o, x[2]) /\ x[2] <= Units(o)
                                           /\ x[1] < c \/ (x[1] = c /\ x[2] <= q)
  BY DEF Seen
<1>4. \A x \in Nat \X Nat : x[1] \in Nat /\ x[2] \in Nat /\ x = <<x[1], x[2]>>
  OBVIOUS
<1>5. Seen(o, 0, 0) = {}
  BY ONLY <1>2, <1>3, <1>4
<1>6. Seen(o, b, Units(o)) = Seen(o, b + 1, 0)
  <2>1. ASSUME NEW x \in Nat \X Nat, Due(o, x[2]), x[2] <= Units(o)
        PROVE  (x[1] < b \/ (x[1] = b /\ x[2] <= Units(o))) <=> (x[1] < b + 1 \/ (x[1] = b + 1 /\ x[2] <= 0))
    BY ONLY <1>1, <1>2, <1>4, <2>1, b \in Nat
  <2>2. ASSUME NEW x PROVE x \in Seen(o, b, Units(o)) <=> x \in Seen(o, b + 1, 0)
    BY ONLY <1>3, <2>1
  <2> QED  BY ONLY <2>2
<1>7. ASSUME p < Units(o)
      PROVE  /\ ~Due(o, p + 1) => Seen(o, b, p + 1) = Seen(o, b, p)
             /\ Due(o, p + 1) => Seen(o, b, p + 1) = Seen(o, b, p) \cup {<<b, p + 1>>}
  <2>1. ASSUME NEW x \in Nat \X Nat
        PROVE  (x[1] < b \/ (x[1] = b /\ x[2] <= p + 1))
                  <=> ((x[1] < b \/ (x[1] = b /\ x[2] <= p)) \/ (x[1] = b /\ x[2] = p + 1))
    BY ONLY <1>4, b \in Nat, p \in Nat
  <2>2. ASSUME ~Due(o, p + 1) PROVE Seen(o, b, p + 1) = Seen(o, b, p)
    <3>1. ASSUME NEW x PROVE x \in Seen(o, b, p + 1) <=> x \in Seen(o, b, p)
      BY ONLY <1>3, <2>1, <2>2
    <3> QED  BY ONLY <3>1
  <2>3. ASSUME Due(o, p + 1) PROVE Seen(o, b, p + 1) = Seen(o, b, p) \cup {<<b, p + 1>>}
    <3>1. <<b, p + 1>> \in Nat \X Nat /\ p + 1 <= Units(o)
      BY <1>1, <1>7
    <3>2. \A x \in Nat \X Nat : x = <<b, p + 1>> <=> x[1] = b /\ x[2] = p + 1
      BY ONLY <1>4
    <3>3. ASSUME NEW x PROVE x \in Seen(o, b, p + 1) <=> x \in Seen(o, b, p) \cup {<<b, p + 1>>}
      BY ONLY <1>3, <2>1, <2>3, <3>1, <3>2
    <3> QED  BY ONLY <3>3
  <2> QED  BY <2>2, <2>3
<1>8. \A c, q : SeenValues(o, u, c, q) = {WindowValue(o, Stretch(o, u, x[1], x[2])) : x \in Seen(o, c, q)}
  BY DEF SeenValues
<1>9. SeenValues(o, u, 0, 0) = {}
  BY ONLY <1>5, <1>8
<1>10. SeenValues(o, u, b, Units(o)) = SeenValues(o, u, b + 1, 0)
  BY ONLY <1>6, <1>8
<1>11. ASSUME p < Units(o), ~Due(o, p + 1)
       PROVE  SeenValues(o, u, b, p + 1) = SeenValues(o, u, b, p)
  BY ONLY <1>7, <1>8, <1>11
<1>12. ASSUME p < Units(o), Due(o, p + 1)
       PROVE  SeenValues(o, u, b, p + 1)
                = SeenValues(o, u, b, p) \cup {WindowValue(o, Stretch(o, u, b, p + 1))}
  <2>1. PICK z \in Nat \X Nat : z = <<b, p + 1>> /\ z[1] = b /\ z[2] = p + 1
    <3>1. <<b, p + 1>> \in Nat \X Nat /\ <<b, p + 1>>[1] = b /\ <<b, p + 1>>[2] = p + 1
      OBVIOUS
    <3> QED  BY ONLY <3>1
  <2>2. Seen(o, b, p + 1) = Seen(o, b, p) \cup {z}
    BY ONLY <1>7, <1>12, <2>1
  <2>3. SeenValues(o, u, b, p + 1)
          = SeenValues(o, u, b, p) \cup {WindowValue(o, Stretch(o, u, z[1], z[2]))}
    BY ONLY <1>8, <2>2
  <2> QED  BY ONLY <2>1, <2>3
<1> QED  BY ONLY <1>9, <1>10, <1>11, <1>12

(* In the end it is the windows of the image that have been seen.          *)
LEMMA SeenInTheEnd ==
    ASSUME NEW o \in Cases, Exact(o), NEW u, u = Walk(o)
    PROVE  SeenValues(o, u, Bands(o), 0) = {WindowValue(o, s) : s \in Windows(o)}
<1>1. First(o) \in Nat \ {0} /\ Units(o) \in Nat /\ Bands(o) \in Nat
  BY FirstIs
<1>2. PICK I \in Nat : I = Bands(o)
  BY <1>1
<1>3. \A s : s \in Windows(o) <=> Placed(o, u, s)
  BY WindowsByPlace
<1>4. ASSUME NEW v, v \in SeenValues(o, u, I, 0)
      PROVE  \E s \in Windows(o) : v = WindowValue(o, s)
  <2>1. PICK x \in Seen(o, I, 0) : v = WindowValue(o, Stretch(o, u, x[1], x[2]))
    BY <1>4 DEF SeenValues
  <2>2. x \in Nat \X Nat /\ Due(o, x[2]) /\ x[2] <= Units(o) /\ (x[1] < I \/ (x[1] = I /\ x[2] <= 0))
    BY DEF Seen
  <2>3. PICK i \in Nat, n \in Nat : i = x[1] /\ n = x[2]
    BY <2>2
  <2>4. n > 0
    BY ONLY <1>1, <2>2, <2>3 DEF Due
  <2>5. i \in 0 .. I - 1
    BY ONLY <2>2, <2>3, <2>4, I \in Nat
  <2>6. Placed(o, u, Stretch(o, u, i, n))
    BY ONLY <1>2, <2>2, <2>3, <2>5 DEF Placed
  <2> QED  BY ONLY <1>3, <2>1, <2>3, <2>6
<1>5. ASSUME NEW s \in Windows(o) PROVE WindowValue(o, s) \in SeenValues(o, u, I, 0)
  <2>1. Placed(o, u, s)
    BY <1>3
  <2>2. PICK i \in 0 .. I - 1, n \in Nat : Due(o, n) /\ n <= Units(o) /\ s = Stretch(o, u, i, n)
    BY ONLY <1>2, <2>1 DEF Placed
  <2>3. <<i, n>> \in Seen(o, I, 0)
    BY ONLY <2>2, I \in Nat DEF Seen
  <2>4. PICK x \in Seen(o, I, 0) : x[1] = i /\ x[2] = n
    BY ONLY <2>3
  <2>5. WindowValue(o, s) = WindowValue(o, Stretch(o, u, x[1], x[2]))
    BY ONLY <2>2, <2>4
  <2> QED  BY ONLY <2>5 DEF SeenValues
<1> QED  BY ONLY <1>2, <1>4, <1>5

-----------------------------------------------------------------------------
(* At every unit: the walk is in the image, the rolling value is that of   *)
(* the last units, and the greatest values are those over the windows that *)
(* have been completed; super features are summed from the last of them.   *)
WalkInv ==
    /\ opt \in Cases /\ Complete(opt, cell)
    /\ band \in Nat /\ band <= Bands(opt) /\ pos \in Nat /\ pos <= Units(opt)
    /\ band = Bands(opt) => pos = 0
    /\ Exact(opt) => /\ RollsOn(opt, Walk(opt), hash, band, pos)
                     /\ GreatestOver(max, SeenValues(opt, Walk(opt), band, pos))
    /\ sfs # <<>> => /\ band = Bands(opt)
                     /\ sfs = [i \in 1 .. Len(K) \div PerSF |-> Summed(i)]

LEMMA WalkSame == opt' = opt /\ cell' = cell => Walk(opt)' = Walk(opt)
<1> SUFFICES ASSUME opt' = opt, cell' = cell PROVE Walk(opt)' = Walk(opt)
  OBVIOUS
<1>1. \A i, n : Column(opt, i, n)' = Column(opt, i, n)
  BY Zenon DEF Column
<1>2. \A n : Raster(opt, n)' = Raster(opt, n)
  BY Zenon DEF Raster
<1>3. \A i, n : Unit(opt, i, n)' = Unit(opt, i, n)
  BY <1>1, <1>2, Zenon DEF Unit
<1> QED  BY <1>3 DEF Walk

LEMMA SummedSame == ASSUME max' = max, NEW i PROVE Summed(i)' = Summed(i)
BY Zenon DEF Summed

LEMMA WalkInvHolds == FeaturesSpec => []WalkInv
<1>1. FeaturesInit => WalkInv
  <2> SUFFICES ASSUME FeaturesInit PROVE WalkInv
    OBVIOUS
  <2>1. /\ opt \in Cases /\ band = 0 /\ pos = 0 /\ hash = Fresh(opt) /\ sfs = <<>>
        /\ max = [m \in DOMAIN K |-> 0] /\ Complete(opt, cell)
    BY DEF FeaturesInit, Complete
  <2>2. Bands(opt) \in Nat /\ Units(opt) \in Nat
    BY <2>1, FirstIs
  <2>3. ASSUME Exact(opt)
        PROVE  /\ RollsOn(opt, Walk(opt), hash, band, pos)
               /\ GreatestOver(max, SeenValues(opt, Walk(opt), band, pos))
    <3>0. PICK o \in Cases : o = opt
      BY <2>1
    <3>1. PICK u : o = opt /\ u = Walk(opt)
      BY <3>0
    <3>2. RollsOn(o, u, Fresh(o), 0, 0)
      BY <2>3, <3>1, FreshRolls
    <3>3. SeenValues(o, u, 0, 0) = {}
      BY ONLY SeenIs, o \in Cases, 0 \in Nat
    <3> QED  BY ONLY <2>1, <3>1, <3>2, <3>3, GreatestOfNone
  <2> QED  BY <2>1, <2>2, <2>3 DEF WalkInv
<1>2. ASSUME WalkInv, Roll PROVE WalkInv'
  <2> DEFINE n == pos + 1
  <2>1. /\ opt' = opt /\ cell' = cell /\ band' = band /\ pos' = n /\ sfs' = sfs
        /\ band < Bands(opt) /\ pos < Units(opt)
        /\ hash' = Take(opt, hash, Unit(opt, band, pos))
        /\ max' = [m \in DOMAIN K |-> IF Due(opt, n)
                                      THEN Greater(max[m], Linear(m, Value(opt, hash')))
                                      ELSE max[m]]
    BY <1>2 DEF Roll
  <2>2. /\ opt \in Cases /\ Complete(opt, cell) /\ band \in Nat /\ pos \in Nat
        /\ Exact(opt) => /\ RollsOn(opt, Walk(opt), hash, band, pos)
                         /\ GreatestOver(max, SeenValues(opt, Walk(opt), band, pos))
        /\ sfs # <<>> => band = Bands(opt)
    BY <1>2 DEF WalkInv
  <2>3. Bands(opt) \in Nat /\ Units(opt) \in Nat
    BY <2>2, FirstIs
  <2>4. n \in Nat /\ n <= Units(opt) /\ band # Bands(opt)
    BY <2>1, <2>2, <2>3
  <2>5. Walk(opt)' = Walk(opt)
    BY <2>1, WalkSame
  <2>6. ASSUME Exact(opt)
        PROVE  /\ RollsOn(opt, Walk(opt), hash', band, n)
               /\ GreatestOver(max', SeenValues(opt, Walk(opt), band, n))
    <3>0. PICK o \in Cases : o = opt
      BY <2>2
    <3>1. PICK u : o = opt /\ u = Walk(opt)
      BY <3>0
    <3>2. PICK h : h = hash'
      OBVIOUS
    <3>3. PICK g, V : g = max /\ V = SeenValues(o, u, band, pos) /\ GreatestOver(g, V)
      BY <2>2, <2>6, <3>1
    <3>4. RollsOn(o, u, h, band, n)
      BY <2>1, <2>2, <2>6, <3>1, <3>2, TakeRolls
    <3>5. CASE Due(o, n)
      <4>1. PICK y \in Nat : y = Value(o, h) /\ y = WindowValue(o, Stretch(o, u, band, n))
        BY <2>1, <2>2, <2>4, <2>6, <3>1, <3>4, <3>5, ValueOfWindow
      <4>2. max' = [m \in DOMAIN K |-> Greater(g[m], Linear(m, y))]
        BY ONLY <2>1, <3>1, <3>2, <3>3, <3>5, <4>1
      <4>3. SeenValues(o, u, band, n) = V \cup {y}
        <5>1. pos < Units(o) /\ pos \in Nat /\ band \in Nat
          BY ONLY <2>1, <2>2, <3>1
        <5>2. SeenValues(o, u, band, pos + 1)
                = SeenValues(o, u, band, pos) \cup {WindowValue(o, Stretch(o, u, band, pos + 1))}
          BY ONLY <3>5, <5>1, SeenIs, o \in Cases
        <5> QED  BY ONLY <3>3, <4>1, <5>2
      <4>4. GreatestOver(max', SeenValues(o, u, band, n))
        BY ONLY <3>3, <4>2, <4>3, GreatestOfMore, y \in Nat
      <4> QED  BY ONLY <3>1, <3>2, <3>4, <4>4
    <3>6. CASE ~Due(o, n)
      <4>1. max' = g
        <5>1. max' = [m \in DOMAIN K |-> g[m]]
          BY ONLY <2>1, <3>1, <3>3, <3>6
        <5> QED  BY ONLY <3>3, <5>1 DEF GreatestOver
      <4>2. SeenValues(o, u, band, n) = V
        <5>1. pos < Units(o) /\ pos \in Nat /\ band \in Nat
          BY ONLY <2>1, <2>2, <3>1
        <5>2. SeenValues(o, u, band, pos + 1) = SeenValues(o, u, band, pos)
          BY ONLY <3>6, <5>1, SeenIs, o \in Cases
        <5> QED  BY ONLY <3>3, <5>2
      <4> QED  BY ONLY <3>1, <3>2, <3>3, <3>4, <4>1, <4>2
    <3> QED  BY <3>5, <3>6
  <2>7. Exact(opt') => /\ RollsOn(opt', Walk(opt)', hash', band', pos')
                       /\ GreatestOver(max', SeenValues(opt', Walk(opt)', band', pos'))
    BY ONLY <2>1, <2>5, <2>6
  <2>8. sfs' # <<>> => FALSE
    BY ONLY <2>1, <2>2, <2>4
  <2>9. /\ opt' \in Cases /\ Complete(opt', cell') /\ band' \in Nat /\ band' <= Bands(opt')
        /\ pos' \in Nat /\ pos' <= Units(opt') /\ band' # Bands(opt')
    BY ONLY <1>2, <2>1, <2>2, <2>4 DEF WalkInv
  <2> QED  BY ONLY <2>7, <2>8, <2>9 DEF WalkInv
<1>3. ASSUME WalkInv, NextBand PROVE WalkInv'
  <2>1. /\ opt' = opt /\ cell' = cell /\ band' = band + 1 /\ pos' = 0 /\ sfs' = sfs /\ max' = max
        /\ band < Bands(opt) /\ pos = Units(opt) /\ hash' = Fresh(opt)
    BY <1>3 DEF NextBand
  <2>2. /\ opt \in Cases /\ Complete(opt, cell) /\ band \in Nat /\ pos \in Nat
        /\ Exact(opt) => GreatestOver(max, SeenValues(opt, Walk(opt), band, pos))
        /\ sfs # <<>> => band = Bands(opt)
    BY <1>3 DEF WalkInv
  <2>3. Bands(opt) \in Nat /\ Units(opt) \in Nat
    BY <2>2, FirstIs
  <2>4. band + 1 \in Nat /\ band + 1 <= Bands(opt) /\ band # Bands(opt)
    BY <2>1, <2>2, <2>3
  <2>5. Walk(opt)' = Walk(opt)
    BY <2>1, WalkSame
  <2>6. ASSUME Exact(opt)
        PROVE  /\ RollsOn(opt, Walk(opt), hash', band + 1, 0)
               /\ GreatestOver(max, SeenValues(opt, Walk(opt), band + 1, 0))
    <3>0. PICK o \in Cases : o = opt
      BY <2>2
    <3>1. PICK u : o = opt /\ u = Walk(opt)
      BY <3>0
    <3>2. RollsOn(o, u, Fresh(o), band + 1, 0)
      BY <2>6, <3>1, FreshRolls
    <3>3. SeenValues(o, u, band, Units(o)) = SeenValues(o, u, band + 1, 0)
      BY ONLY <2>2, SeenIs, o \in Cases
    <3> QED  BY ONLY <2>1, <2>2, <2>6, <3>1, <3>2, <3>3
  <2> QED  BY <2>1, <2>2, <2>3, <2>4, <2>5, <2>6 DEF WalkInv
<1>4. ASSUME WalkInv, Sum \/ UNCHANGED featuresVars PROVE WalkInv'
  <2>1. /\ opt' = opt /\ cell' = cell /\ band' = band /\ pos' = pos /\ hash' = hash /\ max' = max
        /\ sfs' = sfs \/ (band = Bands(opt) /\ sfs' = [i \in 1 .. Len(K) \div PerSF |-> Summed(i)])
    BY <1>4 DEF Sum, featuresVars
  <2>2. Walk(opt)' = Walk(opt)
    BY <2>1, WalkSame
  <2>3. [i \in 1 .. Len(K) \div PerSF |-> Summed(i)]' = [i \in 1 .. Len(K) \div PerSF |-> Summed(i)]
    BY <2>1, SummedSame
  <2>4. sfs' # <<>> => /\ band = Bands(opt)
                       /\ sfs' = [i \in 1 .. Len(K) \div PerSF |-> Summed(i)]'
    BY <1>4, <2>1, <2>3 DEF WalkInv
  <2> QED  BY <1>4, <2>1, <2>2, <2>4 DEF WalkInv
<1>5. WalkInv /\ [FeaturesNext]_featuresVars => WalkInv'
  BY <1>2, <1>3, <1>4 DEF FeaturesNext
<1> QED  BY <1>1, <1>5, PTL DEF FeaturesSpec

(* Whatever the image, the options, the tables and the widths: the super   *)
(* features of compute_features are sums of the greatest values that the   *)
(* transformations have over the windows of the image, found by place.     *)
THEOREM SuperFeaturesAreOfImage == FeaturesSpec => []SuperFeaturesOfWindows
<1>1. WalkInv => SuperFeaturesOfWindows
  <2> SUFFICES ASSUME WalkInv, sfs # <<>>, Exact(opt),
                      NEW values, values = {WindowValue(opt, s) : s \in Windows(opt)},
                      NEW high, high = [m \in DOMAIN K |->
                                           CHOOSE x \in {0} \cup {Linear(m, y) : y \in values} :
                                               \A y \in values : x >= Linear(m, y)],
                      NEW i \in DOMAIN sfs
               PROVE  sfs[i] = Total(high, i) % Pow[WordBits]
    BY DEF SuperFeaturesOfWindows
  <2>1. /\ opt \in Cases /\ GreatestOver(max, SeenValues(opt, Walk(opt), band, pos))
        /\ band = Bands(opt) /\ pos = 0
        /\ sfs = [j \in 1 .. Len(K) \div PerSF |-> Summed(j)]
    BY DEF WalkInv
  <2>2. SeenValues(opt, Walk(opt), Bands(opt), 0) = values
    BY <2>1, SeenInTheEnd
  <2>3. GreatestOver(max, values)
    BY ONLY <2>1, <2>2
  <2>4. max = high
    BY <2>3, GreatestIs
  <2>5. max \in [DOMAIN K -> Nat]
    BY <2>3 DEF GreatestOver
  <2>6. i \in 1 .. Len(K) \div PerSF /\ sfs[i] = Summed(i)
    BY ONLY <2>1, i \in DOMAIN sfs
  <2>7. Summed(i) = Total(max, i) % Pow[WordBits]
    BY <2>5, <2>6, SumsAgree
  <2> QED  BY ONLY <2>4, <2>6, <2>7
<1> QED  BY <1>1, WalkInvHolds, PTL
=============================================================================
