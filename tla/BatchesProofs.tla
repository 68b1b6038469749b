--------------------------- MODULE BatchesProofs ----------------------------
(***************************************************************************)
(* Proofs about Batches for any folders, any number of roads and readers,  *)
(* both ways of chunking and chaos.                                        *)
(***************************************************************************)
EXTENDS Batches, FiniteSetTheorems, SequenceTheorems, TLAPS

Entries == [file : Files, end_of_dir : BOOLEAN]
States == {"runs", "waits", "joins", "ended"}

TypeInv == /\ config \in Configs
           /\ walk \subseteq Dirs
           /\ dirList \in Seq(Dirs)
           /\ dirEnding \in BOOLEAN
           /\ namer \in [NameLists -> States]
           /\ todo \in [NameLists -> SUBSET Files]
           /\ nameList \in [NameLists -> Seq(Entries)]
           /\ nameEnding \in [NameLists -> BOOLEAN]
           /\ road \in [Roads -> States]
           /\ reader \in [Roads \X Readers -> States]
           /\ raw \in [Roads \X Readers -> Nat]
           /\ batch \in [Roads -> Nat]
           /\ batches \in Nat
           /\ batchOf \in [Files -> SUBSET Nat]
           /\ skipped \subseteq Files

(* Who has ended, and what that leaves; a batch's readers run only while   *)
(* its road waits for them.                                                *)
Ended == /\ dirEnding => walk = {}
         /\ \A l \in NameLists :
               nameEnding[l] => /\ namer[l] = "ended" /\ todo[l] = {}
                                /\ dirEnding /\ dirList = <<>>
         /\ \A r \in Roads :
               /\ road[r] = "ended" => nameEnding[ListOf(r)] /\ nameList[ListOf(r)] = <<>>
               /\ road[r] # "joins" => \A i \in Readers : reader[<<r, i>>] = "ended"

(* The places of a file on its way. *)
Ahead(f) == \E d \in Dirs : /\ f \in FilesOf[d]
                            /\ d \in walk \/ \E i \in DOMAIN dirList : dirList[i] = d
AtNamer(f) == \E l \in NameLists : f \in todo[l]
AtReader(f) == \E l \in NameLists : \E i \in DOMAIN nameList[l] : nameList[l][i].file = f
IsRead(f) == batchOf[f] # {}
IsSkipped(f) == f \in skipped

(* A folder is at one place of its way, and so is a file at each of the    *)
(* places of its own.                                                      *)
Once == /\ \A i, j \in DOMAIN dirList : dirList[i] = dirList[j] => i = j
        /\ \A i \in DOMAIN dirList : dirList[i] \notin walk
        /\ \A l, m \in NameLists : l # m => todo[l] \cap todo[m] = {}
        /\ \A l, m \in NameLists : \A i \in DOMAIN nameList[l], j \in DOMAIN nameList[m] :
              nameList[l][i].file = nameList[m][j].file => l = m /\ i = j
        /\ \A f \in Files : \A b, c \in batchOf[f] : b = c

(* A file is at one place at a time, and at one of them if it has a name.  *)
Apart == \A f \in Files :
            /\ Ahead(f) => ~AtNamer(f) /\ ~AtReader(f) /\ ~IsRead(f) /\ ~IsSkipped(f)
            /\ AtNamer(f) => ~AtReader(f) /\ ~IsRead(f) /\ ~IsSkipped(f)
            /\ AtReader(f) => ~IsRead(f) /\ ~IsSkipped(f)
            /\ IsRead(f) => ~IsSkipped(f)
Somewhere == \A f \in Files : f \in Named <=> \/ Ahead(f) \/ AtNamer(f) \/ AtReader(f)
                                              \/ IsRead(f) \/ IsSkipped(f)

Walk == TypeInv /\ Ended /\ Once /\ Apart /\ Somewhere

-----------------------------------------------------------------------------
LEMMA ListsOfRoads ==
    ASSUME TypeInv
    PROVE  /\ \A r \in Roads : ListOf(r) \in NameLists
           /\ \A l \in NameLists : \E r \in Roads : ListOf(r) = l
           /\ Roads # {}
<1>1. config.roads \in Nat \ {0}
  BY FolderAssumption DEF TypeInv
<1>2. 1 \in Roads
  BY <1>1 DEF Roads
<1> QED  BY <1>2 DEF ListOf, NameLists

(* Roads, readers and lists are chosen once. *)
LEMMA Fixed ==
    ASSUME UNCHANGED config
    PROVE  /\ Roads' = Roads /\ Readers' = Readers /\ NameLists' = NameLists
           /\ \A r : ListOf(r)' = ListOf(r)
BY DEF Roads, Readers, NameLists, ListOf

(* Being told something ends nobody and begins no batch. *)
LEMMA ToldNamers ==
    ASSUME TypeInv, SignalDirs
    PROVE  /\ namer' \in [NameLists -> States]
           /\ \A l \in NameLists : namer'[l] = "ended" <=> namer[l] = "ended"
BY DEF TypeInv, SignalDirs, States

LEMMA ToldRoads ==
    ASSUME TypeInv, NEW l \in NameLists, SignalNames(l)
    PROVE  /\ road' \in [Roads -> States] /\ reader' \in [Roads \X Readers -> States]
           /\ \A r \in Roads : /\ road'[r] = "ended" <=> road[r] = "ended"
                               /\ road'[r] = "joins" <=> road[r] = "joins"
           /\ \A t \in Roads \X Readers : reader'[t] = "ended" <=> reader[t] = "ended"
<1> USE DEF TypeInv, SignalNames, States
<1>1. CASE \E r \in Roads : road[r] = "waits" /\ road' = [road EXCEPT ![r] = "runs"]
                            /\ UNCHANGED reader
  BY <1>1
<1>2. CASE \E t \in Roads \X Readers : reader[t] = "waits"
                            /\ reader' = [reader EXCEPT ![t] = "runs"] /\ UNCHANGED road
  BY <1>2
<1>3. CASE UNCHANGED <<road, reader>>
  BY <1>3
<1> QED  BY <1>1, <1>2, <1>3

(* What appending to a list and taking from it do, place by place. *)
LEMMA Appended ==
    ASSUME NEW S, NEW s \in Seq(S), NEW x \in S
    PROVE  /\ Append(s, x) \in Seq(S)
           /\ Len(Append(s, x)) = Len(s) + 1 /\ Len(s) \in Nat
           /\ DOMAIN s = 1 .. Len(s) /\ DOMAIN Append(s, x) = 1 .. Len(s) + 1
           /\ \A i \in 1 .. Len(s) : Append(s, x)[i] = s[i]
           /\ Append(s, x)[Len(s) + 1] = x
OBVIOUS

LEMMA Popped ==
    ASSUME NEW S, NEW s \in Seq(S), s # <<>>
    PROVE  /\ Tail(s) \in Seq(S)
           /\ Len(Tail(s)) = Len(s) - 1 /\ Len(s) \in Nat \ {0}
           /\ DOMAIN s = 1 .. Len(s) /\ DOMAIN Tail(s) = 1 .. Len(s) - 1
           /\ \A i \in 1 .. Len(s) - 1 : Tail(s)[i] = s[i + 1]
           /\ Head(s) = s[1] /\ Head(s) \in S
OBVIOUS

-----------------------------------------------------------------------------
LEMMA InitWalk == Init => Walk
<1> SUFFICES ASSUME Init PROVE Walk
  OBVIOUS
<1> USE DEF Init
<1>1. TypeInv
  <2>1. \A S : <<>> \in Seq(S)
    BY EmptySeq
  <2>2. /\ namer \in [NameLists -> States] /\ road \in [Roads -> States]
        /\ reader \in [Roads \X Readers -> States]
    BY DEF States
  <2> QED  BY <2>1, <2>2 DEF TypeInv
<1>2. Ended
  BY DEF Ended
<1>3. Once
  BY DEF Once
<1>4. \A f \in Files : /\ Ahead(f) <=> f \in Named
                       /\ ~AtNamer(f) /\ ~AtReader(f) /\ ~IsRead(f) /\ ~IsSkipped(f)
  BY DEF Ahead, AtNamer, AtReader, IsRead, IsSkipped, Named
<1> QED  BY <1>1, <1>2, <1>3, <1>4 DEF Walk, Apart, Somewhere

(* dir_thread lists a folder. *)
LEMMA PutDirWalk == ASSUME Walk, NEW d \in Dirs, PutDir(d) PROVE Walk'
<1> USE DEF Walk
<1>1. /\ dirList' \in Seq(Dirs) /\ Len(dirList) \in Nat
      /\ DOMAIN dirList = 1 .. Len(dirList) /\ DOMAIN dirList' = 1 .. Len(dirList) + 1
      /\ \A i \in 1 .. Len(dirList) : dirList'[i] = dirList[i]
      /\ dirList'[Len(dirList) + 1] = d
  BY Appended DEF PutDir, TypeInv
<1>2. /\ Roads' = Roads /\ Readers' = Readers /\ NameLists' = NameLists
      /\ \A r : ListOf(r)' = ListOf(r)
  BY Fixed DEF PutDir
<1>3. TypeInv'
  BY <1>1, <1>2, ToldNamers DEF PutDir, TypeInv, roads
<1>4. Ended'
  BY <1>2, ToldNamers DEF PutDir, Ended, roads, TypeInv
<1>5. Once'
  BY <1>1, <1>2 DEF PutDir, Once, roads
<1>6. ASSUME NEW f \in Files
      PROVE  /\ Ahead(f)' <=> Ahead(f)
             /\ AtNamer(f)' <=> AtNamer(f)
             /\ AtReader(f)' <=> AtReader(f)
             /\ IsRead(f)' <=> IsRead(f)
             /\ IsSkipped(f)' <=> IsSkipped(f)
  <2>1. Ahead(f)' <=> Ahead(f)
    BY <1>1 DEF PutDir, Ahead
  <2> QED  BY <2>1, <1>2 DEF PutDir, AtNamer, AtReader, IsRead, IsSkipped, roads
<1> QED  BY <1>3, <1>4, <1>5, <1>6 DEF Apart, Somewhere, Named

LEMMA EndDirsWalk == ASSUME Walk, EndDirs PROVE Walk'
<1> USE DEF Walk
<1>2. /\ Roads' = Roads /\ Readers' = Readers /\ NameLists' = NameLists
      /\ \A r : ListOf(r)' = ListOf(r)
  BY Fixed DEF EndDirs
<1>3. TypeInv'
  BY <1>2, ToldNamers DEF EndDirs, TypeInv, roads
<1>4. Ended'
  BY <1>2, ToldNamers DEF EndDirs, Ended, roads, TypeInv
<1>5. Once'
  BY <1>2 DEF EndDirs, Once, roads
<1>6. ASSUME NEW f \in Files
      PROVE  /\ Ahead(f)' <=> Ahead(f)
             /\ AtNamer(f)' <=> AtNamer(f)
             /\ AtReader(f)' <=> AtReader(f)
             /\ IsRead(f)' <=> IsRead(f)
             /\ IsSkipped(f)' <=> IsSkipped(f)
  BY <1>2 DEF EndDirs, Ahead, AtNamer, AtReader, IsRead, IsSkipped, roads
<1> QED  BY <1>3, <1>4, <1>5, <1>6 DEF Apart, Somewhere, Named

(* name_thread takes a folder. *)
LEMMA TakeDirWalk == ASSUME Walk, NEW l \in NameLists, TakeDir(l) PROVE Walk'
<1> USE DEF Walk
<1>1. /\ dirList' \in Seq(Dirs) /\ Len(dirList) \in Nat \ {0}
      /\ DOMAIN dirList = 1 .. Len(dirList) /\ DOMAIN dirList' = 1 .. Len(dirList) - 1
      /\ \A i \in 1 .. Len(dirList) - 1 : dirList'[i] = dirList[i + 1]
      /\ Head(dirList) = dirList[1] /\ Head(dirList) \in Dirs
  BY Popped DEF TakeDir, TypeInv
<1>2. /\ Roads' = Roads /\ Readers' = Readers /\ NameLists' = NameLists
      /\ \A r : ListOf(r)' = ListOf(r)
  BY Fixed DEF TakeDir
<1> DEFINE d == Head(dirList)
<1>3. /\ FilesOf[d] \subseteq Files /\ todo[l] = {}
      /\ todo' = [m \in NameLists |-> IF m = l THEN FilesOf[d] ELSE todo[m]]
  BY <1>1, FolderAssumption DEF TakeDir, TypeInv, ListIsDone
<1>4. TypeInv'
  <2>1. todo' \in [NameLists -> SUBSET Files]
    BY <1>3 DEF TypeInv
  <2> HIDE DEF d
  <2> QED  BY <1>1, <1>2, <2>1 DEF TakeDir, TypeInv, roads
<1>5. Ended'
  BY <1>2, <1>3 DEF TakeDir, Ended, roads, TypeInv, ListIsDone
<1>6. ASSUME NEW f \in Files
      PROVE  /\ Ahead(f) <=> Ahead(f)' \/ f \in FilesOf[d]
             /\ f \in FilesOf[d] => ~Ahead(f)'
             /\ AtNamer(f)' <=> AtNamer(f) \/ f \in FilesOf[d]
             /\ AtReader(f)' <=> AtReader(f)
             /\ IsRead(f)' <=> IsRead(f)
             /\ IsSkipped(f)' <=> IsSkipped(f)
  <2>1. Ahead(f) <=> Ahead(f)' \/ f \in FilesOf[d]
    <3>1. \A e : (\E i \in DOMAIN dirList : dirList[i] = e)
                    <=> e = d \/ \E i \in DOMAIN dirList' : dirList'[i] = e
      <4>1. ASSUME NEW i \in DOMAIN dirList, i # 1
            PROVE  i - 1 \in DOMAIN dirList' /\ dirList'[i - 1] = dirList[i]
        BY <1>1, <4>1
      <4>2. ASSUME NEW i \in DOMAIN dirList'
            PROVE  i + 1 \in DOMAIN dirList /\ dirList'[i] = dirList[i + 1]
        BY <1>1, <4>2
      <4>3. 1 \in DOMAIN dirList
        BY <1>1
      <4> QED  BY <1>1, <4>1, <4>2, <4>3
    <3> QED  BY <3>1, <1>1 DEF Ahead, TakeDir
  <2>2. ASSUME f \in FilesOf[d] PROVE ~Ahead(f)'
    <3>1. \A e \in Dirs : f \in FilesOf[e] => e = d
      BY <2>2, <1>1, FolderAssumption
    <3>2. d \notin walk /\ \A i \in DOMAIN dirList' : dirList'[i] # d
      BY <1>1 DEF Once
    <3> QED  BY <3>1, <3>2 DEF Ahead, TakeDir
  <2>3. AtNamer(f)' <=> AtNamer(f) \/ f \in FilesOf[d]
    BY <1>2, <1>3 DEF AtNamer
  <2>4. AtReader(f)' <=> AtReader(f)
    BY <1>2 DEF AtReader, TakeDir
  <2> QED  BY <2>1, <2>2, <2>3, <2>4 DEF TakeDir, IsRead, IsSkipped, roads
<1>7. Once'
  <2>1. \A i, j \in DOMAIN dirList' : dirList'[i] = dirList'[j] => i = j
    BY <1>1 DEF Once
  <2>2. \A i \in DOMAIN dirList' : dirList'[i] \notin walk'
    BY <1>1 DEF Once, TakeDir
  <2>3. \A m \in NameLists : m # l => todo[m] \cap FilesOf[d] = {}
    BY <1>3, <1>6 DEF Apart, AtNamer, TypeInv
  <2>4. \A m, n \in NameLists' : m # n => todo'[m] \cap todo'[n] = {}
    BY <1>2, <1>3, <2>3 DEF Once
  <2> QED  BY <2>1, <2>2, <2>4, <1>2 DEF Once, TakeDir, roads
<1>8. Apart' /\ Somewhere'
  BY <1>6 DEF Apart, Somewhere, Named
<1> QED  BY <1>4, <1>5, <1>7, <1>8

LEMMA WaitDirWalk == ASSUME Walk, NEW l \in NameLists, WaitDir(l) PROVE Walk'
<1> USE DEF Walk
<1>2. /\ Roads' = Roads /\ Readers' = Readers /\ NameLists' = NameLists
      /\ \A r : ListOf(r)' = ListOf(r)
  BY Fixed DEF WaitDir
<1>3. TypeInv'
  BY <1>2 DEF WaitDir, TypeInv, roads, dirs, States
<1>4. Ended'
  BY <1>2 DEF WaitDir, Ended, roads, dirs, TypeInv
<1>5. Once'
  BY <1>2 DEF WaitDir, Once, roads, dirs
<1>6. ASSUME NEW f \in Files
      PROVE  /\ Ahead(f)' <=> Ahead(f)
             /\ AtNamer(f)' <=> AtNamer(f)
             /\ AtReader(f)' <=> AtReader(f)
             /\ IsRead(f)' <=> IsRead(f)
             /\ IsSkipped(f)' <=> IsSkipped(f)
  BY <1>2 DEF WaitDir, Ahead, AtNamer, AtReader, IsRead, IsSkipped, roads, dirs
<1> QED  BY <1>3, <1>4, <1>5, <1>6 DEF Apart, Somewhere, Named

LEMMA EndNamesWalk == ASSUME Walk, NEW l \in NameLists, EndNames(l) PROVE Walk'
<1> USE DEF Walk
<1>2. /\ Roads' = Roads /\ Readers' = Readers /\ NameLists' = NameLists
      /\ \A r : ListOf(r)' = ListOf(r)
  BY Fixed DEF EndNames
<1>3. TypeInv'
  BY <1>2, ToldRoads DEF EndNames, TypeInv, dirs, States
<1>4. Ended'
  <2>1. \A r \in Roads : ListOf(r) \in NameLists
    BY ListsOfRoads
  <2>2. \A r \in Roads, i \in Readers : <<r, i>> \in Roads \X Readers
    OBVIOUS
  <2> QED  BY <1>2, <2>1, <2>2, ToldRoads DEF EndNames, Ended, dirs, TypeInv, ListIsDone
<1>5. Once'
  BY <1>2 DEF EndNames, Once, dirs
<1>6. ASSUME NEW f \in Files
      PROVE  /\ Ahead(f)' <=> Ahead(f)
             /\ AtNamer(f)' <=> AtNamer(f)
             /\ AtReader(f)' <=> AtReader(f)
             /\ IsRead(f)' <=> IsRead(f)
             /\ IsSkipped(f)' <=> IsSkipped(f)
  BY <1>2 DEF EndNames, Ahead, AtNamer, AtReader, IsRead, IsSkipped, dirs
<1> QED  BY <1>3, <1>4, <1>5, <1>6 DEF Apart, Somewhere, Named

(* name_thread lists a file. *)
LEMMA PutNameWalk ==
    ASSUME Walk, NEW l \in NameLists, NEW g \in Files, PutName(l, g) PROVE Walk'
<1> USE DEF Walk
<1>1. PICK end \in BOOLEAN :
         nameList' = [nameList EXCEPT ![l] = Append(@, [file |-> g, end_of_dir |-> end])]
  BY DEF PutName
<1> DEFINE e == [file |-> g, end_of_dir |-> end]
           n == Len(nameList[l])
<1>2. /\ nameList'[l] \in Seq(Entries) /\ n \in Nat
      /\ DOMAIN nameList[l] = 1 .. n /\ DOMAIN nameList'[l] = 1 .. n + 1
      /\ \A i \in 1 .. n : nameList'[l][i] = nameList[l][i]
      /\ nameList'[l][n + 1].file = g
  <2>1. e \in Entries /\ nameList[l] \in Seq(Entries) /\ e.file = g
    BY DEF Entries, TypeInv
  <2>2. nameList'[l] = Append(nameList[l], e)
    BY <1>1 DEF TypeInv
  <2> HIDE DEF e
  <2> QED  BY <2>1, <2>2, Appended
<1>3. /\ nameList' \in [NameLists -> Seq(Entries)]
      /\ \A m \in NameLists : m # l => nameList'[m] = nameList[m]
  BY <1>1, <1>2 DEF TypeInv
<1>4. /\ Roads' = Roads /\ Readers' = Readers /\ NameLists' = NameLists
      /\ \A r : ListOf(r)' = ListOf(r)
  BY Fixed DEF PutName
<1>5. /\ g \in todo[l] /\ todo' \in [NameLists -> SUBSET Files]
      /\ todo' = [m \in NameLists |-> IF m = l THEN todo[l] \ {g} ELSE todo[m]]
  BY DEF PutName, TypeInv
<1> HIDE DEF e, n
<1>6. TypeInv'
  BY <1>3, <1>4, <1>5, ToldRoads DEF PutName, TypeInv, dirs
<1>7. Ended'
  <2>1. \A r \in Roads : ListOf(r) \in NameLists
    BY ListsOfRoads
  <2>2. \A r \in Roads, i \in Readers : <<r, i>> \in Roads \X Readers
    OBVIOUS
  <2>3. ~nameEnding[l]
    BY <1>5 DEF Ended
  <2> QED  BY <1>3, <1>4, <1>5, <2>1, <2>2, <2>3, ToldRoads DEF PutName, Ended, dirs, TypeInv
<1>8. ASSUME NEW f \in Files
      PROVE  /\ Ahead(f)' <=> Ahead(f)
             /\ AtNamer(f)' <=> AtNamer(f) /\ f # g
             /\ AtReader(f)' <=> AtReader(f) \/ f = g
             /\ IsRead(f)' <=> IsRead(f)
             /\ IsSkipped(f)' <=> IsSkipped(f)
  <2>1. Ahead(f)' <=> Ahead(f)
    BY DEF PutName, Ahead, dirs
  <2>2. AtNamer(f)' <=> AtNamer(f) /\ f # g
    BY <1>4, <1>5 DEF AtNamer, Once
  <2>3. AtReader(f)' <=> AtReader(f) \/ f = g
    <3>1. n + 1 \in DOMAIN nameList'[l] /\ DOMAIN nameList[l] \subseteq DOMAIN nameList'[l]
          /\ \A i \in DOMAIN nameList'[l] : i \in DOMAIN nameList[l] \/ i = n + 1
      BY <1>2
    <3>2. AtReader(f) \/ f = g => AtReader(f)'
      BY <3>1, <1>2, <1>3, <1>4 DEF AtReader
    <3>3. AtReader(f)' => AtReader(f) \/ f = g
      BY <3>1, <1>2, <1>3, <1>4 DEF AtReader
    <3> QED  BY <3>2, <3>3
  <2> QED  BY <2>1, <2>2, <2>3 DEF PutName, IsRead, IsSkipped
<1>9. Once'
  <2>1. AtNamer(g) /\ ~AtReader(g)
    BY <1>5 DEF AtNamer, Apart
  <2>2. \A m \in NameLists : \A i \in DOMAIN nameList[m] : nameList[m][i].file # g
    BY <2>1 DEF AtReader
  <2>3. ASSUME NEW k \in NameLists, NEW m \in NameLists,
               NEW i \in DOMAIN nameList'[k], NEW j \in DOMAIN nameList'[m],
               nameList'[k][i].file = nameList'[m][j].file
        PROVE  k = m /\ i = j
    <3> DEFINE New(p, o) == p = l /\ o = n + 1
    <3>1. ASSUME NEW p \in NameLists, NEW o \in DOMAIN nameList'[p], ~New(p, o)
          PROVE  o \in DOMAIN nameList[p] /\ nameList'[p][o] = nameList[p][o]
      <4>1. CASE p = l
        <5>1. o \in 1 .. n + 1 /\ o # n + 1
          BY <1>2, <3>1, <4>1
        <5>2. o \in 1 .. n
          BY <1>2, <5>1
        <5> QED  BY <1>2, <4>1, <5>2
      <4>2. CASE p # l
        BY <1>3, <3>1, <4>2
      <4> QED  BY <4>1, <4>2
    <3>2. CASE ~New(k, i) /\ ~New(m, j)
      BY <3>1, <3>2, <2>3 DEF Once
    <3>3. CASE New(k, i) /\ ~New(m, j)
      BY <3>1, <3>3, <2>2, <2>3, <1>2
    <3>4. CASE ~New(k, i) /\ New(m, j)
      BY <3>1, <3>4, <2>2, <2>3, <1>2
    <3>5. CASE New(k, i) /\ New(m, j)
      BY <3>5
    <3> QED  BY <3>2, <3>3, <3>4, <3>5
  <2>4. \A k, m \in NameLists : k # m => todo'[k] \cap todo'[m] = {}
    BY <1>5 DEF Once
  <2>5. \A k, m \in NameLists : \A i \in DOMAIN nameList'[k], j \in DOMAIN nameList'[m] :
           nameList'[k][i].file = nameList'[m][j].file => k = m /\ i = j
    BY <2>3
  <2>6. dirList' = dirList /\ walk' = walk /\ batchOf' = batchOf /\ NameLists' = NameLists
    BY <1>4 DEF PutName, dirs
  <2> QED  BY <2>4, <2>5, <2>6 DEF Once
<1>10. AtNamer(g)
  BY <1>5 DEF AtNamer
<1>11. Apart' /\ Somewhere'
  BY <1>8, <1>10 DEF Apart, Somewhere, Named
<1> QED  BY <1>6, <1>7, <1>9, <1>11

-----------------------------------------------------------------------------
(* A road's steps move no file. *)
LEMMA FilesStay ==
    ASSUME Walk, UNCHANGED <<config, dirs, names, batchOf, skipped>>
    PROVE  Once' /\ Apart' /\ Somewhere'
<1> USE DEF Walk
<1>1. /\ Roads' = Roads /\ Readers' = Readers /\ NameLists' = NameLists
      /\ dirList' = dirList /\ walk' = walk /\ batchOf' = batchOf /\ skipped' = skipped
      /\ todo' = todo /\ nameList' = nameList
  BY Fixed DEF dirs, names
<1>2. Once'
  BY <1>1 DEF Once
<1>3. ASSUME NEW f \in Files
      PROVE  /\ Ahead(f)' <=> Ahead(f)
             /\ AtNamer(f)' <=> AtNamer(f)
             /\ AtReader(f)' <=> AtReader(f)
             /\ IsRead(f)' <=> IsRead(f)
             /\ IsSkipped(f)' <=> IsSkipped(f)
  BY <1>1 DEF Ahead, AtNamer, AtReader, IsRead, IsSkipped
<1>4. Apart' /\ Somewhere'
  BY <1>3 DEF Apart, Somewhere, Named
<1> QED  BY <1>2, <1>4

LEMMA BeginBatchWalk == ASSUME Walk, NEW r \in Roads, BeginBatch(r) PROVE Walk'
<1> USE DEF Walk
<1>1. /\ Roads' = Roads /\ Readers' = Readers /\ NameLists' = NameLists
      /\ \A q : ListOf(q)' = ListOf(q)
  BY Fixed DEF BeginBatch
<1>2. batches + 1 \in Nat
  BY DEF TypeInv
<1>3. TypeInv'
  BY <1>1, <1>2 DEF BeginBatch, TypeInv, dirs, names, States
<1>4. Ended'
  BY <1>1 DEF BeginBatch, Ended, dirs, names, TypeInv
<1> QED  BY <1>3, <1>4, FilesStay DEF BeginBatch

LEMMA EndBatchWalk == ASSUME Walk, NEW r \in Roads, EndBatch(r) PROVE Walk'
<1> USE DEF Walk
<1>1. /\ Roads' = Roads /\ Readers' = Readers /\ NameLists' = NameLists
      /\ \A q : ListOf(q)' = ListOf(q)
  BY Fixed DEF EndBatch
<1>3. TypeInv'
  BY <1>1 DEF EndBatch, TypeInv, dirs, names, States
<1>4. Ended'
  BY <1>1 DEF EndBatch, Ended, dirs, names, TypeInv
<1> QED  BY <1>3, <1>4, FilesStay DEF EndBatch

LEMMA IdleRoadWalk == ASSUME Walk, NEW r \in Roads, IdleRoad(r) PROVE Walk'
<1> USE DEF Walk
<1>1. /\ Roads' = Roads /\ Readers' = Readers /\ NameLists' = NameLists
      /\ \A q : ListOf(q)' = ListOf(q)
  BY Fixed DEF IdleRoad
<1>2. PICK s \in {"waits", "ended"} : Idle(ListOf(r), s) /\ road' = [road EXCEPT ![r] = s]
  BY DEF IdleRoad
<1>3. TypeInv'
  BY <1>1, <1>2 DEF IdleRoad, TypeInv, dirs, names, States
<1>4. Ended'
  BY <1>1, <1>2 DEF IdleRoad, Idle, Ended, dirs, names, TypeInv
<1> QED  BY <1>3, <1>4, FilesStay DEF IdleRoad

LEMMA IdleReaderWalk ==
    ASSUME Walk, NEW t \in Roads \X Readers, IdleReader(t) PROVE Walk'
<1> USE DEF Walk
<1>1. /\ Roads' = Roads /\ Readers' = Readers /\ NameLists' = NameLists
      /\ \A q : ListOf(q)' = ListOf(q)
  BY Fixed DEF IdleReader
<1>2. PICK s \in {"waits", "ended"} : reader' = [reader EXCEPT ![t] = s]
  BY DEF IdleReader
<1>3. TypeInv'
  BY <1>1, <1>2 DEF IdleReader, TypeInv, dirs, names, States
<1>4. Ended'
  <2>1. \A r \in Roads, i \in Readers :
           reader[<<r, i>>] = "ended" => <<r, i>> # t /\ reader'[<<r, i>>] = "ended"
    BY <1>2 DEF IdleReader, TypeInv
  <2> QED  BY <1>1, <2>1 DEF IdleReader, Ended, dirs, names
<1> QED  BY <1>3, <1>4, FilesStay DEF IdleReader

-----------------------------------------------------------------------------
(* A reader takes the name at the head of its list, to read the file or to *)
(* leave it out.                                                           *)
LEMMA NameTaken ==
    ASSUME Walk, NEW l \in NameLists, nameList[l] # <<>>, UNCHANGED config,
           nameList' = [nameList EXCEPT ![l] = Tail(@)]
    PROVE  /\ nameList' \in [NameLists -> Seq(Entries)]
           /\ Head(nameList[l]) \in Entries
           /\ AtReader(Head(nameList[l]).file)
           /\ \A f \in Files : AtReader(f)' <=> AtReader(f) /\ f # Head(nameList[l]).file
           /\ \A k, m \in NameLists : \A i \in DOMAIN nameList'[k], j \in DOMAIN nameList'[m] :
                 nameList'[k][i].file = nameList'[m][j].file => k = m /\ i = j
           /\ \A m \in NameLists : nameList[m] = <<>> => nameList'[m] = <<>>
<1> USE DEF Walk
<1> DEFINE n == Len(nameList[l])
           g == Head(nameList[l]).file
<1>1. /\ nameList[l] \in Seq(Entries) /\ nameList'[l] = Tail(nameList[l])
      /\ \A m \in NameLists : m # l => nameList'[m] = nameList[m]
  BY DEF TypeInv
<1>2. /\ nameList'[l] \in Seq(Entries) /\ n \in Nat \ {0}
      /\ DOMAIN nameList[l] = 1 .. n /\ DOMAIN nameList'[l] = 1 .. n - 1
      /\ \A i \in 1 .. n - 1 : nameList'[l][i] = nameList[l][i + 1]
      /\ Head(nameList[l]) = nameList[l][1] /\ Head(nameList[l]) \in Entries
  <2> DEFINE s == nameList[l]
  <2>1. s \in Seq(Entries) /\ s # <<>> /\ nameList'[l] = Tail(s)
    BY <1>1
  <2> HIDE DEF s
  <2>2. /\ Tail(s) \in Seq(Entries) /\ Len(s) \in Nat \ {0}
        /\ DOMAIN s = 1 .. Len(s) /\ DOMAIN Tail(s) = 1 .. Len(s) - 1
        /\ \A i \in 1 .. Len(s) - 1 : Tail(s)[i] = s[i + 1]
        /\ Head(s) = s[1] /\ Head(s) \in Entries
    BY <2>1, Popped
  <2> QED  BY <2>1, <2>2 DEF s
<1>3. nameList' \in [NameLists -> Seq(Entries)]
  BY <1>1, <1>2 DEF TypeInv
<1>4. 1 \in DOMAIN nameList[l] /\ nameList[l][1].file = g
  BY <1>2
<1>5. AtReader(g)
  BY <1>4 DEF AtReader
<1> HIDE DEF n
<1> DEFINE Old(m, i) == IF m = l THEN i + 1 ELSE i
<1>6. ASSUME NEW m \in NameLists, NEW i \in DOMAIN nameList'[m]
      PROVE  /\ Old(m, i) \in DOMAIN nameList[m]
             /\ nameList'[m][i] = nameList[m][Old(m, i)]
             /\ m = l => i + 1 # 1
  <2>1. CASE m = l
    BY <2>1, <1>2
  <2>2. CASE m # l
    BY <2>2, <1>1
  <2> QED  BY <2>1, <2>2
<1>7. ASSUME NEW m \in NameLists, NEW i \in DOMAIN nameList[m], m # l \/ i # 1
      PROVE  \E j \in DOMAIN nameList'[m] : nameList'[m][j] = nameList[m][i]
  <2>1. CASE m = l
    <3>1. i - 1 \in DOMAIN nameList'[l] /\ nameList'[l][i - 1] = nameList[l][i]
      BY <2>1, <1>2, <1>7
    <3> QED  BY <2>1, <3>1
  <2>2. CASE m # l
    BY <2>2, <1>1
  <2> QED  BY <2>1, <2>2
<1>8. NameLists' = NameLists
  BY Fixed
<1>9. ASSUME NEW f \in Files PROVE AtReader(f)' <=> AtReader(f) /\ f # g
  <2>1. ASSUME AtReader(f)' PROVE AtReader(f) /\ f # g
    <3>0. PICK m \in NameLists : \E i \in DOMAIN nameList'[m] : nameList'[m][i].file = f
      BY <2>1, <1>8 DEF AtReader
    <3>1. PICK i \in DOMAIN nameList'[m] : nameList'[m][i].file = f
      BY <3>0
    <3>2. Old(m, i) \in DOMAIN nameList[m] /\ nameList[m][Old(m, i)].file = f
      BY <3>1, <1>6
    <3>3. ~(m = l /\ Old(m, i) = 1)
      BY <3>1, <1>6
    <3> HIDE DEF Old
    <3>4. f # g
      BY <3>2, <3>3, <1>4 DEF Once
    <3> QED  BY <3>2, <3>4 DEF AtReader
  <2>2. ASSUME AtReader(f), f # g PROVE AtReader(f)'
    <3>0. PICK m \in NameLists : \E i \in DOMAIN nameList[m] : nameList[m][i].file = f
      BY <2>2 DEF AtReader
    <3>1. PICK i \in DOMAIN nameList[m] : nameList[m][i].file = f
      BY <3>0
    <3>2. m # l \/ i # 1
      BY <3>1, <1>4, <2>2
    <3> QED  BY <3>1, <3>2, <1>7, <1>8 DEF AtReader
  <2> QED  BY <2>1, <2>2
<1>10. ASSUME NEW k \in NameLists, NEW m \in NameLists,
              NEW i \in DOMAIN nameList'[k], NEW j \in DOMAIN nameList'[m],
              nameList'[k][i].file = nameList'[m][j].file
       PROVE  k = m /\ i = j
  <2>1. /\ Old(k, i) \in DOMAIN nameList[k] /\ Old(m, j) \in DOMAIN nameList[m]
        /\ nameList[k][Old(k, i)].file = nameList[m][Old(m, j)].file
    BY <1>6, <1>10
  <2>2. k = m /\ Old(k, i) = Old(m, j)
    <3> HIDE DEF Old
    <3> QED  BY <2>1 DEF Once
  <2>3. k = l => i \in Int /\ j \in Int
    BY <1>2, <2>2
  <2> QED  BY <2>2, <2>3
<1>11. \A m \in NameLists : nameList[m] = <<>> => nameList'[m] = <<>>
  BY <1>1
<1> QED  BY <1>2, <1>3, <1>5, <1>9, <1>10, <1>11

LEMMA SkipWalk == ASSUME Walk, NEW t \in Roads \X Readers, Skip(t) PROVE Walk'
<1> USE DEF Walk
<1> DEFINE l == ListOf(t[1])
           g == Head(nameList[l]).file
<1>1. l \in NameLists
  BY ListsOfRoads
<1>2. /\ Roads' = Roads /\ Readers' = Readers /\ NameLists' = NameLists
      /\ \A q : ListOf(q)' = ListOf(q)
  BY Fixed DEF Skip
<1>3. /\ nameList[l] # <<>> /\ nameList' = [nameList EXCEPT ![l] = Tail(@)]
      /\ skipped' = skipped \cup {g} /\ config' = config /\ UNCHANGED dirs
      /\ namer' = namer /\ todo' = todo /\ nameEnding' = nameEnding /\ road' = road
      /\ reader' = reader /\ raw' = raw /\ batch' = batch /\ batches' = batches
      /\ batchOf' = batchOf
  BY DEF Skip
<1> HIDE DEF l
<1>4. /\ nameList' \in [NameLists -> Seq(Entries)]
      /\ g \in Files /\ AtReader(g)
      /\ \A f \in Files : AtReader(f)' <=> AtReader(f) /\ f # g
      /\ \A k, m \in NameLists : \A i \in DOMAIN nameList'[k], j \in DOMAIN nameList'[m] :
            nameList'[k][i].file = nameList'[m][j].file => k = m /\ i = j
      /\ \A m \in NameLists : nameList[m] = <<>> => nameList'[m] = <<>>
  BY <1>1, <1>3, NameTaken DEF Entries
<1> HIDE DEF g
<1>5. TypeInv'
  BY <1>2, <1>3, <1>4 DEF TypeInv, dirs
<1>6. Ended'
  BY <1>2, <1>3, <1>4, ListsOfRoads DEF Ended, dirs
<1>7. Once'
  BY <1>2, <1>3, <1>4 DEF Once, dirs
<1>8. ASSUME NEW f \in Files
      PROVE  /\ Ahead(f)' <=> Ahead(f)
             /\ AtNamer(f)' <=> AtNamer(f)
             /\ IsRead(f)' <=> IsRead(f)
             /\ IsSkipped(f)' <=> IsSkipped(f) \/ f = g
  BY <1>2, <1>3 DEF Ahead, AtNamer, IsRead, IsSkipped, dirs
<1>9. Apart' /\ Somewhere'
  BY <1>4, <1>8 DEF Apart, Somewhere, Named
<1> QED  BY <1>5, <1>6, <1>7, <1>9

LEMMA ReadFileWalk == ASSUME Walk, NEW t \in Roads \X Readers, ReadFile(t) PROVE Walk'
<1> USE DEF Walk
<1> DEFINE l == ListOf(t[1])
           g == Head(nameList[l]).file
<1>1. l \in NameLists /\ t[1] \in Roads
  BY ListsOfRoads
<1>2. /\ Roads' = Roads /\ Readers' = Readers /\ NameLists' = NameLists
      /\ \A q : ListOf(q)' = ListOf(q)
  BY Fixed DEF ReadFile
<1>3. /\ nameList[l] # <<>> /\ nameList' = [nameList EXCEPT ![l] = Tail(@)]
      /\ batchOf' = [batchOf EXCEPT ![g] = @ \cup {batch[t[1]]}]
      /\ raw' = [raw EXCEPT ![t] = @ + Size[g]]
      /\ reader' = reader \/ reader' = [reader EXCEPT ![t] = "ended"]
      /\ config' = config /\ UNCHANGED dirs
      /\ namer' = namer /\ todo' = todo /\ nameEnding' = nameEnding /\ road' = road
      /\ batch' = batch /\ batches' = batches /\ skipped' = skipped
  BY DEF ReadFile
<1> HIDE DEF l
<1>4. /\ nameList' \in [NameLists -> Seq(Entries)]
      /\ g \in Files /\ AtReader(g)
      /\ \A f \in Files : AtReader(f)' <=> AtReader(f) /\ f # g
      /\ \A k, m \in NameLists : \A i \in DOMAIN nameList'[k], j \in DOMAIN nameList'[m] :
            nameList'[k][i].file = nameList'[m][j].file => k = m /\ i = j
      /\ \A m \in NameLists : nameList[m] = <<>> => nameList'[m] = <<>>
  BY <1>1, <1>3, NameTaken DEF Entries
<1> HIDE DEF g
<1>5. TypeInv'
  <2>1. raw[t] + Size[g] \in Nat
    BY <1>4, FolderAssumption DEF TypeInv
  <2>2. raw' \in [Roads \X Readers -> Nat]
    BY <2>1, <1>3 DEF TypeInv
  <2>3. batchOf' \in [Files -> SUBSET Nat]
    <3>1. batchOf[g] \cup {batch[t[1]]} \in SUBSET Nat
      BY <1>1, <1>4 DEF TypeInv
    <3> QED  BY <3>1, <1>3 DEF TypeInv
  <2>4. reader' \in [Roads \X Readers -> States]
    BY <1>3 DEF TypeInv, States
  <2> QED  BY <1>2, <1>3, <1>4, <2>2, <2>3, <2>4 DEF TypeInv, dirs
<1>6. Ended'
  <2>1. \A r \in Roads, i \in Readers :
           reader[<<r, i>>] = "ended" => reader'[<<r, i>>] = "ended"
    BY <1>3 DEF TypeInv
  <2> QED  BY <1>2, <1>3, <1>4, <2>1, ListsOfRoads DEF Ended, dirs
<1>7. ASSUME NEW f \in Files
      PROVE  batchOf'[f] = IF f = g THEN {batch[t[1]]} ELSE batchOf[f]
  <2>1. batchOf[g] = {}
    BY <1>4 DEF Apart, IsRead
  <2> QED  BY <1>3, <1>4, <2>1 DEF TypeInv
<1>8. Once'
  <2>1. \A f \in Files : \A b, c \in batchOf'[f] : b = c
    BY <1>7 DEF Once
  <2> QED  BY <1>2, <1>3, <1>4, <2>1 DEF Once, dirs
<1>9. ASSUME NEW f \in Files
      PROVE  /\ Ahead(f)' <=> Ahead(f)
             /\ AtNamer(f)' <=> AtNamer(f)
             /\ IsRead(f)' <=> IsRead(f) \/ f = g
             /\ IsSkipped(f)' <=> IsSkipped(f)
  <2>1. IsRead(f)' <=> IsRead(f) \/ f = g
    BY <1>7 DEF IsRead
  <2> QED  BY <1>2, <1>3, <2>1 DEF Ahead, AtNamer, IsSkipped, dirs
<1>10. Apart' /\ Somewhere'
  BY <1>4, <1>9 DEF Apart, Somewhere, Named
<1> QED  BY <1>5, <1>6, <1>8, <1>10

LEMMA NextWalk == ASSUME Walk, [Next]_vars PROVE Walk'
<1>1. CASE UNCHANGED vars
  <2>1. Roads' = Roads /\ Readers' = Readers /\ NameLists' = NameLists
        /\ \A r : ListOf(r)' = ListOf(r)
    BY <1>1, Fixed DEF vars
  <2>2. TypeInv' /\ Ended'
    BY <1>1, <2>1 DEF Walk, TypeInv, Ended, vars, dirs, names, roads
  <2> QED  BY <1>1, <2>2, FilesStay DEF Walk, vars, roads
<1>2. CASE Walker
  BY <1>2, PutDirWalk, EndDirsWalk DEF Walker
<1>3. CASE \E l \in NameLists : Namer(l)
  BY <1>3, TakeDirWalk, WaitDirWalk, EndNamesWalk, PutNameWalk DEF Namer
<1>4. CASE \E r \in Roads : Road(r)
  BY <1>4, BeginBatchWalk, EndBatchWalk, IdleRoadWalk DEF Road
<1>5. CASE \E t \in Roads \X Readers : Reader(t)
  BY <1>5, IdleReaderWalk, SkipWalk, ReadFileWalk DEF Reader
<1> QED  BY <1>1, <1>2, <1>3, <1>4, <1>5 DEF Next

(* Types, who has ended and where each file is, in every reachable state.  *)
THEOREM Walked == Spec => []Walk
BY InitWalk, NextWalk, PTL DEF Spec

(* A set all of whose members are the same has one at most. *)
LEMMA AtMostOne ==
    ASSUME NEW S, \A x, y \in S : x = y
    PROVE  Cardinality(S) <= 1
<1>1. CASE S = {}
  BY <1>1, FS_EmptySet
<1>2. CASE S # {}
  <2>1. PICK x : x \in S
    BY <1>2
  <2>2. S = {x}
    BY <2>1
  <2> QED  BY <2>2, FS_Singleton
<1> QED  BY <1>1, <1>2

LEMMA WalkGivesEachOnce == Walk => EachOnce
<1> SUFFICES ASSUME Walk PROVE EachOnce
  OBVIOUS
<1> USE DEF Walk
<1> DEFINE read == {f \in Files : batchOf[f] # {}}
           place == <<Unlisted, Listed, read, skipped>>
<1>1. ASSUME NEW f \in Files
      PROVE  /\ f \in Unlisted <=> Ahead(f) \/ AtNamer(f)
             /\ f \in Listed <=> AtReader(f)
             /\ f \in read <=> IsRead(f)
             /\ f \in skipped <=> IsSkipped(f)
  <2>1. f \in Unlisted <=> Ahead(f) \/ AtNamer(f)
    BY DEF Unlisted, Ahead, AtNamer, Range, TypeInv
  <2>2. f \in Listed <=> AtReader(f)
    BY DEF Listed, AtReader, Range
  <2> QED  BY <2>1, <2>2 DEF IsRead, IsSkipped
<1>2. Unlisted \subseteq Files /\ Listed \subseteq Files /\ skipped \subseteq Files
      /\ Named \subseteq Files
  <2>1. \A d \in Dirs : FilesOf[d] \subseteq Files
    BY FolderAssumption
  <2>2. \A i \in DOMAIN dirList : dirList[i] \in Dirs
    BY ElementOfSeq DEF TypeInv
  <2>3. ASSUME NEW l \in NameLists, NEW i \in DOMAIN nameList[l]
        PROVE  nameList[l][i].file \in Files
    <3>1. nameList[l] \in Seq(Entries)
      BY DEF TypeInv
    <3>2. nameList[l][i] \in Entries
      BY <3>1
    <3> QED  BY <3>2 DEF Entries
  <2>4. Unlisted \subseteq Files
    BY <2>1, <2>2 DEF Unlisted, Range, TypeInv
  <2>5. Listed \subseteq Files
    BY <2>3 DEF Listed, Range
  <2> QED  BY <2>1, <2>4, <2>5 DEF TypeInv, Named
<1> HIDE DEF read
<1>3. /\ Unlisted \cap Listed = {} /\ Unlisted \cap read = {} /\ Unlisted \cap skipped = {}
      /\ Listed \cap read = {} /\ Listed \cap skipped = {} /\ read \cap skipped = {}
  BY <1>1, <1>2 DEF Apart
<1>4. \A i, j \in 1 .. 4 : i # j => place[i] \cap place[j] = {}
  BY <1>3
<1>5. read \subseteq Files
  BY DEF read
<1>6. Unlisted \cup Listed \cup read \cup skipped = Named
  BY <1>1, <1>2, <1>5 DEF Somewhere
<1>7. \A f \in Files : Cardinality(batchOf[f]) <= 1
  BY AtMostOne DEF Once
<1>8. ASSUME \A r \in Roads : road[r] = "ended" PROVE Unlisted = {} /\ Listed = {}
  <2>1. \A l \in NameLists : nameEnding[l] /\ nameList[l] = <<>>
    BY <1>8, ListsOfRoads DEF Ended
  <2>2. NameLists # {}
    BY ListsOfRoads
  <2>3. walk = {} /\ dirList = <<>> /\ \A l \in NameLists : todo[l] = {}
    BY <2>1, <2>2 DEF Ended
  <2>4. \A f \in Files : ~Ahead(f) /\ ~AtNamer(f) /\ ~AtReader(f)
    BY <2>1, <2>3 DEF Ahead, AtNamer, AtReader
  <2> QED  BY <2>4, <1>1, <1>2
<1> QED  BY <1>4, <1>6, <1>7, <1>8 DEF EachOnce, read

(* However many roads and readers cut the folders into batches, in chaos   *)
(* or not: a file is read into one batch or skipped, once, and none is     *)
(* left behind when the roads have gone.                                   *)
THEOREM FilesReadOnce == Spec => []EachOnce
BY Walked, WalkGivesEachOnce, PTL

-----------------------------------------------------------------------------
(* Files of one folder. *)
Mate(f, g) == \E d \in Dirs : f \in FilesOf[d] /\ g \in FilesOf[d]

(* A file that is listed behind place i of a name list, or is still to be. *)
After(l, i, f) == \/ f \in todo[l]
                  \/ \E k \in DOMAIN nameList[l] : i < k /\ nameList[l][k].file = f
Pending(l, f) == After(l, 0, f)

(* A name_thread lists one folder after the other, and marks at most the   *)
(* last file of each.                                                      *)
InRow(l) == /\ \A f, g \in todo[l] : Mate(f, g)
            /\ \A i \in DOMAIN nameList[l] : \A f \in Files :
                  After(l, i, f) /\ Mate(nameList[l][i].file, f) =>
                     /\ ~nameList[l][i].end_of_dir
                     /\ i + 1 \in DOMAIN nameList[l] => Mate(nameList[l][i + 1].file, f)

(* No two name_threads list files of one folder. *)
OneNamer == \A l, m \in NameLists : \A f, g \in Files :
               Pending(l, f) /\ Pending(m, g) /\ Mate(f, g) => l = m

(* A folder that was read in part is at the head of the road's list and    *)
(* its batch is still being read.                                          *)
Parted == \A r \in Roads : \A f, g \in Files :
             Pending(r, f) /\ IsRead(g) /\ Mate(f, g) =>
                /\ batch[r] \in batchOf[g]
                /\ reader[<<r, 1>>] # "ended"
                /\ nameList[r] # <<>> => Mate(nameList[r][1].file, f)

SameBatch == \A f, g \in Files :
                Mate(f, g) => \A b \in batchOf[f], c \in batchOf[g] : b = c

ByFolder == config.variable /\ ~config.chaos

Cut == /\ \A l \in NameLists : InRow(l)
       /\ OneNamer
       /\ ByFolder => Parted /\ SameBatch

LEMMA Mates ==
    /\ \A f, g : Mate(f, g) => Mate(g, f)
    /\ \A f, g, h : Mate(f, g) /\ Mate(g, h) => Mate(f, h)
    /\ \A d \in Dirs : \A f, g : f \in FilesOf[d] /\ Mate(f, g) => g \in FilesOf[d]
BY FolderAssumption DEF Mate

LEMMA RoadsByFolder ==
    ASSUME TypeInv, ByFolder
    PROVE  NameLists = Roads /\ (\A r : ListOf(r) = r) /\ Readers = {1}
<1>1. config.readers = 1 /\ ~config.chaos
  BY FolderAssumption DEF TypeInv, ByFolder
<1>2. Readers = {1}
  BY <1>1 DEF Readers
<1> QED  BY <1>1, <1>2 DEF NameLists, ListOf

LEMMA InitCut == Init => Cut
<1> SUFFICES ASSUME Init PROVE Cut
  OBVIOUS
<1> USE DEF Init
<1>1. \A l \in NameLists : InRow(l) /\ \A f : ~Pending(l, f)
  BY DEF InRow, Pending, After
<1>2. \A f \in Files : batchOf[f] = {}
  OBVIOUS
<1>3. SameBatch
  BY <1>2 DEF SameBatch
<1>4. Parted
  BY <1>2 DEF Parted, IsRead
<1>5. OneNamer
  BY <1>1 DEF OneNamer
<1> QED  BY <1>1, <1>3, <1>4, <1>5 DEF Cut

(* A step that moves no file keeps the rows, and the parted folders if no  *)
(* reader leaves one behind.                                               *)
LEMMA CutStays ==
    ASSUME Walk, Cut, UNCHANGED <<config, todo, nameList, batchOf>>,
           ByFolder => \A r \in Roads : reader[<<r, 1>>] # "ended" =>
              /\ batch'[r] = batch[r]
              /\ reader'[<<r, 1>>] # "ended" \/ \A f \in Files : ~Pending(r, f)
    PROVE  Cut'
<1> USE DEF Cut
<1>1. /\ Roads' = Roads /\ NameLists' = NameLists /\ config' = config
      /\ todo' = todo /\ nameList' = nameList /\ batchOf' = batchOf
  BY Fixed
<1>2. \A l \in NameLists' : InRow(l)'
  BY <1>1 DEF InRow, After
<1>3. \A l, f : Pending(l, f)' <=> Pending(l, f)
  BY <1>1 DEF Pending, After
<1>4. OneNamer'
  BY <1>1, <1>3 DEF OneNamer
<1>5. ASSUME ByFolder PROVE Parted' /\ SameBatch'
  <2>1. SameBatch'
    BY <1>1, <1>5 DEF SameBatch
  <2>2. Parted'
    BY <1>1, <1>3, <1>5 DEF Parted, IsRead
  <2> QED  BY <2>1, <2>2
<1> QED  BY <1>1, <1>2, <1>4, <1>5 DEF ByFolder

LEMMA TakeDirCut == ASSUME Walk, Cut, NEW l \in NameLists, TakeDir(l) PROVE Cut'
<1> USE DEF Walk, Cut
<1> DEFINE d == Head(dirList)
<1>1. /\ d \in Dirs /\ todo[l] = {}
      /\ \E i \in DOMAIN dirList : dirList[i] = d
      /\ todo' = [m \in NameLists |-> IF m = l THEN FilesOf[d] ELSE todo[m]]
  <2>1. /\ Len(dirList) \in Nat \ {0} /\ DOMAIN dirList = 1 .. Len(dirList)
        /\ d = dirList[1] /\ d \in Dirs
    BY Popped DEF TakeDir, TypeInv
  <2>2. 1 \in DOMAIN dirList
    BY <2>1
  <2> QED  BY <2>1, <2>2 DEF TakeDir, TypeInv, ListIsDone
<1>2. /\ Roads' = Roads /\ NameLists' = NameLists /\ config' = config /\ reader' = reader
      /\ nameList' = nameList /\ batchOf' = batchOf /\ batch' = batch
  BY Fixed DEF TakeDir, roads
<1> HIDE DEF d
<1>3. ASSUME NEW f \in Files, f \in FilesOf[d]
      PROVE  ~AtNamer(f) /\ ~AtReader(f) /\ ~IsRead(f)
  BY <1>1, <1>3 DEF Apart, Ahead
<1>4. ASSUME NEW m \in NameLists, NEW i, NEW f \in Files
      PROVE  After(m, i, f)' <=> After(m, i, f) \/ (m = l /\ f \in FilesOf[d])
  <2> DEFINE Behind == \E k \in DOMAIN nameList[m] : i < k /\ nameList[m][k].file = f
  <2>1. Behind' <=> Behind
    BY <1>2
  <2>2. f \in todo'[m] <=> f \in todo[m] \/ (m = l /\ f \in FilesOf[d])
    <3>1. todo'[m] = IF m = l THEN FilesOf[d] ELSE todo[m]
      BY <1>1
    <3>2. CASE m = l
      BY <3>1, <3>2, <1>1
    <3>3. CASE m # l
      BY <3>1, <3>3
    <3> QED  BY <3>2, <3>3
  <2>3. (After(m, i, f) <=> f \in todo[m] \/ Behind)
        /\ (After(m, i, f)' <=> f \in todo'[m] \/ Behind')
    BY DEF After
  <2> HIDE DEF Behind
  <2> QED  BY <2>1, <2>2, <2>3
<1>5. ASSUME NEW m \in NameLists PROVE InRow(m)'
  <2>1. \A f, g \in todo'[m] : Mate(f, g)
    BY <1>1 DEF InRow, Mate
  <2>2. ASSUME NEW i \in DOMAIN nameList[m], NEW f \in Files,
               After(m, i, f)', Mate(nameList[m][i].file, f)
        PROVE  After(m, i, f)
    <3>1. nameList[m][i].file \in Files
      <4>1. nameList[m] \in Seq(Entries)
        BY DEF TypeInv
      <4>2. nameList[m][i] \in Entries
        BY <4>1
      <4> QED  BY <4>2 DEF Entries
    <3>2. AtReader(nameList[m][i].file)
      BY DEF AtReader
    <3>3. f \in FilesOf[d] => FALSE
      BY <1>1, <1>3, <2>2, <3>1, <3>2, Mates
    <3> QED  BY <1>4, <2>2, <3>3
  <2> QED  BY <1>2, <2>1, <2>2 DEF InRow
<1>6. ASSUME NEW m \in NameLists, NEW f \in Files, Pending(m, f)
      PROVE  f \notin FilesOf[d]
  <2>1. AtNamer(f) \/ AtReader(f)
    BY <1>6 DEF Pending, After, AtNamer, AtReader
  <2> QED  BY <2>1, <1>3
<1>7. \A m \in NameLists, f \in Files :
         Pending(m, f)' <=> Pending(m, f) \/ (m = l /\ f \in FilesOf[d])
  BY <1>4 DEF Pending
<1>8. OneNamer'
  BY <1>1, <1>2, <1>6, <1>7, Mates DEF OneNamer
<1>9. ASSUME ByFolder PROVE Parted' /\ SameBatch'
  <2>1. SameBatch'
    BY <1>2, <1>9 DEF SameBatch
  <2>2. \A g \in Files : IsRead(g)' <=> IsRead(g)
    BY <1>2 DEF IsRead
  <2>3. \A f, g \in Files : IsRead(g) /\ Mate(f, g) => f \notin FilesOf[d]
    BY <1>1, <1>3, Mates
  <2>4. NameLists = Roads
    BY <1>9, RoadsByFolder
  <2> QED  BY <1>2, <1>7, <1>9, <2>1, <2>2, <2>3, <2>4 DEF Parted
<1> QED  BY <1>2, <1>5, <1>8, <1>9 DEF ByFolder

LEMMA PutNameCut ==
    ASSUME Walk, Cut, NEW l \in NameLists, NEW g \in Files, PutName(l, g) PROVE Cut'
<1> USE DEF Walk, Cut
<1>1. PICK end \in BOOLEAN :
         /\ nameList' = [nameList EXCEPT ![l] = Append(@, [file |-> g, end_of_dir |-> end])]
         /\ end => todo[l] = {g}
  BY DEF PutName
<1> DEFINE e == [file |-> g, end_of_dir |-> end]
           n == Len(nameList[l])
<1>2. /\ n \in Nat
      /\ DOMAIN nameList[l] = 1 .. n /\ DOMAIN nameList'[l] = 1 .. n + 1
      /\ \A i \in 1 .. n : nameList'[l][i] = nameList[l][i]
      /\ nameList'[l][n + 1].file = g
      /\ nameList'[l][n + 1].end_of_dir => todo[l] = {g}
      /\ nameList[l] = <<>> => n = 0
  <2>1. e \in Entries /\ nameList[l] \in Seq(Entries) /\ e.file = g
        /\ (e.end_of_dir => todo[l] = {g})
    BY <1>1 DEF Entries, TypeInv
  <2>2. nameList'[l] = Append(nameList[l], e)
    BY <1>1 DEF TypeInv
  <2> HIDE DEF e
  <2> QED  BY <2>1, <2>2, Appended, LenProperties
<1>3. \A m \in NameLists : m # l => nameList'[m] = nameList[m]
  BY <1>1 DEF TypeInv
<1>4. /\ Roads' = Roads /\ NameLists' = NameLists /\ config' = config
      /\ batchOf' = batchOf /\ batch' = batch
  BY Fixed DEF PutName
<1>5. /\ g \in todo[l]
      /\ todo' = [m \in NameLists |-> IF m = l THEN todo[l] \ {g} ELSE todo[m]]
  BY DEF PutName, TypeInv
<1> HIDE DEF e, n
<1>6. ASSUME NEW m \in NameLists, NEW i \in Nat, m = l => i <= n, NEW f \in Files
      PROVE  After(m, i, f)' <=> After(m, i, f)
  <2>1. CASE m # l
    BY <1>3, <1>5, <2>1 DEF After
  <2>2. CASE m = l
    <3>1. ASSUME After(l, i, f)' PROVE After(l, i, f)
      <4>1. CASE f \in todo'[l]
        BY <4>1, <1>5 DEF After
      <4>2. CASE \E k \in DOMAIN nameList'[l] : i < k /\ nameList'[l][k].file = f
        <5>1. PICK k \in 1 .. n + 1 : i < k /\ nameList'[l][k].file = f
          BY <4>2, <1>2
        <5>2. CASE k = n + 1
          BY <5>1, <5>2, <1>2, <1>5 DEF After
        <5>3. CASE k # n + 1
          <6>1. k \in 1 .. n
            BY <5>1, <5>3, <1>2
          <6> QED  BY <5>1, <6>1, <1>2 DEF After
        <5> QED  BY <5>2, <5>3
      <4> QED  BY <3>1, <4>1, <4>2 DEF After
    <3>2. ASSUME After(l, i, f) PROVE After(l, i, f)'
      <4>1. CASE f \in todo[l] /\ f # g
        BY <4>1, <1>5 DEF After
      <4>2. CASE f = g
        <5>1. n + 1 \in DOMAIN nameList'[l] /\ i < n + 1
          BY <1>2, <1>6, <2>2
        <5> QED  BY <4>2, <5>1, <1>2 DEF After
      <4>3. CASE \E k \in DOMAIN nameList[l] : i < k /\ nameList[l][k].file = f
        <5>1. PICK k \in 1 .. n : i < k /\ nameList[l][k].file = f
          BY <4>3, <1>2
        <5>2. k \in DOMAIN nameList'[l] /\ nameList'[l][k].file = f
          BY <5>1, <1>2
        <5> QED  BY <5>1, <5>2 DEF After
      <4> QED  BY <3>2, <4>1, <4>2, <4>3 DEF After
    <3> QED  BY <2>2, <3>1, <3>2
  <2> QED  BY <2>1, <2>2
<1>7. ASSUME NEW f \in Files, NEW i, i = n + 1, After(l, i, f)' PROVE f \in todo[l] /\ f # g
  <2>1. ~\E k \in 1 .. n + 1 : i < k
    BY <1>2, <1>7
  <2> QED  BY <2>1, <1>2, <1>5, <1>7 DEF After
<1>8. InRow(l)'
  <2>1. \A f, h \in todo'[l] : Mate(f, h)
    BY <1>5 DEF InRow
  <2>2. ASSUME NEW i \in 1 .. n, NEW f \in Files,
               After(l, i, f)', Mate(nameList'[l][i].file, f)
        PROVE  /\ ~nameList'[l][i].end_of_dir
               /\ Mate(nameList'[l][i + 1].file, f)
    <3>1. After(l, i, f) /\ nameList'[l][i] = nameList[l][i] /\ i \in DOMAIN nameList[l]
      BY <1>2, <1>6, <2>2
    <3>2. /\ ~nameList[l][i].end_of_dir
          /\ i + 1 \in DOMAIN nameList[l] => Mate(nameList[l][i + 1].file, f)
      BY <2>2, <3>1 DEF InRow
    <3>3. CASE i # n
      <4>1. i + 1 \in 1 .. n
        BY <1>2, <3>3
      <4> QED  BY <1>2, <3>1, <3>2, <4>1
    <3>4. CASE i = n
      <4>1. f \in todo[l]
        <5>1. ~\E k \in 1 .. n : n < k
          BY <1>2
        <5> QED  BY <1>2, <3>1, <3>4, <5>1 DEF After
      <4>2. Mate(g, f)
        BY <1>5, <4>1 DEF InRow
      <4> QED  BY <1>2, <3>1, <3>2, <3>4, <4>2
    <3> QED  BY <3>3, <3>4
  <2>3. ASSUME NEW f \in Files, NEW i, i = n + 1, After(l, i, f)'
        PROVE  ~nameList'[l][i].end_of_dir /\ i + 1 \notin DOMAIN nameList'[l]
    BY <1>2, <1>7, <2>3
  <2>4. ASSUME NEW i \in DOMAIN nameList'[l], NEW f \in Files,
               After(l, i, f)', Mate(nameList'[l][i].file, f)
        PROVE  /\ ~nameList'[l][i].end_of_dir
               /\ i + 1 \in DOMAIN nameList'[l] => Mate(nameList'[l][i + 1].file, f)
    <3>1. CASE i = n + 1
      BY <2>3, <2>4, <3>1
    <3>2. CASE i # n + 1
      <4>1. i \in 1 .. n
        BY <2>4, <3>2, <1>2
      <4> QED  BY <2>2, <2>4, <4>1
    <3> QED  BY <3>1, <3>2
  <2> QED  BY <2>1, <2>4 DEF InRow
<1>9. ASSUME NEW m \in NameLists, m # l PROVE InRow(m)'
  BY <1>3, <1>5, <1>9 DEF InRow, After
<1>10. \A m \in NameLists, f \in Files : Pending(m, f)' <=> Pending(m, f)
  BY <1>2, <1>6 DEF Pending
<1>11. OneNamer'
  BY <1>4, <1>10 DEF OneNamer
<1>12. ASSUME ByFolder PROVE Parted' /\ SameBatch'
  <2>1. SameBatch'
    BY <1>4, <1>12 DEF SameBatch
  <2>2. NameLists = Roads /\ Readers = {1}
    BY <1>12, RoadsByFolder
  <2>3. \A r \in Roads : reader'[<<r, 1>>] = "ended" <=> reader[<<r, 1>>] = "ended"
    BY <2>2, ToldRoads DEF PutName
  <2>4. ASSUME NEW r \in Roads, NEW f \in Files, NEW h \in Files,
               Pending(r, f)', IsRead(h)', Mate(f, h)
        PROVE  /\ batch'[r] \in batchOf'[h]
               /\ reader'[<<r, 1>>] # "ended"
               /\ nameList'[r] # <<>> => Mate(nameList'[r][1].file, f)
    <3>1. Pending(r, f) /\ IsRead(h)
      BY <1>4, <1>10, <2>2, <2>4 DEF IsRead
    <3>2. /\ batch[r] \in batchOf[h]
          /\ reader[<<r, 1>>] # "ended"
          /\ nameList[r] # <<>> => Mate(nameList[r][1].file, f)
      BY <1>12, <2>4, <3>1 DEF Parted
    <3>3. CASE r # l
      BY <1>3, <1>4, <2>2, <2>3, <3>2, <3>3
    <3>4. CASE r = l /\ nameList[l] # <<>>
      <4>1. nameList'[l][1] = nameList[l][1]
        <5>1. nameList[l] \in Seq(Entries)
          BY DEF TypeInv
        <5>2. 1 \in 1 .. n
          BY <3>4, <5>1, <1>2, Popped
        <5> QED  BY <5>2, <1>2
      <4> QED  BY <1>4, <2>3, <3>2, <3>4, <4>1
    <3>5. CASE r = l /\ nameList[l] = <<>>
      <4>1. f \in todo[l]
        BY <3>1, <3>5 DEF Pending, After
      <4>2. nameList'[l][1].file = g
        BY <1>2, <3>5
      <4>3. Mate(g, f)
        BY <1>5, <4>1 DEF InRow
      <4> QED  BY <1>4, <2>3, <3>2, <3>5, <4>2, <4>3
    <3> QED  BY <3>3, <3>4, <3>5
  <2>5. Parted'
    BY <1>4, <2>4 DEF Parted
  <2> QED  BY <2>1, <2>5
<1> QED  BY <1>4, <1>8, <1>9, <1>11, <1>12 DEF ByFolder

(* What is left of the rows when a name is taken. *)
LEMMA RowTaken ==
    ASSUME Walk, Cut, NEW l \in NameLists, nameList[l] # <<>>,
           UNCHANGED <<config, todo>>, nameList' = [nameList EXCEPT ![l] = Tail(@)]
    PROVE  /\ \A m \in NameLists : InRow(m)'
           /\ OneNamer'
           /\ \A m \in NameLists, f \in Files : Pending(m, f)' => Pending(m, f)
           /\ Pending(l, Head(nameList[l]).file)
           /\ \A f \in Files : Pending(l, f)' /\ Mate(Head(nameList[l]).file, f) =>
                 /\ ~Head(nameList[l]).end_of_dir
                 /\ nameList'[l] # <<>> => Mate(nameList'[l][1].file, f)
           /\ nameList[l][1] = Head(nameList[l])
           /\ \A m \in NameLists : m # l => nameList'[m] = nameList[m]
<1> USE DEF Walk, Cut
<1> DEFINE n == Len(nameList[l])
           x == Head(nameList[l])
<1>1. /\ nameList[l] \in Seq(Entries) /\ nameList'[l] = Tail(nameList[l])
      /\ \A m \in NameLists : m # l => nameList'[m] = nameList[m]
  BY DEF TypeInv
<1>2. /\ nameList'[l] \in Seq(Entries) /\ n \in Nat \ {0}
      /\ DOMAIN nameList[l] = 1 .. n /\ DOMAIN nameList'[l] = 1 .. n - 1
      /\ \A i \in 1 .. n - 1 : nameList'[l][i] = nameList[l][i + 1]
      /\ x = nameList[l][1] /\ x \in Entries
      /\ nameList'[l] # <<>> => 1 \in DOMAIN nameList'[l]
  <2> DEFINE s == nameList[l]
             u == nameList'[l]
  <2>1. s \in Seq(Entries) /\ s # <<>> /\ u = Tail(s)
    BY <1>1
  <2> HIDE DEF s, u
  <2>2. /\ u \in Seq(Entries) /\ Len(s) \in Nat \ {0}
        /\ DOMAIN s = 1 .. Len(s) /\ DOMAIN u = 1 .. Len(s) - 1
        /\ \A i \in 1 .. Len(s) - 1 : u[i] = s[i + 1]
        /\ Head(s) = s[1] /\ Head(s) \in Entries
    BY <2>1, Popped
  <2>3. u # <<>> => 1 \in DOMAIN u
    BY <2>2, Popped
  <2> QED  BY <2>2, <2>3 DEF s, u
<1>3. Roads' = Roads /\ NameLists' = NameLists /\ todo' = todo
  BY Fixed
<1> HIDE DEF n, x
<1>4. ASSUME NEW i \in Nat, NEW f \in Files
      PROVE  After(l, i, f)' <=> After(l, i + 1, f)
  <2>1. ASSUME NEW k \in DOMAIN nameList'[l], i < k
        PROVE  k + 1 \in DOMAIN nameList[l] /\ i + 1 < k + 1 /\ nameList'[l][k] = nameList[l][k + 1]
    BY <1>2, <2>1
  <2>2. ASSUME NEW k \in DOMAIN nameList[l], i + 1 < k
        PROVE  k - 1 \in DOMAIN nameList'[l] /\ i < k - 1 /\ nameList'[l][k - 1] = nameList[l][k]
    BY <1>2, <2>2
  <2>3. After(l, i, f)' => After(l, i + 1, f)
    BY <2>1, <1>3 DEF After
  <2>4. After(l, i + 1, f) => After(l, i, f)'
    BY <2>2, <1>3 DEF After
  <2> QED  BY <2>3, <2>4
<1>5. InRow(l)'
  <2>1. \A f, g \in todo'[l] : Mate(f, g)
    BY <1>3 DEF InRow
  <2>2. ASSUME NEW i \in DOMAIN nameList'[l], NEW f \in Files,
               After(l, i, f)', Mate(nameList'[l][i].file, f)
        PROVE  /\ ~nameList'[l][i].end_of_dir
               /\ i + 1 \in DOMAIN nameList'[l] => Mate(nameList'[l][i + 1].file, f)
    <3>1. /\ i + 1 \in DOMAIN nameList[l] /\ nameList'[l][i] = nameList[l][i + 1] /\ i \in Nat
          /\ i + 1 \in DOMAIN nameList'[l] =>
                /\ (i + 1) + 1 \in DOMAIN nameList[l]
                /\ nameList'[l][i + 1] = nameList[l][(i + 1) + 1]
      BY <1>2
    <3>2. After(l, i + 1, f) /\ Mate(nameList[l][i + 1].file, f)
      BY <1>4, <2>2, <3>1
    <3>3. /\ ~nameList[l][i + 1].end_of_dir
          /\ (i + 1) + 1 \in DOMAIN nameList[l] => Mate(nameList[l][(i + 1) + 1].file, f)
      BY <3>1, <3>2 DEF InRow
    <3> QED  BY <3>1, <3>3
  <2> QED  BY <2>1, <2>2 DEF InRow
<1>6. ASSUME NEW m \in NameLists, m # l
      PROVE  InRow(m)' /\ \A f \in Files : Pending(m, f)' <=> Pending(m, f)
  <2>1. todo'[m] = todo[m] /\ nameList'[m] = nameList[m]
    BY <1>1, <1>3, <1>6
  <2>2. InRow(m)'
    BY <2>1 DEF InRow, After
  <2> QED  BY <2>1, <2>2 DEF Pending, After
<1>7. ASSUME NEW f \in Files, Pending(l, f)' PROVE Pending(l, f) /\ After(l, 1, f)
  <2>1. After(l, 0 + 1, f)
    BY <1>4, <1>7 DEF Pending
  <2>2. After(l, 1, f)
    BY <2>1
  <2>3. \A k \in DOMAIN nameList[l] : 1 < k => 0 < k
    BY <1>2
  <2> QED  BY <2>2, <2>3 DEF Pending, After
<1>8. 1 \in DOMAIN nameList[l] /\ 0 < 1
  BY <1>2
<1>9. Pending(l, x.file)
  BY <1>2, <1>8 DEF Pending, After
<1>10. ASSUME NEW f \in Files, Pending(l, f)', Mate(x.file, f)
       PROVE  /\ ~x.end_of_dir
              /\ nameList'[l] # <<>> => Mate(nameList'[l][1].file, f)
  <2>1. /\ ~nameList[l][1].end_of_dir
        /\ 1 + 1 \in DOMAIN nameList[l] => Mate(nameList[l][1 + 1].file, f)
    BY <1>2, <1>7, <1>8, <1>10 DEF InRow
  <2>2. nameList'[l] # <<>> => /\ 1 + 1 \in DOMAIN nameList[l]
                               /\ nameList'[l][1] = nameList[l][1 + 1]
    BY <1>2
  <2> QED  BY <1>2, <2>1, <2>2
<1>11. \A m \in NameLists, f \in Files : Pending(m, f)' => Pending(m, f)
  BY <1>6, <1>7
<1>12. OneNamer'
  BY <1>3, <1>11 DEF OneNamer
<1> QED  BY <1>1, <1>2, <1>5, <1>6, <1>9, <1>10, <1>11, <1>12 DEF x

LEMMA SkipCut == ASSUME Walk, Cut, NEW t \in Roads \X Readers, Skip(t) PROVE Cut'
<1> USE DEF Walk, Cut
<1>1. PICK l \in NameLists : l = ListOf(t[1])
  BY ListsOfRoads
<1> DEFINE x == Head(nameList[l])
<1>2. /\ Roads' = Roads /\ NameLists' = NameLists /\ config' = config /\ todo' = todo
      /\ reader' = reader /\ batch' = batch /\ batchOf' = batchOf
      /\ nameList[l] # <<>> /\ nameList' = [nameList EXCEPT ![l] = Tail(@)]
  BY <1>1, Fixed DEF Skip
<1>3. /\ \A m \in NameLists : InRow(m)'
      /\ OneNamer'
      /\ \A m \in NameLists, f \in Files : Pending(m, f)' => Pending(m, f)
      /\ \A f \in Files : Pending(l, f)' /\ Mate(x.file, f) =>
            (nameList'[l] # <<>> => Mate(nameList'[l][1].file, f))
      /\ nameList[l][1] = x
      /\ \A m \in NameLists : m # l => nameList'[m] = nameList[m]
  BY <1>1, <1>2, RowTaken
<1> HIDE DEF x
<1>4. ASSUME ByFolder PROVE Parted' /\ SameBatch'
  <2>1. SameBatch'
    BY <1>2, <1>4 DEF SameBatch
  <2>2. NameLists = Roads
    BY <1>4, RoadsByFolder
  <2>3. ASSUME NEW r \in Roads, NEW f \in Files, NEW h \in Files,
               Pending(r, f)', IsRead(h)', Mate(f, h)
        PROVE  /\ batch[r] \in batchOf[h]
               /\ reader[<<r, 1>>] # "ended"
               /\ nameList'[r] # <<>> => Mate(nameList'[r][1].file, f)
    <3>1. Pending(r, f) /\ IsRead(h)
      BY <1>2, <1>3, <2>2, <2>3 DEF IsRead
    <3>2. /\ batch[r] \in batchOf[h]
          /\ reader[<<r, 1>>] # "ended"
          /\ nameList[r] # <<>> => Mate(nameList[r][1].file, f)
      BY <1>4, <2>3, <3>1 DEF Parted
    <3>3. CASE r # l
      BY <1>3, <2>2, <3>2, <3>3
    <3>4. CASE r = l
      BY <1>2, <1>3, <2>3, <3>2, <3>4
    <3> QED  BY <3>3, <3>4
  <2>4. Parted'
    BY <1>2, <2>3 DEF Parted
  <2> QED  BY <2>1, <2>4
<1> QED  BY <1>2, <1>3, <1>4 DEF ByFolder

LEMMA ReadFileCut == ASSUME Walk, Cut, NEW t \in Roads \X Readers, ReadFile(t) PROVE Cut'
<1> USE DEF Walk, Cut
<1>1. PICK l \in NameLists : l = ListOf(t[1]) /\ t[1] \in Roads
  BY ListsOfRoads
<1> DEFINE x == Head(nameList[l])
           g == x.file
<1>2. /\ Roads' = Roads /\ NameLists' = NameLists /\ config' = config /\ todo' = todo
      /\ batch' = batch
      /\ batchOf' = [batchOf EXCEPT ![g] = @ \cup {batch[t[1]]}]
      /\ nameList[l] # <<>> /\ nameList' = [nameList EXCEPT ![l] = Tail(@)]
      /\ reader[t] = "runs"
      /\ reader' = IF LargeEnough(raw'[t], x.end_of_dir) THEN [reader EXCEPT ![t] = "ended"]
                   ELSE reader
  BY <1>1, Fixed DEF ReadFile, LargeEnough
<1>3. ByFolder => l = t[1] /\ t = <<l, 1>> /\ NameLists = Roads
  BY <1>1, RoadsByFolder
<1>4. /\ \A m \in NameLists : InRow(m)'
      /\ OneNamer'
      /\ \A m \in NameLists, f \in Files : Pending(m, f)' => Pending(m, f)
      /\ Pending(l, g)
      /\ \A f \in Files : Pending(l, f)' /\ Mate(g, f) =>
            /\ ~x.end_of_dir
            /\ nameList'[l] # <<>> => Mate(nameList'[l][1].file, f)
      /\ nameList[l][1] = x
      /\ \A m \in NameLists : m # l => nameList'[m] = nameList[m]
  BY <1>1, <1>2, RowTaken
<1>5. g \in Files /\ AtReader(g)
  BY <1>1, <1>2, NameTaken DEF Entries
<1>6. ASSUME NEW f \in Files
      PROVE  batchOf'[f] = IF f = g THEN {batch[t[1]]} ELSE batchOf[f]
  <2>1. batchOf[g] = {}
    BY <1>5 DEF Apart, IsRead
  <2> QED  BY <1>2, <1>5, <2>1 DEF TypeInv
<1> HIDE DEF g, x
<1>7. ASSUME ByFolder PROVE Parted' /\ SameBatch'
  <2>1. ASSUME NEW f \in Files, Mate(f, g), IsRead(f) PROVE batchOf[f] = {batch[l]}
    <3>1. batch[l] \in batchOf[f]
      BY <1>1, <1>3, <1>4, <1>5, <1>7, <2>1, Mates DEF Parted
    <3> QED  BY <3>1 DEF Once
  <2>2. \A f \in Files : Mate(f, g) => batchOf'[f] \subseteq {batch[l]}
    BY <1>3, <1>6, <1>7, <2>1 DEF IsRead
  <2>3. SameBatch'
    <3>1. ASSUME NEW f \in Files, NEW h \in Files, Mate(f, h),
                 NEW b \in batchOf'[f], NEW c \in batchOf'[h]
          PROVE  b = c
      <4>1. CASE f = g \/ h = g
        <5>1. Mate(f, g) /\ Mate(h, g)
          BY <3>1, <4>1, Mates
        <5> QED  BY <2>2, <5>1
      <4>2. CASE f # g /\ h # g
        BY <1>6, <1>7, <3>1, <4>2 DEF SameBatch
      <4> QED  BY <4>1, <4>2
    <3> QED  BY <3>1 DEF SameBatch
  <2>4. ASSUME NEW r \in Roads, NEW f \in Files, NEW h \in Files,
               Pending(r, f)', IsRead(h)', Mate(f, h)
        PROVE  /\ batch[r] \in batchOf'[h]
               /\ reader'[<<r, 1>>] # "ended"
               /\ nameList'[r] # <<>> => Mate(nameList'[r][1].file, f)
    <3>1. Pending(r, f)
      BY <1>3, <1>4, <1>7, <2>4
    <3>2. CASE h = g /\ r = l
      <4>1. ~x.end_of_dir /\ (nameList'[l] # <<>> => Mate(nameList'[l][1].file, f))
        BY <1>4, <2>4, <3>2, Mates
      <4>2. reader' = reader
        BY <1>2, <1>7, <4>1 DEF LargeEnough, ByFolder
      <4> QED  BY <1>2, <1>3, <1>6, <1>7, <3>2, <4>1, <4>2
    <3>3. CASE h = g /\ r # l
      BY <1>3, <1>4, <1>5, <1>7, <2>4, <3>1, <3>3 DEF OneNamer
    <3>4. CASE h # g
      <4>1. IsRead(h) /\ batchOf'[h] = batchOf[h]
        BY <1>6, <2>4, <3>4 DEF IsRead
      <4>2. /\ batch[r] \in batchOf[h]
            /\ reader[<<r, 1>>] # "ended"
            /\ nameList[r] # <<>> => Mate(nameList[r][1].file, f)
        BY <1>7, <2>4, <3>1, <4>1 DEF Parted
      <4>3. CASE r # l
        <5>1. <<r, 1>> # t
          BY <1>3, <1>7, <4>3
        <5>2. reader'[<<r, 1>>] = reader[<<r, 1>>]
          BY <1>2, <5>1 DEF TypeInv
        <5> QED  BY <1>3, <1>4, <1>7, <4>1, <4>2, <4>3, <5>2
      <4>4. CASE r = l
        <5>1. Mate(g, f)
          BY <1>2, <1>4, <4>2, <4>4 DEF g
        <5>2. ~x.end_of_dir /\ (nameList'[l] # <<>> => Mate(nameList'[l][1].file, f))
          BY <1>4, <2>4, <4>4, <5>1
        <5>3. reader' = reader
          BY <1>2, <1>7, <5>2 DEF LargeEnough, ByFolder
        <5> QED  BY <4>1, <4>2, <4>4, <5>2, <5>3
      <4> QED  BY <4>3, <4>4
    <3> QED  BY <3>2, <3>3, <3>4
  <2>5. Parted'
    BY <1>2, <2>4 DEF Parted
  <2> QED  BY <2>3, <2>5
<1> QED  BY <1>2, <1>4, <1>7 DEF ByFolder

LEMMA NextCut == ASSUME Walk, Cut, [Next]_vars PROVE Cut'
<1> USE DEF Walk, Cut
<1>1. CASE UNCHANGED vars \/ Walker
  <2>1. UNCHANGED <<config, todo, nameList, batchOf, batch, reader>>
    BY <1>1 DEF vars, names, roads, Walker, PutDir, EndDirs
  <2> QED  BY <2>1, CutStays
<1>2. ASSUME NEW l \in NameLists, Namer(l) PROVE Cut'
  <2>1. CASE WaitDir(l)
    BY <2>1, CutStays DEF WaitDir, roads
  <2>2. CASE EndNames(l)
    <3>1. ByFolder => \A r \in Roads :
             batch'[r] = batch[r] /\ (reader[<<r, 1>>] # "ended" => reader'[<<r, 1>>] # "ended")
      BY <2>2, ToldRoads, RoadsByFolder DEF EndNames
    <3> QED  BY <2>2, <3>1, CutStays DEF EndNames
  <2> QED  BY <1>2, <2>1, <2>2, TakeDirCut, PutNameCut DEF Namer
<1>3. ASSUME NEW r \in Roads, Road(r) PROVE Cut'
  <2>1. CASE BeginBatch(r)
    <3>1. ByFolder => reader[<<r, 1>>] = "ended"
      BY <2>1, RoadsByFolder DEF BeginBatch, Ended
    <3>2. ByFolder => \A q \in Roads : q # r =>
             batch'[q] = batch[q] /\ reader'[<<q, 1>>] = reader[<<q, 1>>]
      BY <2>1, RoadsByFolder DEF BeginBatch, TypeInv
    <3> QED  BY <2>1, <3>1, <3>2, CutStays DEF BeginBatch, names
  <2>2. CASE EndBatch(r)
    BY <2>2, CutStays DEF EndBatch, names
  <2>3. CASE IdleRoad(r)
    BY <2>3, CutStays DEF IdleRoad, names
  <2> QED  BY <1>3, <2>1, <2>2, <2>3 DEF Road
<1>4. ASSUME NEW t \in Roads \X Readers, Reader(t) PROVE Cut'
  <2>1. CASE IdleReader(t)
    <3>1. PICK s \in {"waits", "ended"} :
             Idle(ListOf(t[1]), s) /\ reader' = [reader EXCEPT ![t] = s]
      BY <2>1 DEF IdleReader
    <3>2. ASSUME ByFolder, NEW r \in Roads, reader[<<r, 1>>] # "ended"
          PROVE  reader'[<<r, 1>>] # "ended" \/ \A f \in Files : ~Pending(r, f)
      <4>1. ListOf(t[1]) = t[1] /\ t = <<t[1], 1>> /\ NameLists = Roads
        BY <3>2, RoadsByFolder
      <4>2. CASE r # t[1]
        <5>1. <<r, 1>> # t
          BY <4>1, <4>2
        <5> QED  BY <3>1, <3>2, <5>1 DEF TypeInv
      <4>3. CASE r = t[1] /\ s = "waits"
        BY <3>1, <4>1, <4>3 DEF TypeInv
      <4>4. CASE r = t[1] /\ s = "ended"
        <5>1. nameList[r] = <<>> /\ todo[r] = {}
          BY <3>1, <4>1, <4>4 DEF Idle, Ended
        <5> QED  BY <5>1 DEF Pending, After
      <4> QED  BY <4>2, <4>3, <4>4
    <3> QED  BY <2>1, <3>2, CutStays DEF IdleReader, names
  <2> QED  BY <1>4, <2>1, SkipCut, ReadFileCut DEF Reader
<1> QED  BY <1>1, <1>2, <1>3, <1>4 DEF Next

(* With variable chunking each road takes whole folders, although its      *)
(* list may be empty in the middle of one, marks get lost and files are    *)
(* skipped: a folder's files are all read into one batch.                  *)
THEOREM FoldersKeptWhole == Spec => []WholeFolders
<1>1. Walk /\ Cut => WholeFolders
  <2> SUFFICES ASSUME Walk, Cut, ByFolder, NEW d \in Dirs
               PROVE  Cardinality(UNION {batchOf[f] : f \in FilesOf[d]}) <= 1
    BY DEF WholeFolders, ByFolder
  <2>1. FilesOf[d] \subseteq Files
    BY FolderAssumption
  <2>2. \A b, c \in UNION {batchOf[f] : f \in FilesOf[d]} : b = c
    BY <2>1 DEF Cut, SameBatch, Mate
  <2> QED  BY <2>2, AtMostOne
<1>2. Walk /\ Cut /\ [Next]_vars => Walk' /\ Cut'
  BY NextWalk, NextCut
<1> QED  BY <1>1, <1>2, InitWalk, InitCut, PTL DEF Spec
=============================================================================
