------------------------------ MODULE Batches -------------------------------
(***************************************************************************)
(* How the input is cut into batches.  dir_thread lists the folders,       *)
(* name_thread the files of a folder, and a road (compress_road_thread)    *)
(* makes one batch after the other: each with its own readers, which take  *)
(* names until the batch is large enough.  With variable chunking a batch  *)
(* ends only with a folder, and READ_THREAD_NUM is set to 1.  The roads    *)
(* share the folders' list, each with a name_thread of its own; in chaos   *)
(* they share one name_thread and its list.                                *)
(*                                                                         *)
(* dirList and nameList are never full here (NAME_LIST_MAX is a gigabyte   *)
(* of nodes), so only their rCond is waited on; Handoff is about the rest. *)
(* All waits are in loops that test again, which a spurious wakeup leaves  *)
(* as they are.                                                            *)
(***************************************************************************)
EXTENDS Naturals, Sequences, FiniteSets, Functions, SequencesExt

CONSTANTS Dirs, Files,
          FilesOf,      \* folder -> its files
          Unreadable,   \* files that cannot be read
          Size,         \* file -> bytes
          PatchSize,    \* PATCH_SIZE
          Configs       \* what the command line asks for

ASSUME FolderAssumption ==
    /\ IsFiniteSet(Dirs) /\ IsFiniteSet(Files) /\ Unreadable \subseteq Files
    /\ FilesOf \in [Dirs -> SUBSET Files]
    /\ \A d, e \in Dirs : d # e => FilesOf[d] \cap FilesOf[e] = {}
    /\ Size \in [Files -> Nat \ {0}] /\ PatchSize \in Nat \ {0}
    /\ \A c \in Configs : /\ c.roads \in Nat \ {0} /\ c.readers \in Nat \ {0}
                          /\ c.variable \in BOOLEAN /\ c.chaos \in BOOLEAN
                          /\ c.variable => c.readers = 1

VARIABLES config,      \* chosen once
          walk,        \* folders dir_thread has not come to
          dirList,     \* folders
          dirEnding,
          namer,       \* name list -> state of its name_thread
          todo,        \* name list -> files its name_thread has still to list
          nameList,    \* name list -> files, and whether the folder ends
          nameEnding,
          road,        \* road -> state
          reader,      \* road, number -> state of the batch's readers
          raw,         \* road, number -> bytes it has read for this batch
          batch,       \* road -> its batch
          batches,     \* how many there are: batch_id
          batchOf,     \* file -> the batches it was read into
          skipped      \* files that could not be read

dirs == <<walk, dirList, dirEnding>>
names == <<namer, todo, nameList, nameEnding>>
roads == <<road, reader, raw, batch, batches, batchOf, skipped>>
vars == <<config, dirs, names, roads>>

Roads == 1 .. config.roads
Readers == 1 .. config.readers
NameLists == IF config.chaos THEN {0} ELSE Roads
ListOf(r) == IF config.chaos THEN 0 ELSE r

Init == /\ config \in Configs
        /\ walk = Dirs /\ dirList = <<>> /\ dirEnding = FALSE
        /\ namer = [l \in NameLists |-> "runs"]
        /\ todo = [l \in NameLists |-> {}]
        /\ nameList = [l \in NameLists |-> <<>>]
        /\ nameEnding = [l \in NameLists |-> FALSE]
        /\ road = [r \in Roads |-> "runs"]
        /\ reader = [t \in Roads \X Readers |-> "ended"]
        /\ raw = [t \in Roads \X Readers |-> 0]
        /\ batch = [r \in Roads |-> 0]
        /\ batches = 0
        /\ batchOf = [f \in Files |-> {}]
        /\ skipped = {}

(* pthread_cond_signal on dirList's rCond: a name_thread that waits goes   *)
(* on, if there is one.                                                    *)
SignalDirs == \/ \E l \in NameLists : namer[l] = "waits" /\ namer' = [namer EXCEPT ![l] = "runs"]
              \/ (\A l \in NameLists : namer[l] # "waits") /\ UNCHANGED namer

(* On a name list's rCond both the roads that use it and their readers     *)
(* wait.                                                                   *)
SignalNames(l) ==
    LET asleep == {r \in Roads : ListOf(r) = l /\ road[r] = "waits"}
        idle == {t \in Roads \X Readers : ListOf(t[1]) = l /\ reader[t] = "waits"}
    IN \/ \E r \in asleep : road' = [road EXCEPT ![r] = "runs"] /\ UNCHANGED reader
       \/ \E t \in idle : reader' = [reader EXCEPT ![t] = "runs"] /\ UNCHANGED road
       \/ asleep = {} /\ idle = {} /\ UNCHANGED <<road, reader>>

-----------------------------------------------------------------------------
PutDir(d) == /\ d \in walk
             /\ walk' = walk \ {d}
             /\ dirList' = Append(dirList, d)
             /\ SignalDirs
             /\ UNCHANGED <<config, dirEnding, todo, nameList, nameEnding, roads>>

EndDirs == /\ walk = {} /\ ~dirEnding
           /\ dirEnding' = TRUE
           /\ SignalDirs
           /\ UNCHANGED <<config, walk, dirList, todo, nameList, nameEnding, roads>>

ListIsDone(l) == namer[l] = "runs" /\ todo[l] = {}

TakeDir(l) == /\ ListIsDone(l) /\ dirList # <<>>
              /\ todo' = [todo EXCEPT ![l] = FilesOf[Head(dirList)]]
              /\ dirList' = Tail(dirList)
              /\ UNCHANGED <<config, walk, dirEnding, namer, nameList, nameEnding, roads>>

WaitDir(l) == /\ ListIsDone(l) /\ dirList = <<>> /\ ~dirEnding
              /\ namer' = [namer EXCEPT ![l] = "waits"]
              /\ UNCHANGED <<config, dirs, todo, nameList, nameEnding, roads>>

(* A file is marked as the last of its folder unless "." or ".." follows. *)
PutName(l, f) ==
    /\ f \in todo[l]
    /\ todo' = [todo EXCEPT ![l] = @ \ {f}]
    /\ \E end \in IF todo[l] = {f} THEN BOOLEAN ELSE {FALSE} :
          nameList' = [nameList EXCEPT ![l] = Append(@, [file |-> f, end_of_dir |-> end])]
    /\ SignalNames(l)
    /\ UNCHANGED <<config, dirs, namer, nameEnding, raw, batch, batches, batchOf, skipped>>

(* Mutant: nobody is told that there are no more names. *)
EndNamesSilent(l) == /\ ListIsDone(l) /\ dirList = <<>> /\ dirEnding
                     /\ namer' = [namer EXCEPT ![l] = "ended"]
                     /\ nameEnding' = [nameEnding EXCEPT ![l] = TRUE]
                     /\ UNCHANGED <<config, dirs, todo, nameList, roads>>

EndNames(l) == /\ ListIsDone(l) /\ dirList = <<>> /\ dirEnding
               /\ namer' = [namer EXCEPT ![l] = "ended"]
               /\ nameEnding' = [nameEnding EXCEPT ![l] = TRUE]
               /\ SignalNames(l)
               /\ UNCHANGED <<config, dirs, todo, nameList, raw, batch, batches, batchOf, skipped>>

-----------------------------------------------------------------------------
(* A road starts a batch when there is a name, and its threads with it. *)
BeginBatch(r) == /\ road[r] = "runs" /\ nameList[ListOf(r)] # <<>>
                 /\ road' = [road EXCEPT ![r] = "joins"]
                 /\ batches' = batches + 1
                 /\ batch' = [batch EXCEPT ![r] = batches']
                 /\ reader' = [t \in DOMAIN reader |-> IF t[1] = r THEN "runs" ELSE reader[t]]
                 /\ raw' = [t \in DOMAIN raw |-> IF t[1] = r THEN 0 ELSE raw[t]]
                 /\ UNCHANGED <<config, dirs, names, batchOf, skipped>>

(* All readers, and the threads behind them, are joined. *)
EndBatch(r) == /\ road[r] = "joins"
               /\ \A i \in Readers : reader[<<r, i>>] = "ended"
               /\ road' = [road EXCEPT ![r] = "runs"]
               /\ UNCHANGED <<config, dirs, names, reader, raw, batch, batches, batchOf, skipped>>

(* What a thread does when there is no name in the list. *)
Idle(l, state) == /\ nameList[l] = <<>>
                  /\ state = IF nameEnding[l] THEN "ended" ELSE "waits"

IdleRoad(r) == /\ road[r] = "runs"
               /\ \E s \in {"waits", "ended"} : Idle(ListOf(r), s) /\ road' = [road EXCEPT ![r] = s]
               /\ UNCHANGED <<config, dirs, names, reader, raw, batch, batches, batchOf, skipped>>

IdleReader(t) == /\ reader[t] = "runs"
                 /\ \E s \in {"waits", "ended"} :
                       Idle(ListOf(t[1]), s) /\ reader' = [reader EXCEPT ![t] = s]
                 /\ UNCHANGED <<config, dirs, names, road, raw, batch, batches, batchOf, skipped>>

(* Mutant: the mark is not looked at. *)
LargeEnoughAnywhere(bytes, end_of_dir) ==
    IF config.variable THEN bytes >= PatchSize ELSE bytes >= PatchSize \div config.readers

(* When a reader has had enough for this batch. *)
LargeEnough(bytes, end_of_dir) ==
    IF config.variable THEN end_of_dir /\ bytes >= PatchSize
    ELSE bytes >= PatchSize \div config.readers

(* Mutant: a file that cannot be read is tried again. *)
SkipAndStay(t) ==
    LET l == ListOf(t[1])
    IN /\ reader[t] = "runs" /\ nameList[l] # <<>>
       /\ Head(nameList[l]).file \in Unreadable
       /\ skipped' = skipped \cup {Head(nameList[l]).file}
       /\ UNCHANGED <<config, dirs, names, road, reader, raw, batch, batches, batchOf>>

(* A file that cannot be read is left out; whether the batch could end *)
(* with it is not asked.                                               *)
Skip(t) ==
    LET l == ListOf(t[1])
    IN /\ reader[t] = "runs" /\ nameList[l] # <<>>
       /\ Head(nameList[l]).file \in Unreadable
       /\ nameList' = [nameList EXCEPT ![l] = Tail(@)]
       /\ skipped' = skipped \cup {Head(nameList[l]).file}
       /\ UNCHANGED <<config, dirs, namer, todo, nameEnding, road, reader, raw, batch, batches, batchOf>>

ReadFile(t) ==
    LET l == ListOf(t[1])
        name == Head(nameList[l])
    IN /\ reader[t] = "runs" /\ nameList[l] # <<>>
       /\ name.file \notin Unreadable
       /\ nameList' = [nameList EXCEPT ![l] = Tail(@)]
       /\ batchOf' = [batchOf EXCEPT ![name.file] = @ \cup {batch[t[1]]}]
       /\ raw' = [raw EXCEPT ![t] = @ + Size[name.file]]
       /\ reader' = IF LargeEnough(raw'[t], name.end_of_dir) THEN [reader EXCEPT ![t] = "ended"]
                    ELSE reader
       /\ UNCHANGED <<config, dirs, namer, todo, nameEnding, road, batch, batches, skipped>>

Walker == EndDirs \/ \E d \in Dirs : PutDir(d)
Namer(l) == TakeDir(l) \/ WaitDir(l) \/ EndNames(l) \/ \E f \in Files : PutName(l, f)
Road(r) == BeginBatch(r) \/ EndBatch(r) \/ IdleRoad(r)
Reader(t) == IdleReader(t) \/ Skip(t) \/ ReadFile(t)

Next == \/ Walker
        \/ \E l \in NameLists : Namer(l)
        \/ \E r \in Roads : Road(r)
        \/ \E t \in Roads \X Readers : Reader(t)

Spec == Init /\ [][Next]_vars

(* Each thread is scheduled; what it waits for is told in a few statements. *)
FairSpec == /\ Spec /\ WF_vars(Walker)
            /\ WF_vars(\E l \in NameLists : Namer(l))
            /\ WF_vars(\E r \in Roads : Road(r))
            /\ WF_vars(\E t \in Roads \X Readers : Reader(t))

-----------------------------------------------------------------------------
Named == UNION {FilesOf[d] : d \in Dirs}
Listed == UNION {{n.file : n \in Range(nameList[l])} : l \in NameLists}
Unlisted == UNION ({FilesOf[d] : d \in walk \cup Range(dirList)} \cup {todo[l] : l \in NameLists})

(* Whatever the roads and readers do, a file is in one place of its way,   *)
(* ends up in one batch if it can be read, and none is left when the roads *)
(* have gone.                                                              *)
EachOnce ==
    LET read == {f \in Files : batchOf[f] # {}}
        place == <<Unlisted, Listed, read, skipped>>
    IN /\ \A i, j \in 1 .. 4 : i # j => place[i] \cap place[j] = {}
       /\ Unlisted \cup Listed \cup read \cup skipped = Named
       /\ \A f \in Files : Cardinality(batchOf[f]) <= 1
       /\ (\A r \in Roads : road[r] = "ended") => read \cup skipped = Named

(* With variable chunking a folder is not cut: likely duplicates meet in   *)
(* one batch, although marks get lost and files are skipped.               *)
WholeFolders ==
    config.variable /\ ~config.chaos =>
        \A d \in Dirs : Cardinality(UNION {batchOf[f] : f \in FilesOf[d]}) <= 1

(* Every file is read or skipped, whoever a signal wakes on a list that    *)
(* several wait on, and where a batch has one reader some road hears of    *)
(* the end.  Not more: the end is signalled once, so other roads may wait  *)
(* for ever, and of two readers one, for which its road waits.             *)
Ends == <>(/\ {f \in Named : batchOf[f] # {}} \cup skipped = Named
           /\ config.readers = 1 => \E r \in Roads : road[r] = "ended")
=============================================================================
