----------------------------- MODULE Container ------------------------------
(***************************************************************************)
(* The .idp container of a batch (idedup.c): write_thread and              *)
(* tra_write_thread append one record for every delta.  A writer hands the *)
(* record to write_cache field by field.  The cache is the writer's own;   *)
(* it is written to the file when the next field does not fit and when the *)
(* writer ends.  Every writer has opened the same file for appending, and  *)
(* the C library passes a flush on in two writes: the whole blocks in      *)
(* fwrite, the rest in fflush.                                             *)
(*                                                                         *)
(* A record of idelta is read by de_read_thread (idedup.c) and             *)
(* decompress_delta_ins (rejpeg.c), at the cursor they move over it.  The  *)
(* four instruction arrays may each be entropy coded, and a bit in the     *)
(* flag byte says so (compress_delta_ins).                                 *)
(*                                                                         *)
(* A byte stands for its content by saying what it is: byte pos of a field *)
(* of a record.  Lengths are scaled down.                                  *)
(***************************************************************************)
EXTENDS Naturals, Sequences, FiniteSets, Functions, SequencesExt

CONSTANTS Records,    \* deltas of the batch that reach rejpegList
          None,       \* no record
          Writers,    \* WRITE_THREAD_NUM threads at most
          Crews,      \* sets of writers that may be started
          Shapes,     \* what may be known of the lengths of the records
          SizesLen,   \* sizeof(subSize)
          CacheSize,  \* PATCH_SIZE >> 2
          Block       \* block size of the C library's file buffer

Arrays == {"cpx", "cpy", "cpl", "inl"}
Lengths == [name : Nat \ {0}, header : Nat, res : Nat, raw : [Arrays -> Nat],
            packed : [Arrays -> Nat]]

ASSUME RecordsAssumption == IsFiniteSet(Records) /\ None \notin Records
ASSUME CrewsAssumption == IsFiniteSet(Writers) /\ Crews \subseteq SUBSET Writers \ {{}}
ASSUME LengthsAssumption == /\ \A s \in Shapes : \A r \in Records : s[r] \in Lengths
                            /\ {SizesLen, CacheSize, Block} \subseteq Nat \ {0}

VARIABLES method,    \* delta_method
          crew,      \* the write_threads of the batch
          shape,     \* record -> lengths of its fields
          todo,      \* records not taken yet
          step,      \* writer -> where it is
          work,      \* writer -> the record it is at
          field,     \* writer -> the field of it that comes next
          cache,     \* writer -> bytes in its cache
          pending,   \* writer -> bytes of a flush not in the file yet
          taken,     \* writer -> records it has taken, in order
          file,      \* the .idp file
          overrun    \* bytes were copied behind the end of a cache

vars == <<method, crew, shape, todo, step, work, field, cache, pending, taken, file, overrun>>

-----------------------------------------------------------------------------
(* Mutant: the bits of two arrays are swapped. *)
BitSwapped(a) == CASE a = "cpx" -> 8 [] a = "cpy" -> 2 [] a = "cpl" -> 4 [] a = "inl" -> 1

(* The bit of an array in the flag byte. *)
Bit(a) == CASE a = "cpx" -> 8 [] a = "cpy" -> 4 [] a = "cpl" -> 2 [] a = "inl" -> 1

(* entropy_compress found the array worth coding; 0 says that it did not. *)
Packed(r, a) == shape[r].packed[a] > 0

(* rejpeg->flag *)
Flag(r) == LET bit(a) == IF Packed(r, a) THEN Bit(a) ELSE 0
           IN  bit("cpx") + bit("cpy") + bit("cpl") + bit("inl")

(* subSize[8] .. subSize[11]: bytes of the array as it is written. *)
SubSize(r, a) == IF Packed(r, a) THEN shape[r].packed[a] ELSE shape[r].raw[a]

(* The fields in the order they are handed to write_cache, each with its   *)
(* length.  An xdelta record has neither arrays nor a flag: res is the     *)
(* delta of the coefficients.                                              *)
Layout(r) ==
    IF method = "idelta"
    THEN << <<"name", shape[r].name>>, <<"sizes", SizesLen>>, <<"ffxx", 1>>, <<"xx", 1>>,
            <<"header", shape[r].header>>, <<"flag", 1>>, <<"cpx", SubSize(r, "cpx")>>,
            <<"cpy", SubSize(r, "cpy")>>, <<"cpl", SubSize(r, "cpl")>>,
            <<"inl", SubSize(r, "inl")>>, <<"res", shape[r].res>> >>
    ELSE << <<"name", shape[r].name>>, <<"sizes", SizesLen>>, <<"ffxx", 1>>, <<"xx", 1>>,
            <<"header", shape[r].header>>, <<"res", shape[r].res>> >>

Content(r, name, length) == [k \in 1 .. length |-> [rec |-> r, field |-> name, pos |-> k]]
FieldBytes(r, i) == Content(r, Layout(r)[i][1], Layout(r)[i][2])

(* The first n fields of a record, a record, and records one after another. *)
Begun(r, n) == FlattenSeq([i \in 1 .. n |-> FieldBytes(r, i)])
RecordBytes(r) == Begun(r, Len(Layout(r)))
Whole(s) == FlattenSeq([i \in DOMAIN s |-> RecordBytes(s[i])])

-----------------------------------------------------------------------------
Init == /\ method \in {"idelta", "xdelta"}
        /\ crew \in Crews
        /\ shape \in Shapes
        /\ todo = Records
        /\ step = [w \in Writers |-> "idle"]
        /\ work = [w \in Writers |-> None]
        /\ field = [w \in Writers |-> 1]
        /\ cache = [w \in Writers |-> <<>>]
        /\ pending = [w \in Writers |-> <<>>]
        /\ taken = [w \in Writers |-> <<>>]
        /\ file = <<>>
        /\ overrun = FALSE

At(w, s) == ~overrun /\ w \in crew /\ step[w] = s
Goto(w, s) == step' = [step EXCEPT ![w] = s]

(* The writer pops a record from rejpegList. *)
Pop(w, r) == /\ At(w, "idle")
             /\ r \in todo
             /\ todo' = todo \ {r}
             /\ work' = [work EXCEPT ![w] = r]
             /\ field' = [field EXCEPT ![w] = 1]
             /\ taken' = [taken EXCEPT ![w] = Append(@, r)]
             /\ Goto(w, "field")
             /\ UNCHANGED <<method, crew, shape, cache, pending, file, overrun>>

Fits(w) == Len(cache[w]) + Len(FieldBytes(work[w], field[w])) <= CacheSize

(* Mutant: the cache is written out and not emptied. *)
FlushAndKeep(w) == /\ At(w, "field")
                   /\ ~Fits(w)
                   /\ pending' = [pending EXCEPT ![w] = cache[w]]
                   /\ Goto(w, "flush")
                   /\ UNCHANGED <<method, crew, shape, todo, work, field, cache, taken, file, overrun>>

(* write_cache: the next field does not fit, the cache is written out. *)
Flush(w) == /\ At(w, "field")
            /\ ~Fits(w)
            /\ pending' = [pending EXCEPT ![w] = cache[w]]
            /\ cache' = [cache EXCEPT ![w] = <<>>]
            /\ Goto(w, "flush")
            /\ UNCHANGED <<method, crew, shape, todo, work, field, taken, file, overrun>>

(* fwrite passes whole blocks on, fflush what is left of less than one. *)
Part(s) == IF Len(s) < Block THEN Len(s) ELSE Len(s) - (Len(s) % Block)

(* One write to the file, at its end as it is at that moment. *)
Write(w) == LET n == Part(pending[w]) IN
            /\ At(w, "flush") \/ At(w, "last")
            /\ pending[w] # <<>>
            /\ file' = file \o SubSeq(pending[w], 1, n)
            /\ pending' = [pending EXCEPT ![w] = SubSeq(@, n + 1, Len(@))]
            /\ UNCHANGED <<method, crew, shape, todo, step, work, field, cache, taken, overrun>>

(* memcpy into the cache, after the flush if there was one. *)
Copy(w) == LET bytes == cache[w] \o FieldBytes(work[w], field[w])
               end == field[w] = Len(Layout(work[w]))
           IN
           /\ \/ At(w, "field") /\ Fits(w)
              \/ At(w, "flush") /\ pending[w] = <<>>
           /\ cache' = [cache EXCEPT ![w] = bytes]
           /\ overrun' = (Len(bytes) > CacheSize)
           /\ field' = [field EXCEPT ![w] = IF end THEN 1 ELSE @ + 1]
           /\ work' = [work EXCEPT ![w] = IF end THEN None ELSE @]
           /\ Goto(w, IF end THEN "idle" ELSE "field")
           /\ UNCHANGED <<method, crew, shape, todo, pending, taken, file>>

(* Mutant: a writer that ends leaves its cache as it is. *)
LeaveUnflushed(w) == /\ At(w, "idle")
                     /\ todo = {}
                     /\ Goto(w, "last")
                     /\ UNCHANGED <<method, crew, shape, todo, work, field, cache, pending,
                                    taken, file, overrun>>

(* The list has ended: what is left in the cache is written. *)
Leave(w) == /\ At(w, "idle")
            /\ todo = {}
            /\ pending' = [pending EXCEPT ![w] = cache[w]]
            /\ cache' = [cache EXCEPT ![w] = <<>>]
            /\ Goto(w, "last")
            /\ UNCHANGED <<method, crew, shape, todo, work, field, taken, file, overrun>>

Close(w) == /\ At(w, "last")
            /\ pending[w] = <<>>
            /\ Goto(w, "ended")
            /\ UNCHANGED <<method, crew, shape, todo, work, field, cache, pending, taken, file, overrun>>

Writer(w) == \/ \E r \in Records : Pop(w, r)
             \/ Flush(w) \/ Write(w) \/ Copy(w) \/ Leave(w) \/ Close(w)

Next == \E w \in Writers : Writer(w)

Spec == Init /\ [][Next]_vars

(* Every writer is scheduled. *)
FairSpec == Spec /\ \A w \in Writers : WF_vars(Writer(w))

-----------------------------------------------------------------------------
(* The bytes at the front of s are read as a record by de_read_thread.  The *)
(* name ends with its 0 byte; lengths are those of the record whose subSize *)
(* is found behind it, or nothing that is known.                           *)
IsNul(b) == b.field = "name" /\ b.pos = shape[b.rec].name
NameEnd(s) == CHOOSE k \in DOMAIN s : IsNul(s[k]) /\ \A j \in 1 .. k - 1 : ~IsNul(s[j])

(* How far the cursor is when a pointer of de_readNode is set, and behind  *)
(* the record.                                                             *)
Pointers(s) ==
    LET r == s[1].rec
        sizes == NameEnd(s)
        known == SubSeq(s, sizes + 1, sizes + SizesLen) = Content(r, "sizes", SizesLen)
        of(a) == IF known THEN SubSize(r, a) ELSE 0
        header == sizes + SizesLen + 2
        flag == header + (IF known THEN shape[r].header ELSE 0)
        x == flag + 1
        y == x + of("cpx")
        cp_l == y + of("cpy")
        in_l == cp_l + of("cpl")
        in_d == in_l + of("inl")
    IN  [header |-> header, flag |-> flag, x |-> x, y |-> y, cp_l |-> cp_l, in_l |-> in_l,
         in_d |-> in_d, end |-> in_d + (IF known THEN shape[r].res ELSE 0)]

ReadBack(s) ==
    LET ptr == Pointers(s)
        slice(from, to) == SubSeq(s, from + 1, to)
        flag == s[ptr.flag + 1]
    IN  [ffxx   |-> s[ptr.header - 1],
         xx     |-> s[ptr.header],
         header |-> slice(ptr.header, ptr.flag),
         flag   |-> IF flag.field = "flag" THEN Flag(flag.rec) ELSE 0,
         array  |-> [a \in Arrays |-> CASE a = "cpx" -> slice(ptr.x, ptr.y)
                                        [] a = "cpy" -> slice(ptr.y, ptr.cp_l)
                                        [] a = "cpl" -> slice(ptr.cp_l, ptr.in_l)
                                        [] a = "inl" -> slice(ptr.in_l, ptr.in_d)],
         in_d   |-> slice(ptr.in_d, ptr.end),
         end    |-> ptr.end]

(* The masks of decompress_delta_ins. *)
Mask == [a \in Arrays |-> CASE a = "cpx" -> 8 [] a = "cpy" -> 4 [] a = "cpl" -> 2 [] a = "inl" -> 1]
Coded(flag, a) == (flag \div Mask[a]) % 2 = 1

(* The record comes back: every field, and an array is decoded exactly if  *)
(* it was coded.                                                           *)
ReadRight(r, s) ==
    LET back == ReadBack(s) IN
    /\ <<back.ffxx>> = Content(r, "ffxx", 1)
    /\ <<back.xx>> = Content(r, "xx", 1)
    /\ back.header = Content(r, "header", shape[r].header)
    /\ \A a \in Arrays : /\ back.array[a] = Content(r, a, SubSize(r, a))
                         /\ Coded(back.flag, a) = Packed(r, a)
                         /\ Packed(r, a) => SubSize(r, a) = shape[r].packed[a]
    /\ back.in_d = Content(r, "res", shape[r].res)
    /\ back.end = Len(RecordBytes(r))

-----------------------------------------------------------------------------
(* All that the writer has handed to write_cache so far. *)
Given(w) == IF work[w] = None THEN Whole(taken[w])
            ELSE Whole(Front(taken[w])) \o Begun(work[w], field[w] - 1)

(* The bytes of s that are of a record of R. *)
Of(s, R) ==
    LET of[k \in 0 .. Len(s)] == IF k = 0 THEN <<>>
                                ELSE IF s[k].rec \in R THEN Append(of[k - 1], s[k])
                                ELSE of[k - 1]
    IN  of[Len(s)]

(* However the flushes of several writers fall between one another, and    *)
(* whenever the program stops: the bytes of a writer are in the file, on   *)
(* their way there or in its cache, all of them, once and in order.        *)
OwnBytesInOrder ==
    \A w \in Writers : Of(file, Range(taken[w])) \o pending[w] \o cache[w] = Given(w)

(* With one writer every record that is in the file as a whole reads back  *)
(* as what was written, at every moment: cutting the container where the   *)
(* last record ended needs no more than the lengths in the records.        *)
Start(w, i) == Len(Whole(SubSeq(taken[w], 1, i - 1)))
ReadsBack ==
    \A w \in Writers : (crew = {w} /\ method = "idelta") =>
        \A i \in DOMAIN taken[w] :
            Len(file) >= Start(w, i) + Len(RecordBytes(taken[w][i])) =>
                ReadRight(taken[w][i], SubSeq(file, Start(w, i) + 1, Len(file)))

(* Unless a field is longer than a cache, no cache is left behind its end, *)
(* the writers end, and every record is in the file then.                  *)
AllInFile ==
    (\A r \in Records : \A i \in DOMAIN Layout(r) : Layout(r)[i][2] <= CacheSize)
    => <>(/\ todo = {}
          /\ \A w \in crew : step[w] = "ended"
          /\ {file[k] : k \in DOMAIN file} =
                 UNION {{RecordBytes(r)[k] : k \in DOMAIN RecordBytes(r)} : r \in Records})
=============================================================================
