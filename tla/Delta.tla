------------------------------- MODULE Delta --------------------------------
(***************************************************************************)
(* One image as a delta of another: index_sub_thread lists the blocks of   *)
(* each plane of the base by their hash, get_instructions_thread, one for  *)
(* each plane, turns the target into runs copied from the base and blocks  *)
(* that are inserted, get_instructions joins them and puts their arrays    *)
(* behind each other, and de_dedup_a_single_img reads the result back.     *)
(*                                                                         *)
(* A plane is a rectangle of 8x8 blocks; a block is a value.  LBS,         *)
(* SUB_THREAD_NUM and INDEX_THREAD_NUM are 1, as they are in the code.     *)
(* What rejpeg_thread does to the inserted blocks in between, and the      *)
(* header's delta, are not part of this module.                            *)
(*                                                                         *)
(* A delta's file has the sizes of the first two planes only.  The encoder *)
(* cuts every plane by its own size, the decoder cuts the third by the     *)
(* second's: what a delta says of the third plane presumes that the planes *)
(* of colour are of one size, and no line of the code sees to it.          *)
(***************************************************************************)
EXTENDS Naturals, Sequences, Functions

CONSTANTS NPlanes,                \* three in the code
          Height, Width,          \* of the target's planes, in blocks
          BaseHeight, BaseWidth,  \* of the base's
          Block,                  \* contents of a block
          Key,                    \* values of a hash
          Hash                    \* block -> its adler32

Planes == 1 .. NPlanes

ASSUME SizesAssumption == /\ NPlanes \in Nat \ {0}
                          /\ Height \in [Planes -> Nat \ {0}]
                          /\ Width \in [Planes -> Nat \ {0}]
                          /\ BaseHeight \in [Planes -> Nat \ {0}]
                          /\ BaseWidth \in [Planes -> Nat \ {0}]
                          /\ Hash \in [Block -> Key]

(* The plane whose size in the file the decoder takes for a plane. *)
Stored(p) == IF p = 1 THEN 1 ELSE 2

(* The file format's presumption about the target; of the base, every      *)
(* plane is read with its own size.                                        *)
ASSUME ColourAssumption == \A p \in Planes : /\ Height[Stored(p)] = Height[p]
                                             /\ Width[Stored(p)] = Width[p]

(* A block's place: plane, row and column. *)
Plane(h, w, p) == {p} \X (0 .. h[p] - 1) \X (0 .. w[p] - 1)
TargetCells == UNION {Plane(Height, Width, p) : p \in Planes}
BaseCells == UNION {Plane(BaseHeight, BaseWidth, p) : p \in Planes}

VARIABLES target, base,   \* place -> block
          key,            \* place in the base -> the hash taken for it
          at,             \* plane -> row and column the encoder is at
          inLen,          \* plane -> blocks inserted since the last copy
          inl, cps, inp,  \* plane -> insert lengths, copies, inserted blocks
          merged,         \* planes whose arrays are in the stream
          stream,         \* what was merged and has not been read back
          plane, read,    \* the reader's plane and the instructions read of it
          ready,          \* blocks of its current row that are there
          out             \* plane -> blocks read back

images == <<target, base, key>>
encoder == <<at, inLen, inl, cps, inp>>
reader == <<plane, read, ready, out>>
vars == <<images, encoder, merged, stream, reader>>

(* index_sub_thread takes the hash of row+j where j has not been set: with *)
(* j = 0 it is the block's own, otherwise that of something else.          *)
Init == /\ target \in [TargetCells -> Block]
        /\ base \in [BaseCells -> Block]
        /\ key \in [BaseCells -> Key]
        /\ at = [p \in Planes |-> <<0, 0>>]
        /\ inLen = [p \in Planes |-> 0]
        /\ inl = [p \in Planes |-> <<>>]
        /\ cps = [p \in Planes |-> <<>>]
        /\ inp = [p \in Planes |-> <<>>]
        /\ merged = 0
        /\ stream = [inl |-> <<>>, cps |-> <<>>, inp |-> <<>>]
        /\ plane = 1
        /\ read = 0
        /\ ready = 0
        /\ out = [p \in Planes |-> <<>>]

-----------------------------------------------------------------------------
(* Mutant: the neighbours are compared the other way round. *)
ListedRepeats(p) == {b \in Plane(BaseHeight, BaseWidth, p) :
                       b[3] = 0 \/ key[b] = key[<<p, b[2], b[3] - 1>>]}

(* A block is not listed when the one before it in its row has its hash. *)
Listed(p) == {b \in Plane(BaseHeight, BaseWidth, p) :
                b[3] = 0 \/ key[b] # key[<<p, b[2], b[3] - 1>>]}

(* In the order of the list: row by row. *)
Before(b, c) == b[2] < c[2] \/ (b[2] = c[2] /\ b[3] < c[3])

Here(p) == <<p, at[p][1], at[p][2]>>
Candidates(p) == {b \in Listed(p) : key[b] = Hash[target[Here(p)]]}

(* Places to the right of a place, itself first. *)
Along(b, n) == <<b[1], b[2], b[3] + n>>

(* Mutant: equal hashes are taken for equal blocks. *)
SameByHash(p, b, i) == \/ i = 0
                       \/ /\ Along(b, i) \in BaseCells
                          /\ base[Along(b, i)] = target[Along(Here(p), i)]

(* memcmp of the i-th blocks from both places on. *)
Same(p, b, i) == /\ Along(b, i) \in BaseCells
                 /\ base[Along(b, i)] = target[Along(Here(p), i)]

(* How many blocks of the target's row are the base's from b on, up to the *)
(* end of either row.                                                      *)
Match(p, b) == LET left == Width[p] - at[p][2]
               IN CHOOSE n \in 0 .. left : /\ \A i \in 0 .. n - 1 : Same(p, b, i)
                                           /\ n = left \/ ~Same(p, b, n)

InRow(p) == at[p][1] < Height[p] /\ at[p][2] < Width[p]

(* The longest match is copied, the first of the base among equals. *)
Copy(p) ==
    /\ InRow(p)
    /\ \E b \in Candidates(p) :
        /\ Match(p, b) > 0
        /\ \A c \in Candidates(p) : /\ Match(p, c) <= Match(p, b)
                                    /\ Before(c, b) => Match(p, c) < Match(p, b)
        /\ cps' = [cps EXCEPT ![p] = Append(@, [y |-> b[2], x |-> b[3], len |-> Match(p, b)])]
        /\ at' = [at EXCEPT ![p] = <<@[1], @[2] + Match(p, b)>>]
        /\ inl' = [inl EXCEPT ![p] = Append(@, inLen[p])]
        /\ inLen' = [inLen EXCEPT ![p] = 0]
        /\ UNCHANGED <<images, inp, merged, stream, reader>>

Insert(p) ==
    /\ InRow(p)
    /\ \A b \in Candidates(p) : Match(p, b) = 0
    /\ inp' = [inp EXCEPT ![p] = Append(@, target[Here(p)])]
    /\ inLen' = [inLen EXCEPT ![p] = @ + 1]
    /\ at' = [at EXCEPT ![p] = <<@[1], @[2] + 1>>]
    /\ UNCHANGED <<images, inl, cps, merged, stream, reader>>

(* A row that ends with insertions has an instruction without a copy. *)
EndRow(p) ==
    /\ at[p][1] < Height[p] /\ at[p][2] = Width[p]
    /\ inl' = IF inLen[p] > 0 THEN [inl EXCEPT ![p] = Append(@, inLen[p])] ELSE inl
    /\ inLen' = [inLen EXCEPT ![p] = 0]
    /\ at' = [at EXCEPT ![p] = <<@[1] + 1, 0>>]
    /\ UNCHANGED <<images, cps, inp, merged, stream, reader>>

(* All threads are joined, then the arrays put together plane by plane. *)
Merge == /\ \A p \in Planes : at[p][1] = Height[p]
         /\ merged < NPlanes
         /\ merged' = merged + 1
         /\ stream' = [inl |-> stream.inl \o inl[merged'],
                       cps |-> stream.cps \o cps[merged'],
                       inp |-> stream.inp \o inp[merged']]
         /\ UNCHANGED <<images, encoder, reader>>

-----------------------------------------------------------------------------
(* de_dedup_a_single_img reads one instruction: the inserted blocks, then  *)
(* a copy unless they fill the row, which is as long as the file says.     *)
Decode ==
    /\ merged = NPlanes
    /\ plane \in Planes
    /\ read < Len(inl[plane])
    /\ LET n == Head(stream.inl)
           copies == ready + n < Width[Stored(plane)]
           c == Head(stream.cps)
           placed == SubSeq(stream.inp, 1, n)
           run == IF copies THEN [i \in 1 .. c.len |-> base[<<plane, c.y, c.x + i - 1>>]] ELSE <<>>
           now == ready + n + Len(run)
       IN /\ out' = [out EXCEPT ![plane] = @ \o placed \o run]
          /\ stream' = [inl |-> Tail(stream.inl),
                        cps |-> IF copies THEN Tail(stream.cps) ELSE stream.cps,
                        inp |-> SubSeq(stream.inp, n + 1, Len(stream.inp))]
          /\ ready' = IF now = Width[Stored(plane)] THEN 0 ELSE now
          /\ read' = read + 1
    /\ UNCHANGED <<images, encoder, merged, plane>>

(* y_counter, u_counter or v_counter instructions have been read. *)
NextPlane == /\ merged = NPlanes
             /\ plane \in Planes
             /\ read = Len(inl[plane])
             /\ plane' = plane + 1
             /\ read' = 0
             /\ ready' = 0
             /\ UNCHANGED <<images, encoder, merged, stream, out>>

Encode(p) == Copy(p) \/ Insert(p) \/ EndRow(p)

Next == (\E p \in Planes : Encode(p)) \/ Merge \/ Decode \/ NextPlane

Spec == Init /\ [][Next]_vars

-----------------------------------------------------------------------------
(* What is read back is the target, block by block: collisions, neighbours *)
(* that are not listed and rows that end in an insertion change only which *)
(* instructions are made, and the second size in the file serves for both  *)
(* planes of colour.  At the end every plane is there and nothing of the   *)
(* stream is left.                                                         *)
Faithful == /\ \A p \in Planes :
                 /\ Len(out[p]) <= Height[p] * Width[p]
                 /\ \A i \in 0 .. Len(out[p]) - 1 :
                      out[p][i + 1] = target[<<p, i \div Width[p], i % Width[p]>>]
                 /\ p < plane => Len(out[p]) = Height[p] * Width[p]
            /\ plane > NPlanes => stream = [inl |-> <<>>, cps |-> <<>>, inp |-> <<>>]

(* With an index of the blocks' own hashes, and no two blocks of one hash, *)
(* leaving out repeated neighbours costs no match: what is inserted occurs *)
(* nowhere in the base's plane.                                            *)
InsertedAreNew ==
    /\ key = [b \in BaseCells |-> Hash[base[b]]]
    /\ IsInjective(Hash)
    => \A p \in Planes : \A b \in Plane(BaseHeight, BaseWidth, p) : base[b] \notin Range(inp[p])
=============================================================================
