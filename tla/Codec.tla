------------------------------- MODULE Codec --------------------------------
(***************************************************************************)
(* The coder of a delta's inserted blocks, and its decoder.  rleEncode     *)
(* turns the zigzagged coefficients of the blocks, the first one as the    *)
(* difference to the block before, into pairs of a number and the zeros    *)
(* ahead of it; vliEncode packs the numbers, each in as many bits as it    *)
(* needs, into 16-bit words.  vliDecode and rleDecode undo this.  The four *)
(* passes follow each other; a step here is one pair of a pass.            *)
(*                                                                         *)
(* A length byte of the code, zeros * 16 + bits, is a pair here.  FSE may  *)
(* or may not compress the length bytes: its code is not part of the       *)
(* repository, and it is taken to be lossless.                             *)
(***************************************************************************)
EXTENDS Integers, Sequences, SequencesExt

CONSTANTS BlockLen,   \* coefficients of a block: 64
          RunMax,     \* most zeros in a length byte: 15
          WordBits,   \* bits of a word: 16
          MaxBits,    \* most bits of a number: 12
          ZigZag,     \* index of a coefficient -> its index in zigzag order
          Inputs      \* sequences of blocks that dedup_thread may insert

Index == 0 .. BlockLen - 1

(* The powers of 2, by name: the provers do not look into an exponent. *)
Pow[k \in 0 .. WordBits] == IF k = 0 THEN 1 ELSE 2 * Pow[k - 1]

(* Coefficients are small enough for the difference of two to have a       *)
(* length: those of 8-bit images are within -1024 .. 1023.                 *)
ASSUME CodecAssumption ==
    /\ BlockLen \in Nat \ {0}
    /\ RunMax \in Nat \ {0}
    /\ MaxBits \in Nat \ {0} /\ WordBits \in Nat /\ MaxBits <= WordBits
    /\ ZigZag \in [Index -> Index]
    /\ \A i, j \in Index : ZigZag[i] = ZigZag[j] => i = j
    /\ Inputs \subseteq Seq([Index -> -Pow[MaxBits - 1] .. Pow[MaxBits - 1] - 1])

VARIABLES input,       \* the blocks
          coded,       \* how many rleEncode has turned into pairs
          lastDC,      \* the first coefficient of the last of them
          zeros,       \* zeroCounter
          pairs,       \* its result: run of zeros and number
          bits,        \* bit lengths vliEncode has given to the numbers
          words,       \* its words
          empty,       \* free bits of the last word
          next,        \* the word vliDecode reads next, 0 before it begins
          cur, full,   \* the bits it has not used of the one before
          numbers,     \* its result
          decoded,     \* how many of them rleDecode has placed
          block, left, \* the block it fills and the coefficients left of it
          prevDC,      \* the first coefficient of the block before
          output       \* blocks it has filled

rle == <<coded, lastDC, zeros, pairs>>
vli == <<bits, words, empty>>
unvli == <<next, cur, full, numbers>>
unrle == <<decoded, block, left, prevDC, output>>
codecVars == <<input, rle, vli, unvli, unrle>>

NoBlock == [i \in Index |-> 0]

(* insert_p is not empty, and the words come from g_malloc0. *)
CodecInit == /\ input \in Inputs
             /\ coded = 0 /\ lastDC = 0 /\ zeros = 0 /\ pairs = <<>>
             /\ bits = <<>> /\ words = <<0>> /\ empty = WordBits
             /\ next = 0 /\ cur = 0 /\ full = 0 /\ numbers = <<>>
             /\ decoded = 0 /\ block = NoBlock /\ left = BlockLen
             /\ prevDC = 0 /\ output = <<>>

-----------------------------------------------------------------------------
Scanned(b) == [k \in Index |-> b[CHOOSE i \in Index : ZigZag[i] = k]]
Unscanned(b) == [i \in Index |-> b[ZigZag[i]]]

(* The index after the last coefficient that is not 0. *)
Used(b) == CHOOSE u \in 0 .. BlockLen : /\ u > 0 => b[u - 1] # 0
                                        /\ \A k \in u .. BlockLen - 1 : b[k] = 0

Pair(run, number) == [run |-> run, number |-> number]

(* Mutant: a full run of zeros stands for the zeros counted so far. *)
PutRunShort(acc, n) ==
    IF n # 0 THEN [pairs |-> Append(acc.pairs, Pair(acc.zeros, n)), zeros |-> 0]
    ELSE IF acc.zeros = RunMax
         THEN [pairs |-> Append(acc.pairs, Pair(RunMax, 0)), zeros |-> 1]
         ELSE [acc EXCEPT !.zeros = @ + 1]

(* One coefficient: a pair, or one more zero.  RunMax + 1 zeros make a     *)
(* pair of their own.                                                      *)
Put(acc, n) ==
    IF n # 0 THEN [pairs |-> Append(acc.pairs, Pair(acc.zeros, n)), zeros |-> 0]
    ELSE IF acc.zeros = RunMax
         THEN [pairs |-> Append(acc.pairs, Pair(RunMax, 0)), zeros |-> 0]
         ELSE [acc EXCEPT !.zeros = @ + 1]

(* The pairs and zeros after the coefficients of a block that are used. *)
Folded(diff) ==
    LET acc[k \in 0 .. Used(diff)] ==
            IF k = 0 THEN [pairs |-> pairs, zeros |-> zeros]
            ELSE Put(acc[k - 1], diff[k - 1])
    IN acc[Used(diff)]

(* One block: the coefficients up to the last that is not 0, and the mark  *)
(* (0, 0) when others follow.                                              *)
RleEncode ==
    /\ coded < Len(input)
    /\ LET scan == Scanned(input[coded + 1])
           diff == [scan EXCEPT ![0] = @ - lastDC]
           acc == Folded(diff)
       IN /\ pairs' = IF Used(diff) < BlockLen THEN Append(acc.pairs, Pair(0, 0)) ELSE acc.pairs
          /\ zeros' = acc.zeros
          /\ lastDC' = scan[0]
    /\ coded' = coded + 1
    /\ UNCHANGED <<input, vli, unvli, unrle>>

-----------------------------------------------------------------------------
Magnitude(n) == IF n < 0 THEN -n ELSE n

BitLength(n) == CHOOSE k \in 0 .. MaxBits : /\ Magnitude(n) < Pow[k]
                                            /\ k > 0 => Magnitude(n) >= Pow[k - 1]

(* A number's bits: a negative one is the complement of its magnitude. *)
Bits(n) == IF n >= 0 THEN n ELSE Pow[BitLength(n)] - 1 - Magnitude(n)

(* vliEncode, one number: its bits go behind those already in the words, *)
(* and on into the next word when this one has no room for all of them.  *)
VliEncode ==
    /\ coded = Len(input)
    /\ Len(bits) < Len(pairs)
    /\ LET n == pairs[Len(bits) + 1].number
           b == BitLength(n)
           rest == b - empty
           free == IF rest <= 0 THEN empty - b ELSE WordBits - rest
           last == IF rest <= 0 THEN Bits(n) * Pow[free] ELSE Bits(n) \div Pow[rest]
       IN /\ bits' = Append(bits, b)
          /\ empty' = free
          /\ words' = LET filled == [words EXCEPT ![Len(words)] = @ + last]
                      IN IF rest <= 0 THEN filled
                         ELSE Append(filled, (Bits(n) * Pow[free]) % Pow[WordBits])
    /\ UNCHANGED <<input, rle, unvli, unrle>>

-----------------------------------------------------------------------------
(* vliDecode takes the first word before it looks at any length. *)
Open == /\ coded = Len(input) /\ Len(bits) = Len(pairs)
        /\ next = 0
        /\ cur' = words[1]
        /\ full' = WordBits
        /\ next' = 2
        /\ UNCHANGED <<input, rle, vli, numbers, unrle>>

(* Mutant: the next word is taken when this one has just the bits wanted. *)
MoreEagerly(b) == full <= b

(* The word does not have all the bits. *)
More(b) == full < b

(* Behind the words is something else; ReadsWritten says it is not read. *)
Word(i) == IF i \in DOMAIN words THEN words[i] ELSE 0

VliDecode ==
    /\ next > 0
    /\ Len(numbers) < Len(bits)
    /\ LET b == bits[Len(numbers) + 1]
           more == b > 0 /\ More(b)
           rest == IF more THEN b - full ELSE b
           from == IF more THEN Word(next) ELSE cur
           high == IF more THEN (cur \div Pow[WordBits - full]) * Pow[rest] ELSE 0
           raw == high + from \div Pow[WordBits - rest]
       IN /\ numbers' = Append(numbers, IF b = 0 THEN 0
                                        ELSE IF raw \div Pow[b - 1] # 0 THEN raw
                                        ELSE -(Pow[b] - 1 - raw))
          /\ cur' = (from * Pow[rest]) % Pow[WordBits]
          /\ full' = (IF more THEN WordBits ELSE full) - rest
          /\ next' = IF more THEN next + 1 ELSE next
    /\ UNCHANGED <<input, rle, vli, unrle>>

-----------------------------------------------------------------------------
(* How many coefficients a pair stands for: (0, 0) for all that are left. *)
Span(run, n) == IF run > 0 \/ n # 0 THEN run + 1 ELSE left

(* rleDecode, one pair: the number goes behind its zeros, and a full block *)
(* gets its first coefficient back from the difference.                    *)
RleDecode ==
    /\ next > 0 /\ Len(numbers) = Len(pairs)
    /\ decoded < Len(pairs)
    /\ LET run == pairs[decoded + 1].run
           n == numbers[decoded + 1]
           rest == left - Span(run, n)
           placed == IF run = 0 /\ n = 0 THEN block
                     ELSE [block EXCEPT ![BlockLen - left + run] = n]
           whole == [placed EXCEPT ![0] = @ + prevDC]
       IN IF rest = 0
          THEN /\ output' = Append(output, Unscanned(whole))
               /\ prevDC' = whole[0]
               /\ block' = NoBlock
               /\ left' = BlockLen
          ELSE /\ block' = placed
               /\ left' = rest
               /\ UNCHANGED <<output, prevDC>>
    /\ decoded' = decoded + 1
    /\ UNCHANGED <<input, rle, vli, unvli>>

CodecNext == RleEncode \/ VliEncode \/ Open \/ VliDecode \/ RleDecode

CodecSpec == CodecInit /\ [][CodecNext]_codecVars

-----------------------------------------------------------------------------
(* vliDecode is not told how many words there are: it takes them as the    *)
(* bit lengths ask for them, and never one that vliEncode did not write.   *)
ReadsWritten == next <= Len(words) + 1

(* The numbers and the blocks that come back are those that went in, in    *)
(* order, and the last pair ends the last block.                           *)
Lossless == /\ \A i \in DOMAIN numbers : numbers[i] = pairs[i].number
            /\ IsPrefix(output, input)
            /\ next > 0 /\ decoded = Len(pairs) => output = input /\ left = BlockLen
=============================================================================
