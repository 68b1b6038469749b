------------------------------ MODULE Features ------------------------------
(***************************************************************************)
(* The super features of one image: compute_features (2df.c) walks over    *)
(* the blocks of its first plane, or over bytes, with a rolling value, and *)
(* takes of every linear transformation of that value the greatest it      *)
(* meets.  The rolling value is a Rabin fingerprint (rabin/rabin.c), the   *)
(* low bits of coefficients shifted through a register (the feature map),  *)
(* or a gear hash (rabin/gear.c).                                          *)
(*                                                                         *)
(* Polynomials over GF(2), bytes and words are sets of the exponents whose *)
(* bit is 1, so that exclusive or is the symmetric difference.  The byte,  *)
(* the word and the degree are scaled down, a coefficient is one byte, and *)
(* a block has as many of them as a word has bits.                         *)
(***************************************************************************)
EXTENDS Naturals, Sequences, FiniteSets

CONSTANTS WordBits,    \* 64
          ByteBits,    \* 8
          Polynomial,  \* POLYNOMIAL
          GearTable,   \* gear_table
          K, B,        \* k_index, b_index
          PerSF,       \* FEA_PER_SF
          Blocks,      \* contents a block may have
          Cases        \* [method, dim, side, w, h]: options and image sizes

Byte == SUBSET (0 .. ByteBits - 1)
Degree == CHOOSE d \in Polynomial : \A e \in Polynomial : e <= d

(* The powers of 2, by name: the provers do not look into an exponent. *)
Pow[k \in 0 .. WordBits] == IF k = 0 THEN 1 ELSE 2 * Pow[k - 1]
Word == 0 .. Pow[WordBits] - 1

ASSUME WidthsAssumption ==
    /\ WordBits \in Nat \ {0} /\ ByteBits \in Nat \ {0}
    /\ Polynomial # {} /\ Polynomial \subseteq 0 .. WordBits - 1
    /\ Degree >= ByteBits /\ Degree + ByteBits <= WordBits
ASSUME TablesAssumption == /\ GearTable \in [Byte -> Word] /\ K \in Seq(Word) /\ B \in Seq(Word)
                           /\ Len(K) = Len(B) /\ PerSF \in Nat \ {0} /\ Len(K) % PerSF = 0
ASSUME BlocksAssumption == \A c \in Blocks : c \in Seq(Byte) /\ Len(c) = WordBits
(* An image that is narrower or lower than a window is walked out of.      *)
ASSUME CasesAssumption ==
    /\ Cases \subseteq [method : {"2df", "rabin", "gear"}, dim : 0 .. 2,
                        side : Nat \ {0}, w : Nat \ {0}, h : Nat \ {0}]
    /\ \A c \in Cases : c.dim = 0 => c.w >= c.side /\ c.h >= c.side

VARIABLES opt,    \* the options and the image's size
          cell,   \* row, column -> block
          band,   \* row the windows start in
          pos,    \* units taken in of it
          hash,   \* rolling value
          max,    \* greatest value of each transformation
          sfs     \* image->sfs

featuresVars == <<opt, cell, band, pos, hash, max, sfs>>

-----------------------------------------------------------------------------
Plus(x, y) == (x \ y) \cup (y \ x)
Times(x, n) == {e + n : e \in x}
Number(x) == LET sum[k \in 0 .. WordBits] ==
                     IF k = 0 THEN 0
                     ELSE sum[k - 1] + IF k - 1 \in x THEN Pow[k - 1] ELSE 0
             IN  sum[WordBits]

(* mod, one bit: the polynomial is taken off if its first bit can be there. *)
Reduced(y, n) ==
    IF n \in y /\ n >= Degree THEN Plus(y, Times(Polynomial, n - Degree)) ELSE y

(* mod: the remainder by POLYNOMIAL, the first bit first. *)
Mod(x) ==
    LET top == IF x = {} THEN 0 ELSE CHOOSE d \in x : \A e \in x : e <= d
        rest[k \in 0 .. top + 1] ==
            IF k = 0 THEN x ELSE Reduced(rest[k - 1], top + 1 - k)
    IN  rest[top + 1]

append_byte(x, b) == Mod(Times(x, ByteBits) \cup b)

(* A byte with n bytes 0 behind it. *)
ZerosBehind(b, n) ==
    LET sum[i \in 0 .. n] == IF i = 0 THEN append_byte({}, b) ELSE append_byte(sum[i - 1], {})
    IN  sum[n]

(* Mutant: the byte that leaves is shifted by the whole window. *)
OutTableFull(winsize) == [b \in Byte |-> ZerosBehind(b, winsize)]

(* calc_tables: what a byte adds to the digest when it is the oldest one. *)
OutTable(winsize) == [b \in Byte |-> ZerosBehind(b, winsize - 1)]

ModTable == [b \in Byte |-> Mod(Times(b, Degree)) \cup Times(b, Degree)]

rabin_append(digest, b) ==
    LET index == {e \in 0 .. ByteBits - 1 : e + Degree - ByteBits \in digest}
    IN  Plus(Times(digest, ByteBits) \cup b, ModTable[index])

BlockBytes == WordBits

(* rabin_win_size of main *)
WinSize(o) == CASE o.dim = 0 -> o.side * o.side * BlockBytes
                [] o.dim = 1 -> o.side
                [] o.dim = 2 -> o.side * BlockBytes
OutTables == [o \in {c \in Cases : c.method = "rabin"} |-> OutTable(WinSize(o))]

(* rabin_slide: the byte takes the place of the oldest one. *)
Slide(o, h, b) ==
    [window |-> [h.window EXCEPT ![h.wpos] = b],
     wpos   |-> (h.wpos + 1) % WinSize(o),
     digest |-> rabin_append(Plus(h.digest, OutTables[o][h.window[h.wpos]]), b)]

(* rabin_reset: a byte 1 in an empty window. *)
Empty(o) == [window |-> [k \in 0 .. WinSize(o) - 1 |-> {}], wpos |-> 0, digest |-> {}]
Reset(o) == Slide(o, Empty(o), {0})

-----------------------------------------------------------------------------
(* bit_per_slot *)
PerSlot(o) == IF o.side * o.side <= WordBits THEN WordBits \div (o.side * o.side) ELSE 1

(* map[i][j]: low bits of the coefficients at equal distances. *)
Slot(o, c) == LET step == WordBits \div PerSlot(o)
                  n == (WordBits + step - 1) \div step
              IN  {n - 1 - t : t \in {t \in 0 .. n - 1 : 0 \in c[t * step + 1]}}

(* Shift of a word.  By 64 or more it is not defined; the processor that   *)
(* the build is for takes the distance modulo 64.                          *)
Shift(x, n) == {e \in Times(x, n % WordBits) : e < WordBits}

gear_slide(h, b) == (2 * h + GearTable[b]) % Pow[WordBits]

(* The loop of gear_slide_a_block over the n bytes after the first from. *)
SlidOver(c, from, n) ==
    LET h[k \in 0 .. n] == IF k = 0 THEN 0 ELSE gear_slide(h[k - 1], c[from + k])
    IN  h[n]

gear_slide_a_block(c) ==
    LET middle == Len(c) \div 2
    IN  (SlidOver(c, 0, middle) + SlidOver(c, middle, Len(c) - middle)) % Pow[WordBits]

-----------------------------------------------------------------------------
(* The walk.  A unit is a block, or a byte for a Rabin fingerprint and for *)
(* gear over bytes.                                                        *)
ByteCount(o) == o.w * o.h * BlockBytes

Bands(o) == CASE o.dim = 0 -> IF o.method = "gear" THEN 0 ELSE o.h - o.side + 1
              [] o.dim # 0 -> IF o.method = "2df" THEN o.h ELSE 1

(* Units of a band; what is slid in behind the last feature is left out.   *)
Units(o) == CASE o.method = "2df" -> IF o.dim = 0 THEN o.w * o.side ELSE o.w
              [] o.method = "rabin" -> IF o.dim = 0 THEN o.w * o.side * BlockBytes
                                       ELSE ByteCount(o)
              [] o.method = "gear" -> IF o.dim = 1 THEN ByteCount(o) - 1 ELSE o.w * o.h

Column(o, i, n) == cell[i + (n % o.side), n \div o.side]
Raster(o, n) == cell[n \div o.w, n % o.w]
InBlock(block, n) == block[(n % BlockBytes) + 1]

(* The n-th unit of band i: a band of rows is read column by column.       *)
Unit(o, i, n) ==
    CASE o.method = "2df" -> IF o.dim = 0 THEN Column(o, i, n) ELSE cell[i, n]
      [] o.method = "rabin" -> IF o.dim = 0 THEN InBlock(Column(o, i, n \div BlockBytes), n)
                               ELSE InBlock(Raster(o, n \div BlockBytes), n)
      [] o.method = "gear" -> IF o.dim = 1 THEN InBlock(Raster(o, n \div BlockBytes), n)
                              ELSE Raster(o, n)

(* Units before the first features are taken, and from one to the next. *)
First(o) == CASE o.method = "2df" -> IF o.dim = 0 \/ o.w > o.side * o.side
                                     THEN o.side * o.side ELSE o.w
              [] o.method = "rabin" -> WinSize(o)
              [] o.method = "gear" -> IF o.dim = 1 THEN WordBits ELSE 1
Every(o) == CASE o.method = "2df" -> IF o.dim = 0 THEN o.side ELSE 1
              [] o.method = "rabin" -> (CASE o.dim = 0 -> o.side * BlockBytes
                                          [] o.dim = 1 -> 1
                                          [] o.dim = 2 -> BlockBytes)
              [] o.method = "gear" -> 1

(* Mutant: the features are taken before the last column is in. *)
DueEarly(o, n) == n >= First(o) - Every(o) /\ (n - First(o)) % Every(o) = 0 /\ n < Units(o)

(* Features are taken when n units are in. *)
Due(o, n) == n >= First(o) /\ (n - First(o)) % Every(o) = 0

Fresh(o) == CASE o.method = "2df" -> {} [] o.method = "rabin" -> Reset(o) [] o.method = "gear" -> 0

(* Over bytes, the value that gear_slide returns is only assigned for the  *)
(* first 63 of them.                                                       *)
Take(o, h, u) ==
    CASE o.method = "2df" -> Shift(h, PerSlot(o)) \cup Slot(o, u)
      [] o.method = "rabin" -> Slide(o, h, u)
      [] o.method = "gear" -> IF o.dim = 2 THEN gear_slide_a_block(u)
                              ELSE IF pos < WordBits - 1 THEN gear_slide(h, u) ELSE h

Value(o, h) == CASE o.method = "2df" -> Number(h)
                 [] o.method = "rabin" -> Number(h.digest)
                 [] o.method = "gear" -> h

Linear(m, x) == (K[m] * x + B[m]) % Pow[WordBits]
Greater(x, y) == IF x > y THEN x ELSE y

-----------------------------------------------------------------------------
FeaturesInit == /\ opt \in Cases
                /\ cell \in [(0 .. opt.h - 1) \X (0 .. opt.w - 1) -> Blocks]
                /\ band = 0
                /\ pos = 0
                /\ hash = Fresh(opt)
                /\ max = [m \in DOMAIN K |-> 0]
                /\ sfs = <<>>

(* One more unit is taken in, and the features if a window is complete. *)
Roll == /\ band < Bands(opt)
        /\ pos < Units(opt)
        /\ hash' = Take(opt, hash, Unit(opt, band, pos))
        /\ pos' = pos + 1
        /\ max' = [m \in DOMAIN K |-> IF Due(opt, pos + 1)
                                      THEN Greater(max[m], Linear(m, Value(opt, hash')))
                                      ELSE max[m]]
        /\ UNCHANGED <<opt, cell, band, sfs>>

(* The windows that start in the next row. *)
NextBand == /\ band < Bands(opt)
            /\ pos = Units(opt)
            /\ band' = band + 1
            /\ pos' = 0
            /\ hash' = Fresh(opt)
            /\ UNCHANGED <<opt, cell, max, sfs>>

(* The i-th super feature, one greatest value after the other. *)
Summed(i) == LET sf[j \in 0 .. PerSF] ==
                     IF j = 0 THEN 0
                     ELSE (sf[j - 1] + max[(i - 1) * PerSF + j]) % Pow[WordBits]
             IN  sf[PerSF]

Sum == /\ band = Bands(opt)
       /\ sfs = <<>>
       /\ sfs' = [i \in 1 .. Len(K) \div PerSF |-> Summed(i)]
       /\ UNCHANGED <<opt, cell, band, pos, hash, max>>

FeaturesNext == Roll \/ NextBand \/ Sum

FeaturesSpec == FeaturesInit /\ [][FeaturesNext]_featuresVars

-----------------------------------------------------------------------------
(* The windows of an image, by their places and without a walk. *)
Concat(s) == [k \in 1 .. Len(s) * BlockBytes |-> InBlock(s[(k - 1) \div BlockBytes + 1], k - 1)]
Square(o, i, j) == [k \in 1 .. o.side * o.side |->
                       cell[i + ((k - 1) % o.side), j + (k - 1) \div o.side]]
Squares(o) == {Square(o, i, j) : i \in 0 .. o.h - o.side, j \in 0 .. o.w - o.side}
Row(o, i) == [k \in 1 .. o.w |-> cell[i, k - 1]]
Image(o) == [k \in 1 .. o.w * o.h |-> Raster(o, k - 1)]
Cut(s, n) == {[k \in 1 .. n |-> s[i + k]] : i \in 0 .. Len(s) - n}

Windows(o) ==
    CASE o.method = "gear" -> IF o.dim = 0 THEN {} ELSE Cut(Image(o), 1)
      [] o.method = "2df" -> IF o.dim = 0 THEN Squares(o)
                             ELSE UNION {Cut(Row(o, i), First(o)) : i \in 0 .. o.h - 1}
      [] o.method = "rabin" -> (CASE o.dim = 0 -> {Concat(s) : s \in Squares(o)}
                                  [] o.dim = 1 -> Cut(Concat(Image(o)), o.side)
                                  [] o.dim = 2 -> {Concat(s) : s \in Cut(Image(o), o.side)})

(* The polynomial whose coefficients are the bits of the bytes. *)
Bits(bytes) == UNION {Times(bytes[k], ByteBits * (Len(bytes) - k)) : k \in DOMAIN bytes}

WindowValue(o, s) ==
    CASE o.method = "rabin" -> Number(Mod(Bits(s)))
      [] o.method = "2df" ->
             Number(UNION {Times(Slot(o, s[k]), PerSlot(o) * (Len(s) - k)) : k \in DOMAIN s})
      [] o.method = "gear" -> gear_slide_a_block(s[1])

(* A register holds a window exactly when its slots fill the word and the  *)
(* shift is defined: sides 2, 4 and 8 of the code's words of 64 bits.      *)
(* Gear over bytes takes in the front of the image alone.                  *)
Exact(o) == /\ o.method = "2df" => /\ o.side * o.side * PerSlot(o) = WordBits
                                   /\ PerSlot(o) < WordBits
            /\ o.method = "gear" => o.dim # 1

(* At every byte the digest is the remainder of the last winsize bytes,    *)
(* the 1 that rabin_reset slides in among them: the tables of calc_tables  *)
(* take the oldest byte out and reduce what is appended.                   *)
DigestIsHash ==
    opt.method = "rabin" =>
        LET w == WinSize(opt)
            last == [k \in 1 .. w |-> hash.window[(hash.wpos + k - 1) % w]]
        IN  hash.digest = Mod(Bits(last))

(* The sum of the i-th group of PerSF numbers. *)
Total(f, i) == LET sum[j \in 0 .. PerSF] ==
                       IF j = 0 THEN 0 ELSE sum[j - 1] + f[(i - 1) * PerSF + j]
               IN  sum[PerSF]

(* A super feature depends on the windows of the image alone: it is the    *)
(* sum of the greatest values that its transformations have over all of    *)
(* them, none left out, none that is not one, whatever the order they are  *)
(* met in.                                                                 *)
SuperFeaturesOfWindows ==
    (sfs # <<>> /\ Exact(opt)) =>
        LET values == {WindowValue(opt, s) : s \in Windows(opt)}
            best == [m \in DOMAIN K |->
                        CHOOSE x \in {0} \cup {Linear(m, y) : y \in values} :
                            \A y \in values : x >= Linear(m, y)]
        IN  \A i \in DOMAIN sfs : sfs[i] = Total(best, i) % Pow[WordBits]
=============================================================================
