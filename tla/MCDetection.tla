---------------------------- MODULE MCDetection -----------------------------
(* Small batches for Detection.  A feature only ever meets its own kind,   *)
(* so the first image's features can be fixed: the values are names.       *)
EXTENDS Detection, TLC

CONSTANTS a, b, c, d

Values == {1, 2}
Vectors == [1 .. SfNum -> Values]
AllFeatureSets == {f \in [Images -> Vectors] : f[a] = [k \in 1 .. SfNum |-> 1]}

(* a and b alike, c and d alike. *)
TwoPairs == {[x \in Images |-> [k \in 1 .. SfNum |-> IF x \in {a, b} THEN 1 ELSE 2]]}

EqualSizes == [x \in Images |-> 1]
TightSizes == [x \in Images |-> IF x = a THEN 1 ELSE 2]
MixedSizes == [x \in Images |-> IF x \in {a, b} THEN 1 ELSE 2]
=============================================================================
