----------------------------- MODULE MCFeatures -----------------------------
(* Words of eight bits, bytes of two, a polynomial of degree 5. *)
EXTENDS Features

Pentic == {0, 2, 5}
SomeGear == [b \in Byte |-> IF b = {} THEN 3 ELSE 8 * Cardinality(b) + 37 * Number(b)]
SomeK == <<91, 37, 202, 5>>
SomeB == <<17, 240, 3, 111>>

(* Blocks that differ in low bits and in others. *)
SomeBlocks == {<<{0}, {1}, {}, {}, {0, 1}, {}, {0}, {1}>>, <<{}, {0, 1}, {1}, {}, {0}, {}, {}, {1}>>}
Case(method, dim, side, w, h) ==
    [method |-> method, dim |-> dim, side |-> side, w |-> w, h |-> h]

(* Every way to walk; images of one band and of two, rows shorter and      *)
(* longer than a window.                                                   *)
SomeCases ==
    {Case("rabin", 0, 2, 3, 2), Case("rabin", 0, 2, 2, 3), Case("rabin", 1, 3, 2, 1),
     Case("rabin", 2, 2, 4, 1), Case("rabin", 0, 1, 2, 1),
     Case("2df", 0, 2, 3, 3), Case("2df", 0, 1, 3, 1), Case("2df", 1, 2, 6, 1),
     Case("2df", 2, 2, 3, 2), Case("gear", 0, 2, 2, 2), Case("gear", 1, 2, 2, 1),
     Case("gear", 2, 2, 3, 1)}
=============================================================================
