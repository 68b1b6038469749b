---------------------------- MODULE MCContainer -----------------------------
(* Small containers of two records: short ones, one that takes several     *)
(* caches, one with a field longer than a cache.                           *)
EXTENDS Container, TLC

CONSTANTS p, q, v, w

Lens(name, header, res, raw, packed) ==
    [name |-> name, header |-> header, res |-> res,
     raw |-> [a \in Arrays |-> raw],
     packed |-> [a \in Arrays |-> IF a \in packed THEN 1 ELSE 0]]

Short == Lens(1, 0, 1, 0, {"cpl"})
Middle == Lens(2, 1, 2, 2, {"cpy", "inl"})
Full == Lens(1, 5, 0, 0, {"cpx"})
Huge == Lens(1, 1, 6, 0, {})

SomeShapes == {p :> Short @@ q :> Full, p :> Middle @@ q :> Short, p :> Short @@ q :> Huge}
OneOrTwo == {{v}, {v, w}}
=============================================================================
