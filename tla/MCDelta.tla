------------------------------ MODULE MCDelta -------------------------------
(* Three small planes for Delta: a target of more than one row, two planes  *)
(* of colour of another size, and rows of the base that are longer than the *)
(* target's and as long.                                                    *)
EXTENDS Delta, TLC

CONSTANTS a, b

MCHeight == <<2, 1, 1>>
MCWidth == <<2, 1, 1>>
MCBaseHeight == <<1, 1, 1>>
MCBaseWidth == <<3, 1, 1>>
MCHash == [c \in {a, b} |-> c]

(* A block is called after its hash: both names may be exchanged together. *)
Names == Permutations({a, b})
=============================================================================
