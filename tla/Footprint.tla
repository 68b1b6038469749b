----------------------------- MODULE Footprint ------------------------------
(***************************************************************************)
(* The bytes a set of nodes occupies.  imDedup accounts for memory by      *)
(* subtracting a node's size from a counter when the node enters a list or *)
(* the decode buffer and adding it back when it leaves; the counter can be *)
(* compared with the bytes of the nodes that are there.                    *)
(***************************************************************************)
EXTENDS Naturals, FiniteSets

(* The bytes of one node, each byte told apart from every other node's. *)
Cells(x, size) == {x} \X (1 .. size[x])

(* How many bytes the nodes of S occupy together. *)
Bytes(S, size) == Cardinality(UNION {Cells(x, size) : x \in S})
=============================================================================
