----------------------------- MODULE MCBatches ------------------------------
(* Three folders for Batches, one of them with a file that cannot be read, *)
(* and one without files, and the ways to cut them.                        *)
EXTENDS Batches

CONSTANTS d1, d2, d3, a, b, c, bad

MCFilesOf == (d1 :> {a, b}) @@ (d2 :> {c, bad}) @@ (d3 :> {})
MCSize == [f \in {a, b, c, bad} |-> 1]

MCConfigs == {[roads |-> 1, readers |-> 1, variable |-> TRUE, chaos |-> FALSE],
              [roads |-> 2, readers |-> 1, variable |-> TRUE, chaos |-> FALSE],
              [roads |-> 2, readers |-> 1, variable |-> TRUE, chaos |-> TRUE],
              [roads |-> 1, readers |-> 2, variable |-> FALSE, chaos |-> FALSE]}
=============================================================================
