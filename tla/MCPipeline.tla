----------------------------- MODULE MCPipeline -----------------------------
(* Small batches for Pipeline: every list has room for one node.  With one *)
(* chain the first image of a batch finds nothing alike.                   *)
EXTENDS Pipeline, TLC

CONSTANTS a, b

RoomForOne == [k \in Shared \cup Private |-> 1]

AloneFirst == {a :> "alone" @@ b :> f : f \in {"alike", "undecodable"}}
OnlyOne == {[x \in Images |-> "alone"]}
=============================================================================
