------------------------------ MODULE MCHandoff -----------------------------
(* Small instances of Handoff: nodes of different sizes in a tight list.   *)
EXTENDS Handoff, TLC

CONSTANTS a, b, c, d, e

SizesOfFive == a :> 1 @@ b :> 1 @@ c :> 2 @@ d :> 3 @@ e :> 3
=============================================================================
