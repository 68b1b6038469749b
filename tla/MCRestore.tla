----------------------------- MODULE MCRestore ------------------------------
(* Small folders for Restore. *)
EXTENDS Restore

CONSTANTS r, bad, x, y, z

(* Every delta may name any other image as its base; which of the deltas   *)
(* are called y and z makes no difference, so x does not name z.           *)
AnyBases == {f \in [Deltas -> Raws \cup Deltas] : f[x] # z /\ \A d \in Deltas : f[d] # d}
=============================================================================
