------------------------------ MODULE Rebuild -------------------------------
(***************************************************************************)
(* What restoring a folder of raw copies and deltas promises: images come  *)
(* back one at a time, a delta only once its base is back, and the work is *)
(* over when every delta has been written out.                             *)
(***************************************************************************)
CONSTANTS Raws,     \* images stored as they are
          Deltas    \* images stored as a delta of another image

VARIABLES base,     \* delta -> the image it was made against
          back,     \* images whose pixels are known again
          written   \* deltas whose image was written to the output folder

vars == <<base, back, written>>

Init == back = {} /\ written = {}

(* A raw copy is decoded. *)
Load(r) == /\ r \in Raws \ back
           /\ back' = back \cup {r}
           /\ UNCHANGED <<base, written>>

(* A delta is applied to its base. *)
Apply(x) == /\ x \in Deltas \ back
            /\ base[x] \in back
            /\ back' = back \cup {x}
            /\ UNCHANGED <<base, written>>

(* A rebuilt image is written out. *)
Write(x) == /\ x \in (Deltas \cap back) \ written
            /\ written' = written \cup {x}
            /\ UNCHANGED <<base, back>>

Next == \/ \E r \in Raws : Load(r)
        \/ \E x \in Deltas : Apply(x) \/ Write(x)

Spec == Init /\ [][Next]_vars
=============================================================================
