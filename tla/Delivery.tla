------------------------------ MODULE Delivery ------------------------------
(***************************************************************************)
(* What one list of the imDedup pipeline promises to the threads on its    *)
(* two sides, without queue, space, mutex or condition variable: an item a *)
(* producer has accepted is handed to exactly one consumer, and a consumer *)
(* leaves its loop only when nothing accepted is left to hand over.        *)
(***************************************************************************)
CONSTANTS Items,       \* nodes that may travel through the list
          Consumers    \* threads that take nodes out of it

VARIABLES accepted,    \* items a producer has committed to the list
          delivered,   \* items handed to a consumer
          closed       \* consumers that have left their loop

vars == <<accepted, delivered, closed>>

Init == /\ accepted = {}
        /\ delivered = {}
        /\ closed = {}

(* No item is accepted once a consumer has gone. *)
Accept(x) == /\ closed = {}
             /\ x \notin accepted
             /\ accepted' = accepted \cup {x}
             /\ UNCHANGED <<delivered, closed>>

(* Each item once, to one of the consumers still there. *)
Deliver(x) == /\ x \in accepted \ delivered
              /\ closed # Consumers
              /\ delivered' = delivered \cup {x}
              /\ UNCHANGED <<accepted, closed>>

Close(c) == /\ accepted = delivered
            /\ closed' = closed \cup {c}
            /\ UNCHANGED <<accepted, delivered>>

Next == \/ \E x \in Items : Accept(x) \/ Deliver(x)
        \/ \E c \in Consumers : Close(c)

Spec == Init /\ [][Next]_vars
=============================================================================
