---------------------------- MODULE BoundedQueue ----------------------------
(***************************************************************************)
(* What utils.FixedQueue promises to the load balancers that use it: the   *)
(* last Limit samples, oldest first.  A new sample pushes the oldest one   *)
(* out when the queue is full.                                             *)
(***************************************************************************)
EXTENDS Naturals, Sequences

CONSTANTS
    Limit,   \* how many samples the queue remembers
    Item     \* the samples

VARIABLE items    \* the remembered samples, oldest first

Init == items = << >>

Push(x) == items' = IF Len(items) = Limit THEN Append(Tail(items), x)
                                          ELSE Append(items, x)

Pop == items # << >> /\ items' = Tail(items)

Reset == items' = << >>

Next == (\E x \in Item : Push(x)) \/ Pop \/ Reset

Spec == Init /\ [][Next]_items
=============================================================================
