---------------------------- MODULE BoundedQueue ----------------------------
(***************************************************************************)
(* A first-in first-out queue with a capacity: what the log's block_queue  *)
(* promises the threads that share it.                                     *)
(***************************************************************************)
EXTENDS Naturals, Sequences

CONSTANTS Item, Capacity

VARIABLE items

Init == items = <<>>

Push(x) == Len(items) < Capacity /\ items' = Append(items, x)
Pop     == items # <<>> /\ items' = Tail(items)
Clear   == items' = <<>>

Next == Pop \/ Clear \/ \E x \in Item : Push(x)

Spec == Init /\ [][Next]_items
=============================================================================
