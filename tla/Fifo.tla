-------------------------------- MODULE Fifo --------------------------------
(***************************************************************************)
(* What the report promises of queue.sv: "a FIFO data structure", that     *)
(* stores the bombs waiting to be processed.  Nothing that was put in is   *)
(* lost, and items leave in the order they came.                           *)
(***************************************************************************)
EXTENDS Naturals, Sequences

CONSTANTS Items, Capacity

VARIABLE items

Init == items = << >>

Put(x) == /\ Len(items) < Capacity
          /\ items' = Append(items, x)

Take == /\ items # << >>
        /\ items' = Tail(items)

(* An item leaves on the clock edge on which another one enters.           *)
TakeAndPut(x) == /\ items # << >>
                 /\ items' = Append(Tail(items), x)

Clear == items' = << >>

Next == \/ \E x \in Items : Put(x) \/ TakeAndPut(x)
        \/ Take
        \/ Clear

Spec == Init /\ [][Next]_items

=============================================================================
