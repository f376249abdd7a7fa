------------------------------ MODULE Throttle ------------------------------
(***************************************************************************)
(* What request pacing promises of the frames it lets through: frames of   *)
(* one class are at least a gap apart, and any sliding window holds at     *)
(* most MaxOrders orders.  How the waiting is done is Pacekeeper's matter. *)
(***************************************************************************)
EXTENDS Integers, Sequences

CONSTANTS
  Kinds,      \* frame classes; "order" is one of them
  Gap,        \* the least distance between two frames of a class
  Window,     \* the length of the sliding window
  MaxOrders,  \* orders a window may hold
  Never       \* no frame of the class has passed yet

VARIABLES
  now,        \* the monotonic clock
  last,       \* when the newest frame of each class was let through
  orders      \* when each order was let through

\* A frame of class k may pass now.
Spaced(k) == last[k] = Never \/ now - last[k] >= Gap[k]

\* The order MaxOrders places back has left the window.
InWindow == \/ Len(orders) < MaxOrders
            \/ now - orders[Len(orders) - MaxOrders + 1] >= Window

Admit(k) ==
  /\ Spaced(k) /\ (k = "order" => InWindow)
  /\ last' = [last EXCEPT ![k] = now]
  /\ orders' = IF k = "order" THEN Append(orders, now) ELSE orders
  /\ UNCHANGED now

Pass == now' \in Nat /\ now' > now /\ UNCHANGED <<last, orders>>

Init == now = 0 /\ last = [k \in Kinds |-> Never] /\ orders = <<>>

Next == Pass \/ \E k \in Kinds : Admit(k)

Spec == Init /\ [][Next]_<<now, last, orders>>

=============================================================================
