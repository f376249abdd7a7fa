----------------------------- MODULE Pacekeeper -----------------------------
(***************************************************************************)
(* Request pacing: Pacekeeper.wait (brokers/quotex/ghost.py), called from  *)
(* QuotexAPI._send (brokers/quotex/api.py) by every thread that sends.     *)
(* The gate's lock is held while the holder sleeps, so frames of every     *)
(* class queue behind an order that waits for its slot.  The stamp is      *)
(* taken inside the lock, the frame leaves after it: between the two a     *)
(* thread may be delayed, and the link may be gone.                        *)
(*                                                                         *)
(* Time is counted in whole units of the shortest gap.                     *)
(***************************************************************************)
EXTENDS Integers, Sequences, FiniteSets

CONSTANTS
  Senders,    \* threads: the loop, the consoles, the reader's hooks
  Nobody,     \* no thread holds the lock
  Kinds,      \* frame classes; "order" is one of them
  Gap,        \* the minimum gap of each class
  Thinks,     \* think times an order may draw
  Window,     \* the sixty seconds of the sliding window
  MaxOrders,  \* max_orders_per_min
  Never,      \* a class no frame has used yet
  MaxTime     \* bound: the clock

ASSUME PaceAssumption ==
  /\ IsFiniteSet(Senders) /\ Nobody \notin Senders
  /\ "order" \in Kinds /\ Gap \in [Kinds -> Nat]
  /\ Thinks \subseteq Nat /\ Thinks # {}
  /\ Window \in Nat \ {0} /\ MaxOrders \in Nat \ {0} /\ MaxTime \in Nat
  /\ Never \notin Nat

VARIABLES
  now,     \* clock()
  last,    \* _last: the newest stamp of each class
  orders,  \* those after popped are _order_stamps, the rest is history
  popped,  \* order stamps popped from the deque so far
  lock,    \* the thread inside wait()
  until,   \* when its sleep ends
  at,      \* each thread: "idle", "queued", "asleep" or "cleared" to send
  kind,    \* the class of the frame it is sending
  stamp,   \* history: which order stamp is its frame's; 0 for none
  wire     \* history: the order frames that left within the window

vars == <<now, last, orders, popped, lock, until, at, kind, stamp, wire>>

T == INSTANCE Throttle

---------------------------------------------------------------------------

Larger(a, b) == IF a >= b THEN a ELSE b

\* Seeded fault: stamps one unit inside the window are popped too.
ExpiredEarly(i) == orders[i] <= now + 1 - Window
\* The deque is popped up to the horizon, the horizon included.
Expired(i) == orders[i] <= now - Window

\* _window_wait, first half: the deque is popped up to its p-th stamp.
PoppedTo(p) ==
  /\ \A i \in popped + 1 .. p : Expired(i)
  /\ p < Len(orders) => ~Expired(p + 1)

\* Seeded fault: one order too many is let through.
WindowWaitLate(p) ==
  IF Len(orders) - p <= MaxOrders THEN 0
  ELSE Larger(0, orders[p + 1] + Window - now)

\* _window_wait, second half: until the oldest order left is out.
WindowWait(p) ==
  IF Len(orders) - p < MaxOrders THEN 0
  ELSE Larger(0, orders[p + 1] + Window - now)

GapWait(k) ==
  IF last[k] = Never THEN 0 ELSE Larger(0, Gap[k] - (now - last[k]))

---------------------------------------------------------------------------

Free == lock = Nobody

\* _send: a thread that has a frame for the venue queues for the gate.
Call(s) ==
  /\ at[s] = "idle"
  /\ \E k \in Kinds : kind' = [kind EXCEPT ![s] = k]
  /\ at' = [at EXCEPT ![s] = "queued"]
  /\ UNCHANGED <<now, last, orders, popped, lock, until, stamp, wire>>

\* wait(): the need is computed once, and the lock is kept for the sleep.
Enter(s) ==
  /\ at[s] = "queued" /\ Free
  /\ lock' = s
  /\ at' = [at EXCEPT ![s] = "asleep"]
  /\ IF kind[s] = "order"
     THEN \E p \in popped .. Len(orders), think \in Thinks :
            /\ PoppedTo(p) /\ popped' = p
            /\ until' = now + Larger(Larger(GapWait("order"), think),
                                     WindowWait(p))
     ELSE /\ until' = now + GapWait(kind[s])
          /\ UNCHANGED popped
  /\ UNCHANGED <<now, last, orders, kind, stamp, wire>>

\* The sleep may overrun; the stamp is the time after it.
Wake(s) ==
  /\ at[s] = "asleep" /\ now >= until
  /\ last' = [last EXCEPT ![kind[s]] = now]
  /\ orders' = IF kind[s] = "order" THEN Append(orders, now) ELSE orders
  /\ stamp' = [stamp EXCEPT ![s] = IF kind[s] = "order" THEN Len(orders) + 1 ELSE 0]
  /\ lock' = Nobody
  /\ at' = [at EXCEPT ![s] = "cleared"]
  /\ UNCHANGED <<now, popped, until, kind, wire>>

\* Outside the lock: the frame goes out, or there is no socket any more.
Leave(s) ==
  /\ at[s] = "cleared"
  /\ at' = [at EXCEPT ![s] = "idle"] /\ stamp' = [stamp EXCEPT ![s] = 0]
  /\ UNCHANGED <<now, last, orders, popped, lock, until, kind>>

Send(s) ==
  /\ Leave(s)
  /\ wire' = IF kind[s] = "order"
             THEN wire \cup {[n |-> stamp[s], by |-> s, left |-> now]} ELSE wire

SendFails(s) == Leave(s) /\ UNCHANGED wire

Tick ==
  /\ now < MaxTime
  /\ now' = now + 1
  /\ wire' = {f \in wire : f.left > now' - Window}
  /\ UNCHANGED <<last, orders, popped, lock, until, at, kind, stamp>>

Init ==
  /\ now = 0
  /\ last = [k \in Kinds |-> Never] /\ orders = <<>> /\ popped = 0
  /\ lock = Nobody /\ until = 0
  /\ at = [s \in Senders |-> "idle"]
  /\ kind = [s \in Senders |-> "order"]
  /\ stamp = [s \in Senders |-> 0] /\ wire = {}

Next == Tick \/ \E s \in Senders :
          Call(s) \/ Enter(s) \/ Wake(s) \/ Send(s) \/ SendFails(s)

Spec == Init /\ [][Next]_vars

---------------------------------------------------------------------------
(* Properties. *)

\* Types; in particular one thread at a time is inside the gate.
TypeOK ==
  /\ now \in Nat /\ orders \in Seq(Nat)
  /\ last \in [Kinds -> Nat \cup {Never}]
  /\ popped \in 0 .. Len(orders)
  /\ lock \in Senders \cup {Nobody} /\ until \in Nat
  /\ at \in [Senders -> {"idle", "queued", "asleep", "cleared"}]
  /\ kind \in [Senders -> Kinds]
  /\ stamp \in [Senders -> 0 .. Len(orders)]
  /\ wire \subseteq [n : 0 .. Len(orders), by : Senders, left : Nat]
  /\ \A s \in Senders : at[s] = "asleep" <=> lock = s

\* The deque, its lazy popping and the sleep computed before it implement the
\* promise: classes keep their gaps and no window holds too many orders, for
\* every interleaving of senders and every overrun of a sleep.
Throttled == T!Spec

\* Nobody holds the gate longer than a window, a think time or a gap, so the
\* frames that queue behind an order are late by no more than that.
SleepBounded ==
  \A s \in Senders : at[s] = "asleep" =>
    until <= now + Window \/ (\E k \in Kinds : until <= now + Gap[k])
      \/ \E think \in Thinks : until <= now + think

\* On the wire itself the limit is exceeded by the threads that were delayed
\* between their stamp and their frame, and by no more.
WireBurst == Cardinality(wire) <= MaxOrders + Cardinality(Senders)

=============================================================================
