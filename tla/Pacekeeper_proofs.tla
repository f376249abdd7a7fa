-------------------------- MODULE Pacekeeper_proofs --------------------------
(***************************************************************************)
(* Pacekeeper implements Throttle, for every number of senders, every gap, *)
(* window and limit.                                                       *)
(***************************************************************************)
EXTENDS Pacekeeper, FiniteSetTheorems, TLAPS

\* The stamps are in order, those popped have left the window, and the deque
\* holds more than the limit only when its oldest has left the window too.
DequeInv ==
  /\ \A i \in 1 .. Len(orders) : orders[i] <= now
  /\ \A i \in 1 .. popped : orders[i] + Window <= now
  /\ Len(orders) - popped <= MaxOrders + 1
  /\ Len(orders) - popped = MaxOrders + 1 =>
       orders[popped + 1] + Window <= now

\* What the sleeper computed before its sleep still holds: it has the lock.
SleepInv ==
  \A s \in Senders : at[s] = "asleep" =>
    /\ last[kind[s]] # Never => until >= last[kind[s]] + Gap[kind[s]]
    /\ kind[s] = "order" =>
         /\ Len(orders) - popped <= MaxOrders
         /\ Len(orders) - popped = MaxOrders =>
              until >= orders[popped + 1] + Window

IInv == TypeOK /\ DequeInv /\ SleepInv

---------------------------------------------------------------------------

LEMMA LargerFacts ==
  ASSUME NEW a \in Int, NEW b \in Int
  PROVE  Larger(a, b) \in {a, b} /\ Larger(a, b) >= a /\ Larger(a, b) >= b
  BY DEF Larger

\* The gap of a class, waited from now, ends a gap after its newest frame.
LEMMA GapWaitFacts ==
  ASSUME TypeOK, NEW k \in Kinds
  PROVE  /\ GapWait(k) \in Nat
         /\ last[k] # Never => now + GapWait(k) >= last[k] + Gap[k]
<1>1. last[k] \in Nat \cup {Never} /\ now \in Nat /\ Gap[k] \in Nat
  BY PaceAssumption DEF TypeOK
<1>2. CASE last[k] = Never
  BY <1>1, <1>2 DEF GapWait
<1>3. CASE last[k] # Never
  <2>1. last[k] \in Nat /\ Gap[k] - (now - last[k]) \in Int
    BY <1>1, <1>3
  <2> DEFINE d == Gap[k] - (now - last[k])
  <2>2. GapWait(k) = Larger(0, d)
    BY <1>3 DEF GapWait
  <2>3. Larger(0, d) \in {0, d} /\ Larger(0, d) >= 0 /\ Larger(0, d) >= d
    BY <2>1, LargerFacts
  <2>4. Larger(0, d) \in Nat
    BY <2>1, <2>3
  <2> QED BY <1>1, <2>1, <2>2, <2>3, <2>4
<1> QED BY <1>2, <1>3

\* The wait for a slot ends when the oldest of a full window has left it.
LEMMA WindowWaitFacts ==
  ASSUME TypeOK, NEW p \in 0 .. Len(orders)
  PROVE  /\ WindowWait(p) \in Nat
         /\ Len(orders) - p >= MaxOrders =>
              now + WindowWait(p) >= orders[p + 1] + Window
<1>1. now \in Nat /\ Window \in Nat /\ MaxOrders \in Nat \ {0}
        /\ Len(orders) \in Nat /\ orders \in Seq(Nat)
  BY PaceAssumption DEF TypeOK
<1>2. CASE Len(orders) - p < MaxOrders
  BY <1>1, <1>2 DEF WindowWait
<1>3. CASE ~(Len(orders) - p < MaxOrders)
  <2>1. p + 1 \in 1 .. Len(orders)
    BY <1>1, <1>3
  <2>2. orders[p + 1] \in Nat
    BY <1>1, <2>1
  <2> DEFINE d == orders[p + 1] + Window - now
  <2>3. d \in Int
    BY <1>1, <2>2
  <2>4. WindowWait(p) = Larger(0, d)
    BY <1>3 DEF WindowWait
  <2>5. Larger(0, d) \in {0, d} /\ Larger(0, d) >= 0 /\ Larger(0, d) >= d
    BY <2>3, LargerFacts
  <2>6. Larger(0, d) \in Nat
    BY <2>3, <2>5
  <2> QED BY <1>1, <2>2, <2>3, <2>4, <2>5, <2>6
<1> QED BY <1>2, <1>3

---------------------------------------------------------------------------

LEMMA InitIInv == Init => IInv
<1> SUFFICES ASSUME Init PROVE IInv
  OBVIOUS
<1>1. TypeOK
  BY PaceAssumption DEF Init, TypeOK
<1>2. DequeInv
  BY PaceAssumption DEF Init, DequeInv
<1>3. SleepInv
  BY DEF Init, SleepInv
<1> QED BY <1>1, <1>2, <1>3 DEF IInv

\* A thread that enters computes an end of sleep that SleepInv describes.
LEMMA EnterIInv ==
  ASSUME IInv, NEW s \in Senders, Enter(s)
  PROVE  IInv'
<1> USE DEF IInv
<1>1. /\ now \in Nat /\ Window \in Nat \ {0} /\ MaxOrders \in Nat \ {0}
      /\ Len(orders) \in Nat /\ orders \in Seq(Nat) /\ popped \in 0 .. Len(orders)
      /\ kind[s] \in Kinds /\ "order" \in Kinds /\ s # Nobody
  BY PaceAssumption DEF TypeOK
<1>2. /\ lock = Nobody /\ lock' = s /\ at' = [at EXCEPT ![s] = "asleep"]
      /\ UNCHANGED <<now, last, orders, kind, stamp, wire>>
  BY DEF Enter, Free
<1>3. \A t \in Senders : at'[t] = "asleep" <=> t = s
  <2>1. /\ at \in [Senders -> {"idle", "queued", "asleep", "cleared"}]
        /\ \A t \in Senders : (at[t] = "asleep" <=> lock = t) /\ t # Nobody
    BY PaceAssumption DEF TypeOK
  <2> QED BY <1>2, <2>1
<1>4. CASE kind[s] # "order"
  <2>1. until' = now + GapWait(kind[s]) /\ popped' = popped
    BY <1>4 DEF Enter
  <2>2. GapWait(kind[s]) \in Nat
        /\ (last[kind[s]] # Never => now + GapWait(kind[s]) >= last[kind[s]] + Gap[kind[s]])
    BY <1>1, GapWaitFacts
  <2>3. TypeOK'
    BY <1>1, <1>2, <1>3, <2>1, <2>2 DEF TypeOK
  <2>4. DequeInv'
    BY <1>2, <2>1 DEF DequeInv
  <2>5. SleepInv'
    BY <1>2, <1>3, <1>4, <2>1, <2>2 DEF SleepInv
  <2> QED BY <2>3, <2>4, <2>5
<1>5. CASE kind[s] = "order"
  <2>1. PICK p \in popped .. Len(orders), think \in Thinks :
          /\ PoppedTo(p) /\ popped' = p
          /\ until' = now + Larger(Larger(GapWait("order"), think), WindowWait(p))
    BY <1>5 DEF Enter
  <2>2. p \in 0 .. Len(orders) /\ think \in Nat
    BY <1>1, <2>1, PaceAssumption
  <2>3. /\ GapWait("order") \in Nat
        /\ last["order"] # Never => now + GapWait("order") >= last["order"] + Gap["order"]
    BY <1>1, GapWaitFacts
  <2>4. /\ WindowWait(p) \in Nat
        /\ Len(orders) - p >= MaxOrders =>
             now + WindowWait(p) >= orders[p + 1] + Window
    BY <2>2, WindowWaitFacts
  <2> DEFINE m == Larger(GapWait("order"), think)
             w == Larger(m, WindowWait(p))
  <2>5. m \in Nat /\ m >= GapWait("order")
    BY <2>2, <2>3, LargerFacts
  <2>6. w \in Nat /\ w >= m /\ w >= WindowWait(p)
    BY <2>4, <2>5, LargerFacts
  <2>7. until' = now + w
    BY <2>1
  <2> HIDE DEF m, w
  <2>8. TypeOK'
    BY <1>1, <1>2, <1>3, <2>1, <2>2, <2>6, <2>7 DEF TypeOK
  <2>9. \A i \in popped + 1 .. p : orders[i] + Window <= now
    <3>1. \A i \in popped + 1 .. p : orders[i] \in Nat /\ Expired(i)
      BY <1>1, <2>1, <2>2 DEF PoppedTo
    <3> QED BY <1>1, <3>1 DEF Expired
  <2>10. Len(orders) - p <= MaxOrders
    <3>1. CASE p > popped
      BY <1>1, <2>2, <3>1 DEF DequeInv
    <3>2. CASE p = popped /\ Len(orders) - popped = MaxOrders + 1
      <4>1. p < Len(orders) /\ p + 1 \in 1 .. Len(orders)
        BY <1>1, <3>2
      <4>2. orders[p + 1] \in Nat /\ orders[p + 1] + Window <= now
        BY <1>1, <3>2, <4>1 DEF DequeInv
      <4>3. Expired(p + 1)
        BY <1>1, <4>2 DEF Expired
      <4> QED BY <2>1, <4>1, <4>3 DEF PoppedTo
    <3>3. CASE p = popped /\ Len(orders) - popped # MaxOrders + 1
      BY <1>1, <3>3 DEF DequeInv
    <3> QED BY <1>1, <2>1, <3>1, <3>2, <3>3
  <2>11. \A i \in 1 .. p : orders[i] + Window <= now
    BY <1>1, <2>1, <2>2, <2>9 DEF DequeInv
  <2>12. DequeInv'
    BY <1>1, <1>2, <2>1, <2>2, <2>10, <2>11 DEF DequeInv
  <2>13. last["order"] # Never => until' >= last["order"] + Gap["order"]
    <3> SUFFICES ASSUME last["order"] # Never
                 PROVE  until' >= last["order"] + Gap["order"]
      OBVIOUS
    <3>1. last["order"] \in Nat /\ Gap["order"] \in Nat
      BY <1>1, PaceAssumption DEF TypeOK
    <3> QED BY <1>1, <2>3, <2>5, <2>6, <2>7, <3>1
  <2>14. Len(orders) - p = MaxOrders => until' >= orders[p + 1] + Window
    <3> SUFFICES ASSUME Len(orders) - p = MaxOrders
                 PROVE  until' >= orders[p + 1] + Window
      OBVIOUS
    <3>1. orders[p + 1] \in Nat
      BY <1>1, <2>2
    <3> QED BY <1>1, <2>4, <2>6, <2>7, <3>1
  <2>15. SleepInv'
    BY <1>2, <1>3, <1>5, <2>1, <2>10, <2>13, <2>14 DEF SleepInv
  <2> QED BY <2>8, <2>12, <2>15
<1> QED BY <1>4, <1>5

\* The sleeper's stamp: the deque grows by one, and by its newest.
LEMMA WakeIInv ==
  ASSUME IInv, NEW s \in Senders, Wake(s)
  PROVE  IInv'
<1> USE DEF IInv
<1>1. /\ now \in Nat /\ Window \in Nat \ {0} /\ MaxOrders \in Nat \ {0}
      /\ Len(orders) \in Nat /\ orders \in Seq(Nat) /\ popped \in 0 .. Len(orders)
      /\ kind[s] \in Kinds /\ until \in Nat
      /\ at \in [Senders -> {"idle", "queued", "asleep", "cleared"}]
      /\ last \in [Kinds -> Nat \cup {Never}]
  BY PaceAssumption DEF TypeOK
<1>2. /\ at[s] = "asleep" /\ now >= until
      /\ last' = [last EXCEPT ![kind[s]] = now]
      /\ orders' = IF kind[s] = "order" THEN Append(orders, now) ELSE orders
      /\ lock' = Nobody /\ at' = [at EXCEPT ![s] = "cleared"]
      /\ stamp' = [stamp EXCEPT ![s] = IF kind[s] = "order" THEN Len(orders) + 1 ELSE 0]
      /\ UNCHANGED <<now, popped, until, kind, wire>>
  BY DEF Wake
<1>3. \A t \in Senders : at'[t] # "asleep" /\ t # Nobody
  <2>1. \A t \in Senders : (at[t] = "asleep" <=> lock = t) /\ t # Nobody
    BY PaceAssumption DEF TypeOK
  <2> QED BY <1>1, <1>2, <2>1
<1>4. /\ orders' \in Seq(Nat) /\ popped \in 0 .. Len(orders')
      /\ Len(orders') = IF kind[s] = "order" THEN Len(orders) + 1 ELSE Len(orders)
  BY <1>1, <1>2
<1>5. TypeOK'
  <2>1. 0 .. Len(orders) \subseteq 0 .. Len(orders')
    BY <1>1, <1>4
  <2>2. stamp \in [Senders -> 0 .. Len(orders)]
        /\ wire \subseteq [n : 0 .. Len(orders), by : Senders, left : Nat]
    BY DEF TypeOK
  <2>3. wire' \subseteq [n : 0 .. Len(orders'), by : Senders, left : Nat]
    BY <1>2, <2>1, <2>2
  <2>4. (IF kind[s] = "order" THEN Len(orders) + 1 ELSE 0) \in 0 .. Len(orders')
    BY <1>1, <1>4
  <2>5. stamp' \in [Senders -> 0 .. Len(orders')]
    BY <1>2, <2>1, <2>2, <2>4
  <2> QED BY <1>1, <1>2, <1>3, <1>4, <2>3, <2>5 DEF TypeOK
<1>6. SleepInv'
  BY <1>3 DEF SleepInv
<1>7. CASE kind[s] # "order"
  BY <1>2, <1>5, <1>6, <1>7 DEF DequeInv
<1>8. CASE kind[s] = "order"
  <2>1. orders' = Append(orders, now) /\ Len(orders') = Len(orders) + 1
        /\ (\A i \in 1 .. Len(orders) : orders'[i] = orders[i])
        /\ orders'[Len(orders) + 1] = now
    BY <1>1, <1>2, <1>8
  <2>2. /\ Len(orders) - popped <= MaxOrders
        /\ Len(orders) - popped = MaxOrders =>
             until >= orders[popped + 1] + Window
    BY <1>2, <1>8 DEF SleepInv
  <2>3. \A i \in 1 .. Len(orders') : orders'[i] <= now
    BY <1>1, <2>1 DEF DequeInv
  <2>4. \A i \in 1 .. popped : orders'[i] + Window <= now
    BY <1>1, <2>1 DEF DequeInv
  <2>5. Len(orders') - popped = MaxOrders + 1 =>
          orders'[popped + 1] + Window <= now
    <3> SUFFICES ASSUME Len(orders') - popped = MaxOrders + 1
                 PROVE  orders'[popped + 1] + Window <= now
      OBVIOUS
    <3>1. popped + 1 \in 1 .. Len(orders)
      BY <1>1, <2>1
    <3>2. orders'[popped + 1] = orders[popped + 1] /\ orders[popped + 1] \in Nat
      BY <1>1, <2>1, <3>1
    <3> QED BY <1>1, <1>2, <2>1, <2>2, <3>2
  <2>6. DequeInv'
    BY <1>1, <1>2, <2>1, <2>2, <2>3, <2>4, <2>5 DEF DequeInv
  <2> QED BY <1>5, <1>6, <2>6
<1> QED BY <1>7, <1>8

LEMMA TickIInv ==
  ASSUME IInv, Tick
  PROVE  IInv'
<1> USE DEF IInv
<1>1. /\ now \in Nat /\ Window \in Nat
      /\ Len(orders) \in Nat /\ orders \in Seq(Nat) /\ popped \in 0 .. Len(orders)
      /\ MaxOrders \in Nat
  BY PaceAssumption DEF TypeOK
<1>2. /\ now' = now + 1
      /\ wire' \subseteq wire
      /\ UNCHANGED <<last, orders, popped, lock, until, at, kind, stamp>>
  BY DEF Tick
<1>3. wire' \subseteq [n : 0 .. Len(orders), by : Senders, left : Nat]
  BY <1>2 DEF TypeOK
<1>4. TypeOK'
  BY <1>1, <1>2, <1>3 DEF TypeOK
<1>5. DequeInv'
  <2>1. \A i \in 1 .. Len(orders) : orders[i] \in Nat
    BY <1>1
  <2> QED BY <1>1, <1>2, <2>1 DEF DequeInv
<1>6. SleepInv'
  BY <1>2 DEF SleepInv
<1> QED BY <1>4, <1>5, <1>6

\* The steps outside the gate leave the stamps and the sleeper alone.
LEMMA OutsideIInv ==
  ASSUME IInv, NEW s \in Senders, Call(s) \/ Send(s) \/ SendFails(s)
  PROVE  IInv'
<1> USE DEF IInv
<1>1. /\ at[s] # "asleep" /\ at'[s] # "asleep"
      /\ \A t \in Senders \ {s} : at'[t] = at[t] /\ kind'[t] = kind[t]
      /\ at' \in [Senders -> {"idle", "queued", "asleep", "cleared"}]
      /\ kind' \in [Senders -> Kinds]
  BY DEF Call, Send, SendFails, Leave, TypeOK
<1>2. UNCHANGED <<now, last, orders, popped, lock, until>>
  BY DEF Call, Send, SendFails, Leave
<1>3. /\ wire' \subseteq [n : 0 .. Len(orders), by : Senders, left : Nat]
      /\ stamp' \in [Senders -> 0 .. Len(orders)]
  <2>1. /\ wire \subseteq [n : 0 .. Len(orders), by : Senders, left : Nat]
        /\ stamp \in [Senders -> 0 .. Len(orders)] /\ now \in Nat /\ Len(orders) \in Nat
    BY DEF TypeOK
  <2>2. [n |-> stamp[s], by |-> s, left |-> now] \in [n : 0 .. Len(orders), by : Senders, left : Nat]
    BY <2>1
  <2>3. wire' \subseteq wire \cup {[n |-> stamp[s], by |-> s, left |-> now]}
    BY DEF Call, Send, SendFails, Leave
  <2>4. stamp' = stamp \/ stamp' = [stamp EXCEPT ![s] = 0]
    BY DEF Call, Send, SendFails, Leave
  <2> QED BY <2>1, <2>2, <2>3, <2>4
<1>4. TypeOK'
  BY <1>1, <1>2, <1>3 DEF TypeOK
<1>5. DequeInv'
  BY <1>2 DEF DequeInv
<1>6. SleepInv'
  BY <1>1, <1>2 DEF SleepInv
<1> QED BY <1>4, <1>5, <1>6

LEMMA NextIInv == IInv /\ [Next]_vars => IInv'
<1> SUFFICES ASSUME IInv, [Next]_vars PROVE IInv'
  OBVIOUS
<1>1. CASE Tick
  BY <1>1, TickIInv
<1>2. ASSUME NEW s \in Senders, Call(s) \/ Send(s) \/ SendFails(s)
      PROVE  IInv'
  BY <1>2, OutsideIInv
<1>3. ASSUME NEW s \in Senders, Enter(s) PROVE IInv'
  BY <1>3, EnterIInv
<1>4. ASSUME NEW s \in Senders, Wake(s) PROVE IInv'
  BY <1>4, WakeIInv
<1>5. CASE UNCHANGED vars
  BY <1>5 DEF vars, IInv, TypeOK, DequeInv, SleepInv
<1> QED BY <1>1, <1>2, <1>3, <1>4, <1>5 DEF Next

\* One thread at a time is inside the gate of Pacekeeper.wait.
THEOREM PaceTypeCorrect == Spec => []TypeOK
<1>1. IInv => TypeOK
  BY DEF IInv
<1> QED BY InitIInv, NextIInv, <1>1, PTL DEF Spec

---------------------------------------------------------------------------

\* A stamp is a frame Throttle admits.
LEMMA WakeAdmits ==
  ASSUME IInv, NEW s \in Senders, Wake(s)
  PROVE  T!Admit(kind[s])
<1> USE DEF IInv
<1>1. /\ now \in Nat /\ Window \in Nat \ {0} /\ MaxOrders \in Nat \ {0}
      /\ Len(orders) \in Nat /\ orders \in Seq(Nat) /\ popped \in 0 .. Len(orders)
      /\ kind[s] \in Kinds /\ until \in Nat /\ Gap \in [Kinds -> Nat]
      /\ last \in [Kinds -> Nat \cup {Never}]
  BY PaceAssumption DEF TypeOK
<1>2. /\ at[s] = "asleep" /\ now >= until
      /\ last' = [last EXCEPT ![kind[s]] = now]
      /\ orders' = IF kind[s] = "order" THEN Append(orders, now) ELSE orders
      /\ UNCHANGED now
  BY DEF Wake
<1>3. T!Spaced(kind[s])
  <2>1. last[kind[s]] # Never => until >= last[kind[s]] + Gap[kind[s]]
    BY <1>2 DEF SleepInv
  <2>2. last[kind[s]] \in Nat \cup {Never} /\ Gap[kind[s]] \in Nat
    BY <1>1
  <2> QED BY <1>1, <1>2, <2>1, <2>2 DEF T!Spaced
<1>4. ASSUME kind[s] = "order" PROVE T!InWindow
  <2>1. /\ Len(orders) - popped <= MaxOrders
        /\ Len(orders) - popped = MaxOrders =>
             until >= orders[popped + 1] + Window
    BY <1>2, <1>4 DEF SleepInv
  <2> DEFINE i == Len(orders) - MaxOrders + 1
  <2>2. CASE Len(orders) < MaxOrders
    BY <2>2 DEF T!InWindow
  <2>3. CASE Len(orders) >= MaxOrders
    <3>1. i \in 1 .. Len(orders) /\ orders[i] \in Nat
      BY <1>1, <2>3
    <3>2. CASE i <= popped
      BY <1>1, <3>1, <3>2 DEF DequeInv, T!InWindow
    <3>3. CASE i > popped
      <4>1. i = popped + 1 /\ Len(orders) - popped = MaxOrders
        <5>1. Len(orders) \in Int /\ popped \in Int /\ MaxOrders \in Int
          BY <1>1
        <5> QED BY <5>1, <2>1, <3>3, SMT
      <4>2. until >= orders[i] + Window
        BY <2>1, <4>1
      <4> QED BY <1>1, <1>2, <3>1, <4>2 DEF T!InWindow
    <3> QED BY <1>1, <3>2, <3>3
  <2> QED BY <1>1, <2>2, <2>3
<1> QED BY <1>2, <1>3, <1>4 DEF T!Admit

\* Pacing keeps its promise: whatever the threads and their delays, the frames
\* wait() lets through keep the gaps of their class and the order window.
THEOREM PaceThrottles == Spec => Throttled
<1>1. Init => T!Init
  BY DEF Init, T!Init
<1>2. IInv /\ [Next]_vars => [T!Next]_<<now, last, orders>>
  <2> SUFFICES ASSUME IInv, [Next]_vars
               PROVE  [T!Next]_<<now, last, orders>>
    OBVIOUS
  <2>1. CASE Tick
    <3>1. now \in Nat
      BY DEF IInv, TypeOK
    <3> QED BY <2>1, <3>1 DEF Tick, T!Next, T!Pass
  <2>2. ASSUME NEW s \in Senders, Wake(s) PROVE T!Next
    <3>1. kind[s] \in Kinds
      BY DEF IInv, TypeOK
    <3> QED BY <2>2, <3>1, WakeAdmits DEF T!Next
  <2>3. ASSUME NEW s \in Senders, Call(s) \/ Enter(s) \/ Send(s) \/ SendFails(s)
        PROVE  UNCHANGED <<now, last, orders>>
    BY <2>3 DEF Call, Enter, Send, SendFails, Leave
  <2>4. CASE UNCHANGED vars
    BY <2>4 DEF vars
  <2> QED BY <2>1, <2>2, <2>3, <2>4 DEF Next
<1> QED BY InitIInv, NextIInv, <1>1, <1>2, PTL DEF Spec, Throttled, T!Spec

---------------------------------------------------------------------------
(* How long the gate is held. *)

\* A stamp is of the past, and the sleeper's end is within its bounds.
StampsInv == (\A k \in Kinds : last[k] # Never => last[k] <= now) /\ SleepBounded

LEMMA GapWaitBounded ==
  ASSUME IInv, StampsInv, NEW k \in Kinds
  PROVE  GapWait(k) \in Nat /\ (GapWait(k) = 0 \/ GapWait(k) <= Gap[k])
<1>1. now \in Nat /\ Gap[k] \in Nat /\ (last[k] # Never => last[k] \in Nat /\ last[k] <= now)
  BY PaceAssumption DEF IInv, TypeOK, StampsInv
<1>2. CASE last[k] = Never
  BY <1>1, <1>2 DEF GapWait
<1>3. CASE last[k] # Never
  BY <1>1, <1>3, LargerFacts DEF GapWait, Larger
<1> QED BY <1>2, <1>3

LEMMA WindowWaitBounded ==
  ASSUME IInv, NEW p \in popped .. Len(orders)
  PROVE  WindowWait(p) \in Nat /\ WindowWait(p) <= Window
<1>1. /\ now \in Nat /\ Window \in Nat /\ MaxOrders \in Nat /\ MaxOrders > 0
      /\ orders \in Seq(Nat) /\ p \in Nat /\ p <= Len(orders)
  BY PaceAssumption DEF IInv, TypeOK
<1>2. CASE Len(orders) - p < MaxOrders
  BY <1>1, <1>2 DEF WindowWait
<1>3. CASE ~(Len(orders) - p < MaxOrders)
  <2>1. p + 1 \in 1 .. Len(orders)
    BY <1>1, <1>3
  <2>2. orders[p + 1] \in Nat /\ orders[p + 1] <= now
    BY <1>1, <2>1 DEF IInv, DequeInv
  <2> QED BY <1>1, <1>3, <2>2 DEF WindowWait, Larger
<1> QED BY <1>2, <1>3

\* Nobody holds the gate (Pacekeeper.wait) longer than a window, a gap or a
\* think time, so frames that queue behind an order are late by no more.
THEOREM SleepsEnd == Spec => []SleepBounded
<1>1. Init => StampsInv
  BY DEF Init, StampsInv, SleepBounded
<1>2. IInv /\ StampsInv /\ [Next]_vars => StampsInv'
  <2> SUFFICES ASSUME IInv, StampsInv, [Next]_vars PROVE StampsInv'
    OBVIOUS
  <2>1. /\ now \in Nat /\ Window \in Nat /\ until \in Nat
        /\ \A k \in Kinds : last[k] \in Nat \cup {Never}
        /\ \A k \in Kinds : Gap[k] \in Nat
        /\ \A think \in Thinks : think \in Nat
        /\ at \in [Senders -> {"idle", "queued", "asleep", "cleared"}]
    BY PaceAssumption DEF IInv, TypeOK
  <2>2. CASE UNCHANGED vars
    BY <2>2 DEF vars, StampsInv, SleepBounded
  <2>3. CASE Tick
    <3>1. now' = now + 1 /\ UNCHANGED <<last, at, until>>
      BY <2>3 DEF Tick
    <3>2. \A k \in Kinds : last'[k] # Never => last'[k] <= now'
      BY <2>1, <3>1 DEF StampsInv
    <3>3. SleepBounded'
      BY <2>1, <3>1 DEF StampsInv, SleepBounded
    <3> QED BY <3>2, <3>3 DEF StampsInv
  <2>4. ASSUME NEW s \in Senders, Call(s) \/ Send(s) \/ SendFails(s)
        PROVE  StampsInv'
    <3>1. UNCHANGED <<now, last, until>>
      BY <2>4 DEF Call, Send, SendFails, Leave
    <3>2. \A t \in Senders : at'[t] = "asleep" => at[t] = "asleep"
      BY <2>1, <2>4 DEF Call, Send, SendFails, Leave
    <3> QED BY <3>1, <3>2 DEF StampsInv, SleepBounded
  <2>5. ASSUME NEW s \in Senders, Enter(s) PROVE StampsInv'
    <3>1. now' = now /\ last' = last /\ kind[s] \in Kinds /\ "order" \in Kinds
      BY <2>5, PaceAssumption DEF Enter, IInv, TypeOK
    <3>2. \/ until' <= now + Window
          \/ \E k \in Kinds : until' <= now + Gap[k]
          \/ \E think \in Thinks : until' <= now + think
      <4>1. CASE kind[s] # "order"
        <5>1. until' = now + GapWait(kind[s])
          BY <2>5, <4>1 DEF Enter
        <5> QED BY <2>1, <3>1, <5>1, GapWaitBounded
      <4>2. CASE kind[s] = "order"
        <5>1. PICK p \in popped .. Len(orders), think \in Thinks :
                until' = now + Larger(Larger(GapWait("order"), think), WindowWait(p))
          BY <2>5, <4>2 DEF Enter
        <5>2. GapWait("order") \in Nat /\ WindowWait(p) \in Nat /\ think \in Nat
              /\ WindowWait(p) <= Window
              /\ (GapWait("order") = 0 \/ GapWait("order") <= Gap["order"])
          BY <2>1, <3>1, GapWaitBounded, WindowWaitBounded
        <5>3. \/ until' = now + GapWait("order")
              \/ until' = now + think
              \/ until' = now + WindowWait(p)
          BY <5>1, <5>2 DEF Larger
        <5> QED BY <2>1, <3>1, <5>2, <5>3
      <4> QED BY <4>1, <4>2
    <3> QED BY <3>1, <3>2 DEF StampsInv, SleepBounded
  <2>6. ASSUME NEW s \in Senders, Wake(s) PROVE StampsInv'
    <3>1. /\ now' = now /\ until' = until
          /\ last' = [last EXCEPT ![kind[s]] = now]
          /\ at' = [at EXCEPT ![s] = "cleared"]
      BY <2>6 DEF Wake
    <3>2. \A t \in Senders : at'[t] = "asleep" => at[t] = "asleep"
      BY <2>1, <3>1
    <3>3. last \in [Kinds -> Nat \cup {Never}]
      BY DEF IInv, TypeOK
    <3>4. \A k \in Kinds : last'[k] = now \/ last'[k] = last[k]
      BY <3>1, <3>3
    <3> QED BY <2>1, <3>1, <3>2, <3>4 DEF StampsInv, SleepBounded
  <2> QED BY <2>2, <2>3, <2>4, <2>5, <2>6 DEF Next
<1>3. StampsInv => SleepBounded
  BY DEF StampsInv
<1> QED BY InitIInv, NextIInv, <1>1, <1>2, <1>3, PTL DEF Spec

---------------------------------------------------------------------------
(* The wire itself. *)

\* The stamps are in order, and MaxOrders apart they are a window apart.
StampsSpread ==
  /\ \A i, j \in 1 .. Len(orders) : i < j => orders[i] <= orders[j]
  /\ \A i, j \in 1 .. Len(orders) : j = i + MaxOrders => orders[i] + Window <= orders[j]

\* A frame has its own stamp; the frames of one thread leave one after the
\* other, and each is stamped after the one before has left.
FramesInTurn ==
  /\ \A s \in Senders : stamp[s] # 0 => at[s] = "cleared"
  /\ \A s \in Senders : at[s] = "cleared" /\ kind[s] = "order" => stamp[s] # 0
  /\ \A s, t \in Senders : stamp[s] # 0 /\ stamp[s] = stamp[t] => s = t
  /\ \A f \in wire : f.n # 0 /\ f.left <= now /\ f.left > now - Window
  /\ \A f \in wire, s \in Senders : stamp[s] # f.n
  /\ \A f \in wire : stamp[f.by] # 0 => orders[stamp[f.by]] >= f.left
  /\ \A f, g \in wire : f.n = g.n => f = g
  /\ \A f, g \in wire : f.by = g.by /\ f # g =>
       orders[f.n] >= g.left \/ orders[g.n] >= f.left

LEMMA SpreadKept ==
  ASSUME IInv, StampsSpread, [Next]_vars
  PROVE  StampsSpread'
<1>1. /\ now \in Nat /\ Window \in Nat \ {0} /\ MaxOrders \in Nat \ {0}
      /\ Len(orders) \in Nat /\ orders \in Seq(Nat)
      /\ \A i \in 1 .. Len(orders) : orders[i] \in Nat /\ orders[i] <= now
  BY PaceAssumption DEF IInv, TypeOK, DequeInv
<1>2. ASSUME NEW s \in Senders, Wake(s), kind[s] = "order" PROVE StampsSpread'
  <2> DEFINE n == Len(orders)
  <2>1. orders' = Append(orders, now) /\ T!InWindow
    BY <1>2, WakeAdmits DEF Wake, T!Admit
  <2>2. /\ Len(orders') = n + 1 /\ orders'[n + 1] = now
        /\ \A i \in 1 .. n : orders'[i] = orders[i]
    BY <1>1, <2>1
  <2>3. \A i \in 1 .. n : n + 1 = i + MaxOrders => orders[i] + Window <= now
    <3> SUFFICES ASSUME NEW i \in 1 .. n, n + 1 = i + MaxOrders PROVE orders[i] + Window <= now
      OBVIOUS
    <3>1. n - MaxOrders + 1 = i /\ ~(n < MaxOrders)
      BY <1>1
    <3>2. now - orders[i] >= Window
      BY <2>1, <3>1 DEF T!InWindow
    <3>3. orders[i] \in Nat
      BY <1>1
    <3> QED BY <1>1, <3>2, <3>3
  <2>4. n \in Nat /\ \A i \in 1 .. n + 1 : i \in 1 .. n \/ i = n + 1
    BY <1>1
  <2> HIDE DEF n
  <2>5. ASSUME NEW i \in 1 .. n + 1, NEW j \in 1 .. n + 1
        PROVE  /\ i < j => orders'[i] <= orders'[j]
               /\ j = i + MaxOrders => orders'[i] + Window <= orders'[j]
    <3>1. CASE i \in 1 .. n /\ j \in 1 .. n
      BY <2>2, <3>1 DEF StampsSpread, n
    <3>2. CASE i \in 1 .. n /\ j = n + 1
      <4>1. orders'[i] = orders[i] /\ orders'[j] = now /\ orders[i] <= now
        BY <1>1, <2>2, <3>2 DEF n
      <4> QED BY <2>3, <3>2, <4>1
    <3>3. CASE i = n + 1
      BY <1>1, <2>4, <3>3
    <3> QED BY <2>4, <3>1, <3>2, <3>3
  <2> QED BY <2>2, <2>5 DEF StampsSpread
<1>3. ASSUME NEW s \in Senders, Wake(s), kind[s] # "order" PROVE StampsSpread'
  BY <1>3 DEF Wake, StampsSpread
<1>4. CASE ~\E s \in Senders : Wake(s)
  <2>1. orders' = orders
    BY <1>4 DEF Next, Tick, Call, Enter, Send, SendFails, Leave, vars
  <2> QED BY <2>1 DEF StampsSpread
<1> QED BY <1>2, <1>3, <1>4

LEMMA TurnsKept ==
  ASSUME IInv, FramesInTurn, [Next]_vars
  PROVE  FramesInTurn'
<1>1. /\ now \in Nat /\ Window \in Nat \ {0}
      /\ Len(orders) \in Nat /\ orders \in Seq(Nat)
      /\ \A i \in 1 .. Len(orders) : orders[i] \in Nat
      /\ stamp \in [Senders -> 0 .. Len(orders)]
      /\ at \in [Senders -> {"idle", "queued", "asleep", "cleared"}]
      /\ kind \in [Senders -> Kinds]
      /\ \A f \in wire : f.n \in 0 .. Len(orders) /\ f.by \in Senders /\ f.left \in Nat
  BY PaceAssumption DEF IInv, TypeOK
<1>2. CASE Tick
  <2>1. /\ now' = now + 1 /\ wire' = {f \in wire : f.left > now' - Window}
        /\ UNCHANGED <<orders, at, kind, stamp>>
    BY <1>2 DEF Tick
  <2>2. \A f \in wire' : f.n # 0 /\ f.left <= now' /\ f.left > now' - Window
    BY <1>1, <2>1 DEF FramesInTurn
  <2> QED BY <2>1, <2>2 DEF FramesInTurn
<1>3. ASSUME NEW s \in Senders, Call(s) \/ Enter(s) PROVE FramesInTurn'
  <2>1. /\ UNCHANGED <<now, orders, stamp, wire>>
        /\ at[s] # "cleared" /\ at'[s] # "cleared"
        /\ \A t \in Senders : t # s => at'[t] = at[t] /\ kind'[t] = kind[t]
    BY <1>1, <1>3 DEF Call, Enter
  <2>2. \A t \in Senders : (stamp[t] # 0 => at'[t] = "cleared")
                           /\ (at'[t] = "cleared" /\ kind'[t] = "order" => stamp[t] # 0)
    BY <2>1 DEF FramesInTurn
  <2> QED BY <2>1, <2>2 DEF FramesInTurn
<1>4. ASSUME NEW s \in Senders, Wake(s) PROVE FramesInTurn'
  <2> DEFINE n == Len(orders)
  <2>1. /\ at' = [at EXCEPT ![s] = "cleared"] /\ at[s] = "asleep"
        /\ stamp' = [stamp EXCEPT ![s] = IF kind[s] = "order" THEN n + 1 ELSE 0]
        /\ orders' = IF kind[s] = "order" THEN Append(orders, now) ELSE orders
        /\ UNCHANGED <<now, kind, wire>>
    BY <1>4 DEF Wake
  <2>2. stamp[s] = 0
    BY <2>1 DEF FramesInTurn
  <2>3. \A t \in Senders : t # s => stamp'[t] = stamp[t] /\ at'[t] = at[t]
    BY <1>1, <2>1
  <2>4. at'[s] = "cleared" /\ (kind[s] # "order" => stamp'[s] = 0)
        /\ (kind[s] = "order" => stamp'[s] = n + 1)
    BY <1>1, <2>1
  <2>5. /\ \A i \in 1 .. n : orders'[i] = orders[i]
        /\ kind[s] = "order" => orders'[n + 1] = now
    BY <1>1, <2>1
  <2>6. n \in Nat /\ n + 1 # 0 /\ n + 1 \notin 0 .. n
        /\ \A t \in Senders : stamp[t] \in 0 .. n
    BY <1>1
  <2> HIDE DEF n
  <2>7. \A t \in Senders : stamp'[t] # 0 => at'[t] = "cleared"
    BY <2>3, <2>4 DEF FramesInTurn
  <2>8. \A t \in Senders : at'[t] = "cleared" /\ kind'[t] = "order" => stamp'[t] # 0
    BY <2>1, <2>3, <2>4, <2>6 DEF FramesInTurn
  <2>9. \A t, u \in Senders : stamp'[t] # 0 /\ stamp'[t] = stamp'[u] => t = u
    BY <2>3, <2>4, <2>6 DEF FramesInTurn
  <2>10. \A f \in wire, t \in Senders : stamp'[t] # f.n
    <3>1. \A f \in wire : f.n # 0 /\ f.n # n + 1
      BY <1>1, <2>6 DEF FramesInTurn, n
    <3> QED BY <2>3, <2>4, <3>1 DEF FramesInTurn
  <2>11. \A f \in wire : stamp'[f.by] # 0 => orders'[stamp'[f.by]] >= f.left
    <3> SUFFICES ASSUME NEW f \in wire, stamp'[f.by] # 0 PROVE orders'[stamp'[f.by]] >= f.left
      OBVIOUS
    <3>1. CASE f.by = s
      <4>1. orders'[stamp'[f.by]] = now /\ f.left <= now /\ f.left \in Nat
        BY <1>1, <2>4, <2>5, <3>1 DEF FramesInTurn
      <4> QED BY <1>1, <4>1
    <3>2. CASE f.by # s
      <4>1. stamp'[f.by] = stamp[f.by] /\ stamp[f.by] \in 0 .. n /\ stamp[f.by] # 0
        BY <1>1, <2>3, <2>6, <3>2
      <4>2. stamp[f.by] \in 1 .. n
        BY <2>6, <4>1
      <4> QED BY <2>5, <4>1, <4>2 DEF FramesInTurn
    <3> QED BY <3>1, <3>2
  <2>12. \A f \in wire : orders'[f.n] = orders[f.n]
    <3>1. \A f \in wire : f.n \in 1 .. n
      <4>1. \A f \in wire : f.n \in 0 .. n /\ f.n # 0
        BY <1>1 DEF FramesInTurn, n
      <4> QED BY <2>6, <4>1
    <3> QED BY <2>5, <3>1
  <2> QED BY <2>1, <2>7, <2>8, <2>9, <2>10, <2>11, <2>12 DEF FramesInTurn
<1>5. ASSUME NEW s \in Senders, Send(s) \/ SendFails(s) PROVE FramesInTurn'
  <2> DEFINE f == [n |-> stamp[s], by |-> s, left |-> now]
  <2>1. /\ at[s] = "cleared" /\ at' = [at EXCEPT ![s] = "idle"]
        /\ stamp' = [stamp EXCEPT ![s] = 0]
        /\ UNCHANGED <<now, orders, kind>>
        /\ wire' = wire \/ (kind[s] = "order" /\ wire' = wire \cup {f})
    BY <1>5 DEF Send, SendFails, Leave
  <2>2. /\ stamp'[s] = 0 /\ at'[s] = "idle"
        /\ \A t \in Senders : t # s => stamp'[t] = stamp[t] /\ at'[t] = at[t]
    BY <1>1, <2>1
  <2>3. f.n = stamp[s] /\ f.by = s /\ f.left = now
    OBVIOUS
  <2>4. kind[s] = "order" => f.n # 0
    BY <2>1 DEF FramesInTurn
  <2> HIDE DEF f
  <2>5. \A t \in Senders : /\ stamp'[t] # 0 => at'[t] = "cleared"
                           /\ at'[t] = "cleared" /\ kind'[t] = "order" => stamp'[t] # 0
    BY <2>1, <2>2 DEF FramesInTurn
  <2>6. \A t, u \in Senders : stamp'[t] # 0 /\ stamp'[t] = stamp'[u] => t = u
    BY <2>2 DEF FramesInTurn
  <2>7. CASE wire' = wire
    <3>1. \A g \in wire, t \in Senders : stamp'[t] # g.n
      BY <2>2 DEF FramesInTurn
    <3>2. \A g \in wire : stamp'[g.by] # 0 => orders[stamp'[g.by]] >= g.left
      BY <1>1, <2>2 DEF FramesInTurn
    <3> QED BY <2>1, <2>5, <2>6, <2>7, <3>1, <3>2 DEF FramesInTurn
  <2>8. CASE kind[s] = "order" /\ wire' = wire \cup {f}
    <3>1. now <= now /\ now > now - Window
      BY <1>1
    <3>2. \A g \in wire' : g.n # 0 /\ g.left <= now /\ g.left > now - Window
      BY <2>3, <2>4, <2>8, <3>1 DEF FramesInTurn
    <3>3. \A g \in wire', t \in Senders : stamp'[t] # g.n
      BY <2>2, <2>3, <2>4, <2>8 DEF FramesInTurn
    <3>4. \A g \in wire' : stamp'[g.by] # 0 => orders[stamp'[g.by]] >= g.left
      BY <1>1, <2>2, <2>3, <2>8 DEF FramesInTurn
    <3>5. \A g, h \in wire' : g.n = h.n => g = h
      BY <2>3, <2>8 DEF FramesInTurn
    <3>6. \A g, h \in wire' : g.by = h.by /\ g # h => orders[g.n] >= h.left \/ orders[h.n] >= g.left
      <4>1. \A g \in wire : g.by = s => orders[f.n] >= g.left
        BY <2>3, <2>4, <2>8 DEF FramesInTurn
      <4> QED BY <2>3, <2>8, <4>1 DEF FramesInTurn
    <3> QED BY <2>1, <2>5, <2>6, <3>2, <3>3, <3>4, <3>5, <3>6 DEF FramesInTurn
  <2> QED BY <2>1, <2>7, <2>8
<1>6. CASE UNCHANGED vars
  BY <1>6 DEF vars, FramesInTurn
<1> QED BY <1>2, <1>3, <1>4, <1>5, <1>6 DEF Next

\* Frames whose stamp is still in the window have one of the last MaxOrders
\* stamps; of the others each thread has one at most.
LEMMA BurstBounded ==
  ASSUME IInv, StampsSpread, FramesInTurn
  PROVE  WireBurst
<1> DEFINE n == Len(orders)
           Fresh == {f \in wire : orders[f.n] > now - Window}
           Late == {f \in wire : ~(orders[f.n] > now - Window)}
           Last == n - MaxOrders + 1 .. n
<1>1. /\ now \in Nat /\ Window \in Nat \ {0} /\ MaxOrders \in Nat \ {0} /\ n \in Nat
      /\ \A i \in 1 .. n : orders[i] \in Nat /\ orders[i] <= now
      /\ \A f \in wire : f.n \in 0 .. n /\ f.by \in Senders /\ f.left \in Nat
      /\ IsFiniteSet(Senders)
  BY PaceAssumption DEF IInv, TypeOK, DequeInv
<1>2. \A f \in wire : f.n \in 1 .. n
  <2>1. \A f \in wire : f.n \in 0 .. n /\ f.n # 0
    BY <1>1 DEF FramesInTurn
  <2> HIDE DEF n
  <2> QED BY <1>1, <2>1
<1>3. IsFiniteSet(Last) /\ Cardinality(Last) = MaxOrders
  <2>1. n - MaxOrders + 1 \in Int /\ n \in Int /\ n - (n - MaxOrders + 1) + 1 = MaxOrders
        /\ n - MaxOrders + 1 <= n
    BY <1>1
  <2> HIDE DEF n
  <2> QED BY <2>1, FS_Interval
<1>4. \A f \in Fresh : f.n \in Last
  <2> SUFFICES ASSUME NEW f \in Fresh PROVE f.n \in Last
    OBVIOUS
  <2>1. f.n \in 1 .. n /\ orders[f.n] > now - Window /\ orders[f.n] \in Nat
    BY <1>1, <1>2
  <2>2. CASE f.n + MaxOrders <= n
    <3>1. f.n + MaxOrders \in 1 .. n
      BY <1>1, <2>1, <2>2
    <3>2. orders[f.n] + Window <= orders[f.n + MaxOrders] /\ orders[f.n + MaxOrders] <= now
          /\ orders[f.n + MaxOrders] \in Nat
      BY <1>1, <2>1, <3>1 DEF StampsSpread
    <3> QED BY <1>1, <2>1, <3>2
  <2>3. CASE ~(f.n + MaxOrders <= n)
    BY <1>1, <2>1, <2>3
  <2> QED BY <2>2, <2>3
<1>5. IsFiniteSet(Fresh) /\ Cardinality(Fresh) <= MaxOrders
  <2> DEFINE of == [f \in Fresh |-> f.n]
  <2>1. of \in [Fresh -> Last]
    BY <1>4
  <2>2. \A f, g \in Fresh : of[f] = of[g] => f = g
    BY DEF FramesInTurn
  <2>3. of \in Injection(Fresh, Last)
    BY <2>1, <2>2 DEF Injection, IsInjective
  <2> HIDE DEF of, Fresh, Last
  <2> QED BY <1>3, <2>3, FS_Injection
<1>6. IsFiniteSet(Late) /\ Cardinality(Late) <= Cardinality(Senders)
  <2> DEFINE of == [f \in Late |-> f.by]
  <2>1. of \in [Late -> Senders]
    BY <1>1
  <2>2. ASSUME NEW f \in Late, NEW g \in Late, f.by = g.by PROVE f = g
    <3>1. /\ orders[f.n] \in Nat /\ orders[g.n] \in Nat
          /\ ~(orders[f.n] > now - Window) /\ ~(orders[g.n] > now - Window)
          /\ f.left > now - Window /\ g.left > now - Window /\ f.left \in Nat /\ g.left \in Nat
      BY <1>1, <1>2 DEF FramesInTurn
    <3>2. f # g => orders[f.n] >= g.left \/ orders[g.n] >= f.left
      BY <2>2 DEF FramesInTurn
    <3> QED BY <1>1, <3>1, <3>2
  <2>3. of \in Injection(Late, Senders)
    BY <2>1, <2>2 DEF Injection, IsInjective
  <2> HIDE DEF of, Late
  <2> QED BY <1>1, <2>3, FS_Injection
<1>7. wire = Fresh \cup Late /\ Fresh \cap Late = {}
  OBVIOUS
<1> HIDE DEF Fresh, Late, Last
<1>8. Cardinality(wire) = Cardinality(Fresh) + Cardinality(Late) - Cardinality(Fresh \cap Late)
  BY <1>5, <1>6, <1>7, FS_Union
<1>9. /\ Cardinality(Fresh \cap Late) = 0
      /\ Cardinality(Fresh) \in Nat /\ Cardinality(Late) \in Nat /\ Cardinality(Senders) \in Nat
  BY <1>1, <1>5, <1>6, <1>7, FS_EmptySet, FS_CardinalityType
<1> QED BY <1>1, <1>5, <1>6, <1>8, <1>9 DEF WireBurst

\* For any number of threads, any gaps, think times and limits: a window of
\* the wire holds at most one order per thread more than the pacekeeper lets
\* through (Pacekeeper.wait, QuotexAPI._send).
THEOREM BurstIsBounded == Spec => []WireBurst
<1>1. Init => StampsSpread /\ FramesInTurn
  BY DEF Init, StampsSpread, FramesInTurn
<1>2. IInv /\ StampsSpread /\ FramesInTurn /\ [Next]_vars => StampsSpread' /\ FramesInTurn'
  BY SpreadKept, TurnsKept
<1>3. IInv /\ StampsSpread /\ FramesInTurn => WireBurst
  BY BurstBounded
<1> QED BY InitIInv, NextIInv, <1>1, <1>2, <1>3, PTL DEF Spec

=============================================================================
