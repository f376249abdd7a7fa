----------------------------- MODULE EventBus -----------------------------
(***************************************************************************)
(* EventBus (events.py): publish takes a snapshot of the subscribers under *)
(* the bus lock and calls them afterwards on the publishing thread, with   *)
(* no lock.  So an unsubscribed handler can still be called, a handler can *)
(* publish in turn, and two publications of one topic can reach a          *)
(* handler in either order - unless their publishers exclude each other,   *)
(* as the OMS lock does for BALANCE, SETTLE and FILL (execution/oms.py).   *)
(* Those topics are Serial.                                                *)
(*                                                                         *)
(* A snapshot is a set: no caller subscribes a handler twice to a topic,   *)
(* and the order of the calls in one delivery is left open.  A handler     *)
(* that crashes is logged and passed over, so it is not told apart.        *)
(***************************************************************************)
EXTENDS Integers, Sequences, FiniteSets

CONSTANTS
  Publishers,   \* threads that publish
  Handlers,
  OneShots,     \* the wrappers that once() makes
  OnceTopic,    \* the topic of each
  Topics,
  Serial,       \* topics whose publications never overlap
  AnyTopic,     \* WILDCARD
  HistoryLimit,
  LastId        \* bound on the publications

VARIABLES
  subs,         \* _subs: the handlers of each topic
  history,      \* _history
  dropped,      \* _dropped
  cleared,      \* history: events that clear() forgot
  published,    \* history: the publications so far
  flights,      \* deliveries under way
  heard,        \* history: the last event of a topic each handler was called with
  fired         \* history: the calls of each one-shot handler

busVars == <<subs, history, dropped, cleared, published, flights, heard, fired>>

Event == [id : Nat, topic : Topics]

\* A publication between its snapshot and its return: what is left to call.
Flight == [id : Nat, topic : Topics, by : Publishers, rest : SUBSET Handlers]

Concerned(topic) == subs[topic] \cup subs[AnyTopic]

Trimmed(list) == IF Len(list) > HistoryLimit THEN Tail(list) ELSE list

Subscribe(topic, h) ==
  /\ h \notin subs[topic]
  /\ subs' = [subs EXCEPT ![topic] = @ \cup {h}]
  /\ UNCHANGED <<history, dropped, cleared, published, flights, heard, fired>>

Unsubscribe(topic, h) ==
  /\ subs' = [subs EXCEPT ![topic] = @ \ {h}]
  /\ UNCHANGED <<history, dropped, cleared, published, flights, heard, fired>>

\* Seeded fault: the publishers of a serial topic do not exclude each other.
PublishUnlocked(t, topic) ==
  /\ published < LastId
  /\ published' = published + 1
  /\ LET event == [id |-> published + 1, topic |-> topic]
         grown == Append(history, event)
     IN /\ history' = Trimmed(grown)
        /\ dropped' = dropped + (Len(grown) - Len(Trimmed(grown)))
  /\ flights' = flights \cup {[id |-> published + 1, topic |-> topic, by |-> t,
                               rest |-> Concerned(topic)]}
  /\ UNCHANGED <<subs, cleared, heard, fired>>

\* Also from inside a handler, while the thread's outer delivery waits.
Publish(t, topic) ==
  /\ published < LastId
  /\ topic \in Serial => \A f \in flights : f.topic # topic
  /\ published' = published + 1
  /\ LET event == [id |-> published + 1, topic |-> topic]
         grown == Append(history, event)
     IN /\ history' = Trimmed(grown)
        /\ dropped' = dropped + (Len(grown) - Len(Trimmed(grown)))
  /\ flights' = flights \cup {[id |-> published + 1, topic |-> topic, by |-> t,
                               rest |-> Concerned(topic)]}
  /\ UNCHANGED <<subs, cleared, heard, fired>>

\* A thread is in its most recent publication: nested ones end first.
Innermost(f) == \A g \in flights : g.by = f.by => g.id <= f.id

\* A one-shot wrapper unsubscribes itself, then runs.
Deliver(f, h) ==
  /\ f \in flights /\ Innermost(f) /\ h \in f.rest
  /\ flights' = (flights \ {f}) \cup {[f EXCEPT !.rest = @ \ {h}]}
  /\ heard' = [heard EXCEPT ![h][f.topic] = f.id]
  /\ IF h \in OneShots
       THEN /\ subs' = [subs EXCEPT ![f.topic] = @ \ {h}]
            /\ fired' = [fired EXCEPT ![h] = @ + 1]
       ELSE UNCHANGED <<subs, fired>>
  /\ UNCHANGED <<history, dropped, cleared, published>>

Return(f) ==
  /\ f \in flights /\ f.rest = {}
  /\ flights' = flights \ {f}
  /\ UNCHANGED <<subs, history, dropped, cleared, published, heard, fired>>

ClearBus ==
  /\ subs' = [topic \in Topics |-> {}]
  /\ history' = <<>> /\ cleared' = cleared + Len(history)
  /\ UNCHANGED <<dropped, published, flights, heard, fired>>

BusInit ==
  /\ subs = [topic \in Topics |-> {}]
  /\ history = <<>> /\ dropped = 0 /\ cleared = 0 /\ published = 0
  /\ flights = {}
  /\ heard = [h \in Handlers |-> [topic \in Topics |-> 0]]
  /\ fired = [h \in Handlers |-> 0]

\* once() subscribes a wrapper of its own, to one topic and once.
MaySubscribe(topic, h) ==
  h \in OneShots =>
    /\ topic = OnceTopic[h] /\ fired[h] = 0
    /\ \A f \in flights : h \notin f.rest

BusNext ==
  \/ \E topic \in Topics, h \in Handlers :
       (MaySubscribe(topic, h) /\ Subscribe(topic, h)) \/ Unsubscribe(topic, h)
  \/ \E t \in Publishers, topic \in Topics \ {AnyTopic} : Publish(t, topic)
  \/ \E f \in flights : Return(f) \/ \E h \in Handlers : Deliver(f, h)
  \/ ClearBus

BusSpec == BusInit /\ [][BusNext]_busVars

---------------------------------------------------------------------------
(* Properties. *)

BusTypeOK ==
  /\ subs \in [Topics -> SUBSET Handlers]
  /\ history \in Seq(Event) /\ flights \subseteq Flight
  /\ dropped \in Nat /\ cleared \in Nat /\ published \in Nat
  /\ heard \in [Handlers -> [Topics -> Nat]] /\ fired \in [Handlers -> Nat]

\* The history holds the last events and no more than its limit, and dropped
\* counts exactly the ones it let go.
HistoryKept ==
  /\ Len(history) <= HistoryLimit
  /\ dropped + cleared + Len(history) = published
  /\ \A i \in 1..Len(history) : history[i].id = published - Len(history) + i

\* An event of a serial topic never reaches a handler after a later one: the
\* balance the last BALANCE handler call saw is the last one published.
SerialInOrder ==
  [][\A h \in Handlers, topic \in Serial : heard'[h][topic] >= heard[h][topic]]_busVars

\* "Subscribe to a single occurrence" (once) holds on the serial topics.
OnceOnSerial == \A h \in OneShots : OnceTopic[h] \in Serial => fired[h] <= 1

\* once, for every topic: TLC refutes it (README), two publications that
\* overlap both have the wrapper in their snapshots.
Once == \A h \in OneShots : fired[h] <= 1

\* Events in order for every topic: TLC refutes it (README).
AlwaysInOrder ==
  [][\A h \in Handlers, topic \in Topics : heard'[h][topic] >= heard[h][topic]]_busVars

\* No call after unsubscribe: TLC refutes it (README), an engine's shutdown
\* can meet a delivery whose snapshot still holds its handlers.
QuietAfterUnsubscribe ==
  [][\A h \in Handlers, topic \in Topics \ {AnyTopic} :
       heard'[h][topic] # heard[h][topic] => h \in Concerned(topic)]_busVars

===========================================================================
