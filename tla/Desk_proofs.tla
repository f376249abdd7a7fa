---------------------------- MODULE Desk_proofs ----------------------------
(***************************************************************************)
(* What holds of the event bus, the tape, the watchdog, the alerts, the    *)
(* almanac, the correlation clusters, the two consoles and the pairing     *)
(* with Chrome for every value of their constants.  What the constants     *)
(* must be is a hypothesis of each theorem.                                *)
(***************************************************************************)
EXTENDS DeskWorks, EventBus, Watchdog, Alerts, Almanac, Clusters,
        FiniteSetTheorems, WellFoundedInduction, TLAPS

---------------------------------------------------------------------------
(* The event bus. *)

BusSizes ==
  /\ OneShots \subseteq Handlers /\ AnyTopic \in Topics
  /\ Serial \subseteq Topics \ {AnyTopic}
  /\ OnceTopic \in [OneShots -> Topics \ {AnyTopic}]
  /\ HistoryLimit \in Nat \ {0} /\ LastId \in Nat

\* One delivery of a serial topic at a time, and no handler is ahead of it.
SerialFlights ==
  /\ \A f \in flights : f.id <= published
  /\ \A h \in Handlers, topic \in Topics : heard[h][topic] <= published
  /\ \A f, g \in flights : f.topic = g.topic /\ f.topic \in Serial => f = g
  /\ \A f \in flights, h \in Handlers :
       f.topic \in Serial => heard[h][f.topic] <= f.id

\* A wrapper of once() is subscribed and snapshot on its own topic only, and
\* on a serial one not at all any more when it has run.
OneShotsInv ==
  /\ \A h \in OneShots, topic \in Topics : h \in subs[topic] => topic = OnceTopic[h]
  /\ \A h \in OneShots, f \in flights : h \in f.rest => f.topic = OnceTopic[h]
  /\ \A h \in OneShots : OnceTopic[h] \in Serial =>
       /\ fired[h] <= 1
       /\ fired[h] = 1 => h \notin subs[OnceTopic[h]]
                          /\ \A f \in flights : h \notin f.rest

BusInv == BusTypeOK /\ HistoryKept /\ SerialFlights /\ OneShotsInv

\* The list ends with event number last, and skips none.
Consecutive(list, last) == \A i \in 1..Len(list) : list[i].id = last - Len(list) + i

\* The trimmed history has the last events, one less when it overflows.
LEMMA TrimKeepsTheLast ==
  ASSUME HistoryLimit \in Nat \ {0}, NEW list \in Seq(Event), NEW last \in Nat,
         Len(list) <= HistoryLimit + 1, Consecutive(list, last)
  PROVE  /\ Trimmed(list) \in Seq(Event)
         /\ Len(Trimmed(list)) <= HistoryLimit
         /\ Len(Trimmed(list)) \in Nat /\ Len(Trimmed(list)) <= Len(list)
         /\ Consecutive(Trimmed(list), last)
<1> USE DEF Consecutive
<1>1. CASE Len(list) > HistoryLimit
  <2>1. list # <<>> /\ Trimmed(list) = Tail(list)
    BY <1>1 DEF Trimmed
  <2>2. Len(Tail(list)) = Len(list) - 1 /\ Tail(list) \in Seq(Event)
    BY <2>1
  <2>3. \A i \in 1..Len(Tail(list)) : Tail(list)[i] = list[i + 1]
    BY <2>1
  <2>4. \A i \in 1..Len(Tail(list)) : list[i + 1].id = last - Len(list) + (i + 1)
    BY <2>2
  <2>5. Len(list) \in Nat /\ HistoryLimit \in Nat /\ Len(list) = HistoryLimit + 1
    BY <1>1
  <2>6. \A i \in 1..Len(Tail(list)) : Tail(list)[i].id = last - Len(Tail(list)) + i
    BY <2>2, <2>3, <2>4, <2>5
  <2>7. /\ Len(Tail(list)) <= HistoryLimit /\ Len(Tail(list)) \in Nat
        /\ Len(Tail(list)) <= Len(list)
    BY <2>2, <2>5
  <2> DEFINE rest == Tail(list)
             kept == Trimmed(list)
  <2>8. rest = kept /\ rest \in Seq(Event) /\ Len(rest) <= HistoryLimit
        /\ Len(rest) \in Nat /\ Len(rest) <= Len(list)
    BY <2>1, <2>2, <2>7
  <2>9. \A i \in 1..Len(rest) : rest[i].id = last - Len(rest) + i
    BY <2>6
  <2> HIDE DEF rest, kept
  <2>10. /\ kept \in Seq(Event) /\ Len(kept) <= HistoryLimit
         /\ Len(kept) \in Nat /\ Len(kept) <= Len(list)
    BY <2>8
  <2>11. \A i \in 1..Len(kept) : kept[i].id = last - Len(kept) + i
    BY <2>8, <2>9, Zenon
  <2> QED BY <2>10, <2>11 DEF kept
<1>2. CASE Len(list) <= HistoryLimit
  <2> DEFINE kept == Trimmed(list)
  <2>1. kept = list /\ Len(list) \in Nat
    BY <1>2 DEF Trimmed
  <2> HIDE DEF kept
  <2>2. kept \in Seq(Event) /\ Len(kept) <= HistoryLimit
        /\ Len(kept) \in Nat /\ Len(kept) <= Len(list)
    BY <1>2, <2>1
  <2>3. \A i \in 1..Len(kept) : kept[i].id = last - Len(kept) + i
    BY <2>1, Zenon
  <2> QED BY <2>2, <2>3 DEF kept
<1> QED BY <1>1, <1>2

LEMMA BusStarts == ASSUME BusSizes, BusInit PROVE BusInv
<1>1. BusTypeOK
  BY DEF BusSizes, BusInit, BusTypeOK
<1>2. HistoryKept /\ SerialFlights /\ OneShotsInv
  BY DEF BusSizes, BusInit, HistoryKept, SerialFlights, OneShotsInv
<1> QED BY <1>1, <1>2 DEF BusInv

LEMMA SubscribeKeeps ==
  ASSUME BusSizes, BusInv, NEW topic \in Topics, NEW h \in Handlers,
         MaySubscribe(topic, h), Subscribe(topic, h)
  PROVE  BusInv'
<1> USE DEF BusInv
<1>1. subs' \in [Topics -> SUBSET Handlers]
  BY DEF Subscribe, BusTypeOK
<1>2. \A other \in Topics, k \in Handlers :
        k \in subs'[other] => k \in subs[other] \/ (other = topic /\ k = h)
  BY DEF Subscribe, BusTypeOK
<1>3. UNCHANGED <<history, dropped, cleared, published, flights, heard, fired>>
  BY DEF Subscribe
<1>4. OneShotsInv'
  BY <1>2, <1>3 DEF MaySubscribe, OneShotsInv, BusSizes
<1>5. BusTypeOK' /\ HistoryKept' /\ SerialFlights'
  BY <1>1, <1>3 DEF BusTypeOK, HistoryKept, SerialFlights
<1> QED BY <1>4, <1>5

LEMMA UnsubscribeKeeps ==
  ASSUME BusSizes, BusInv, NEW topic \in Topics, NEW h \in Handlers,
         Unsubscribe(topic, h)
  PROVE  BusInv'
<1> USE DEF BusInv
<1>1. subs' \in [Topics -> SUBSET Handlers]
  BY DEF Unsubscribe, BusTypeOK
<1>2. \A other \in Topics : subs'[other] \subseteq subs[other]
  BY DEF Unsubscribe, BusTypeOK
<1>3. UNCHANGED <<history, dropped, cleared, published, flights, heard, fired>>
  BY DEF Unsubscribe
<1>4. OneShotsInv'
  BY <1>2, <1>3 DEF OneShotsInv, BusSizes
<1>5. BusTypeOK' /\ HistoryKept' /\ SerialFlights'
  BY <1>1, <1>3 DEF BusTypeOK, HistoryKept, SerialFlights
<1> QED BY <1>4, <1>5

LEMMA ClearKeeps == ASSUME BusSizes, BusInv, ClearBus PROVE BusInv'
<1> USE DEF BusInv
<1>1. subs' = [topic \in Topics |-> {}] /\ history' = <<>>
      /\ cleared' = cleared + Len(history)
  BY DEF ClearBus
<1>2. UNCHANGED <<dropped, published, flights, heard, fired>>
  BY DEF ClearBus
<1>3. OneShotsInv'
  BY <1>1, <1>2 DEF OneShotsInv, BusSizes
<1>4. HistoryKept'
  BY <1>1, <1>2 DEF HistoryKept, BusTypeOK, BusSizes
<1>5. BusTypeOK'
  BY <1>1, <1>2 DEF BusTypeOK
<1>6. SerialFlights'
  BY <1>2 DEF SerialFlights
<1> QED BY <1>3, <1>4, <1>5, <1>6

LEMMA ReturnKeeps ==
  ASSUME BusSizes, BusInv, NEW f \in flights, Return(f) PROVE BusInv'
<1> USE DEF BusInv
<1>1. flights' \subseteq flights
  BY DEF Return
<1>2. UNCHANGED <<subs, history, dropped, cleared, published, heard, fired>>
  BY DEF Return
<1> QED
  BY <1>1, <1>2 DEF BusTypeOK, HistoryKept, SerialFlights, OneShotsInv

LEMMA PublishKeeps ==
  ASSUME BusSizes, BusInv, NEW t \in Publishers, NEW topic \in Topics \ {AnyTopic},
         Publish(t, topic)
  PROVE  BusInv'
<1> USE DEF BusInv
<1> DEFINE event == [id |-> published + 1, topic |-> topic]
           grown == Append(history, event)
           flight == [id |-> published + 1, topic |-> topic, by |-> t,
                      rest |-> Concerned(topic)]
<1>1. UNCHANGED <<subs, cleared, heard, fired>> /\ published' = published + 1
  BY DEF Publish
<1>2. history' = Trimmed(grown) /\ dropped' = dropped + (Len(grown) - Len(Trimmed(grown)))
  BY DEF Publish
<1>3. flights' = flights \cup {flight}
  BY DEF Publish
<1>4. topic \in Serial => \A f \in flights : f.topic # topic
  BY DEF Publish
<1>5. published \in Nat /\ history \in Seq(Event) /\ event \in Event
  BY DEF BusTypeOK, Event
<1>14. grown \in Seq(Event) /\ Len(grown) = Len(history) + 1
  BY <1>5
<1>6. Consecutive(grown, published + 1)
  <2>1. \A i \in 1..Len(history) : grown[i] = history[i]
    BY <1>5
  <2>2. grown[Len(history) + 1] = event /\ Len(grown) = Len(history) + 1
    BY <1>5
  <2>3. \A i \in 1..Len(history) : history[i].id = published - Len(history) + i
    BY DEF HistoryKept
  <2>4. \A i \in 1..Len(history) : grown[i].id = (published + 1) - Len(grown) + i
    <3> HIDE DEF grown, event
    <3> QED BY <1>5, <2>1, <2>2, <2>3
  <2>5. event.id = published + 1
    OBVIOUS
  <2>6. \A i \in 1..Len(grown) : i \in 1..Len(history) \/ i = Len(history) + 1
    BY <2>2, <1>5
  <2>7. grown[Len(history) + 1].id = (published + 1) - Len(grown) + (Len(history) + 1)
    <3> HIDE DEF grown, event
    <3> QED BY <1>5, <2>2, <2>5
  <2> HIDE DEF grown, event
  <2>8. \A i \in 1..Len(grown) : grown[i].id = (published + 1) - Len(grown) + i
    BY <2>4, <2>6, <2>7
  <2> QED BY <2>8, Zenon DEF Consecutive
<1>7. /\ Trimmed(grown) \in Seq(Event) /\ Len(Trimmed(grown)) <= HistoryLimit
      /\ Len(Trimmed(grown)) \in Nat /\ Len(Trimmed(grown)) <= Len(grown)
      /\ Consecutive(Trimmed(grown), published + 1)
  <2>1. Len(grown) <= HistoryLimit + 1
    <3> HIDE DEF grown
    <3> QED BY <1>5, <1>14 DEF HistoryKept, BusSizes
  <2>2. published + 1 \in Nat /\ HistoryLimit \in Nat \ {0}
    BY <1>5 DEF BusSizes
  <2> DEFINE last == published + 1
  <2>3. last \in Nat
    BY <2>2
  <2>4. grown \in Seq(Event)
    BY <1>14
  <2>7. last = published + 1
    OBVIOUS
  <2>6. Consecutive(grown, last)
    BY <1>6
  <2> HIDE DEF grown, last
  <2>5. /\ Trimmed(grown) \in Seq(Event) /\ Len(Trimmed(grown)) <= HistoryLimit
        /\ Len(Trimmed(grown)) \in Nat /\ Len(Trimmed(grown)) <= Len(grown)
        /\ Consecutive(Trimmed(grown), last)
    BY <2>1, <2>2, <2>3, <2>4, <2>6, TrimKeepsTheLast
  <2> QED BY <2>5 DEF last
<1>8. HistoryKept'
  <2> HIDE DEF grown
  <2>1. dropped \in Nat /\ cleared \in Nat /\ Len(history) \in Nat
        /\ dropped + cleared + Len(history) = published
    BY DEF HistoryKept, BusTypeOK
  <2>2. dropped' + cleared' + Len(history') = published'
    <3> DEFINE kept == Len(Trimmed(grown))
               all  == Len(grown)
    <3>1. kept \in Nat /\ all = Len(history) + 1
      BY <1>14, <1>7
    <3>2. dropped' = dropped + (all - kept) /\ Len(history') = kept
      BY <1>2
    <3> HIDE DEF kept, all
    <3> QED BY <1>1, <1>5, <2>1, <3>1, <3>2
  <2>3. Len(history') <= HistoryLimit
    BY <1>2, <1>7
  <2>4. Consecutive(history', published')
    BY <1>1, <1>2, <1>7
  <2> QED BY <2>2, <2>3, <2>4 DEF HistoryKept, Consecutive
<1>9. flight \in Flight
  BY <1>5 DEF Flight, Concerned, BusTypeOK, BusSizes
<1>10. BusTypeOK'
  <2>1. dropped' \in Nat
    <3> HIDE DEF grown
    <3> QED BY <1>2, <1>14, <1>7 DEF BusTypeOK
  <2>2. history' \in Seq(Event)
    BY <1>2, <1>7
  <2>3. flights' \subseteq Flight
    BY <1>3, <1>9 DEF BusTypeOK
  <2> QED BY <1>1, <2>1, <2>2, <2>3 DEF BusTypeOK
<1>11. flight.id = published + 1 /\ flight.topic = topic /\ flight.rest = Concerned(topic)
  OBVIOUS
<1>12. SerialFlights'
  <2> HIDE DEF flight
  <2>1. \A f \in flights : f.id \in Nat
    BY DEF BusTypeOK, Flight
  <2>2. \A h \in Handlers, other \in Topics : heard[h][other] \in Nat
    BY DEF BusTypeOK
  <2>3. \A f \in flights' : f.id <= published'
    BY <1>1, <1>3, <1>5, <1>11, <2>1 DEF SerialFlights
  <2>4. \A h \in Handlers, other \in Topics : heard'[h][other] <= published'
    BY <1>1, <1>5, <2>2 DEF SerialFlights
  <2>5. \A f, g \in flights' : f.topic = g.topic /\ f.topic \in Serial => f = g
    BY <1>3, <1>4, <1>11, Zenon DEF SerialFlights
  <2>6. \A f \in flights', h \in Handlers :
          f.topic \in Serial => heard'[h][f.topic] <= f.id
    BY <1>1, <1>3, <1>5, <1>11, <2>2 DEF SerialFlights
  <2> QED BY <2>3, <2>4, <2>5, <2>6 DEF SerialFlights
<1>13. OneShotsInv'
  <2> HIDE DEF flight
  <2>1. \A h \in OneShots : h \in flight.rest => topic = OnceTopic[h] /\ h \in subs[topic]
    BY <1>11 DEF Concerned, OneShotsInv, BusSizes
  <2>2. \A h \in OneShots, f \in flights' : h \in f.rest => f.topic = OnceTopic[h]
    BY <1>3, <1>11, <2>1 DEF OneShotsInv
  <2>3. \A h \in OneShots : OnceTopic[h] \in Serial =>
          /\ fired'[h] <= 1
          /\ fired'[h] = 1 => h \notin subs'[OnceTopic[h]]
                              /\ \A f \in flights' : h \notin f.rest
    BY <1>1, <1>3, <2>1 DEF OneShotsInv
  <2> QED BY <1>1, <2>2, <2>3 DEF OneShotsInv
<1> QED BY <1>8, <1>10, <1>12, <1>13

LEMMA DeliverKeeps ==
  ASSUME BusSizes, BusInv, NEW f \in flights, NEW h \in Handlers, Deliver(f, h)
  PROVE  BusInv' /\ (f.topic \in Serial => heard[h][f.topic] <= f.id)
<1> USE DEF BusInv
<1> DEFINE lighter == [f EXCEPT !.rest = @ \ {h}]
<1>1. f \in Flight /\ h \in f.rest
  BY DEF Deliver, BusTypeOK
<1>2. /\ lighter \in Flight /\ lighter.id = f.id /\ lighter.topic = f.topic
      /\ lighter.rest = f.rest \ {h}
  BY <1>1 DEF Flight
<1>3. flights' = (flights \ {f}) \cup {lighter}
  BY DEF Deliver
<1>4. UNCHANGED <<history, dropped, cleared, published>>
  BY DEF Deliver
<1>5. heard' = [heard EXCEPT ![h][f.topic] = f.id]
  BY DEF Deliver
<1>6. f.id \in Nat /\ f.topic \in Topics /\ f.rest \subseteq Handlers
  BY <1>1 DEF Flight
<1>7. heard' \in [Handlers -> [Topics -> Nat]]
  BY <1>5, <1>6 DEF BusTypeOK
<1>8. \A k \in Handlers, topic \in Topics :
        heard'[k][topic] = IF k = h /\ topic = f.topic THEN f.id ELSE heard[k][topic]
  BY <1>5, <1>6 DEF BusTypeOK
<1>9. /\ subs' \in [Topics -> SUBSET Handlers]
      /\ \A topic \in Topics : subs'[topic] \subseteq subs[topic]
      /\ h \in OneShots => h \notin subs'[f.topic]
  <2>1. subs \in [Topics -> SUBSET Handlers]
    BY DEF BusTypeOK
  <2>2. CASE h \in OneShots
    <3>1. subs' = [subs EXCEPT ![f.topic] = @ \ {h}]
      BY <2>2 DEF Deliver
    <3> QED BY <1>6, <2>1, <3>1
  <2>3. CASE h \notin OneShots
    <3>1. subs' = subs
      BY <2>3 DEF Deliver
    <3> QED BY <2>1, <2>3, <3>1
  <2> QED BY <2>2, <2>3
<1>10. /\ fired' \in [Handlers -> Nat]
       /\ h \in OneShots => fired'[h] = fired[h] + 1
       /\ \A k \in Handlers : k # h \/ h \notin OneShots => fired'[k] = fired[k]
  <2>1. fired \in [Handlers -> Nat]
    BY DEF BusTypeOK
  <2>2. CASE h \in OneShots
    <3>1. fired' = [fired EXCEPT ![h] = @ + 1]
      BY <2>2 DEF Deliver
    <3> QED BY <2>1, <2>2, <3>1
  <2>3. CASE h \notin OneShots
    <3>1. fired' = fired
      BY <2>3 DEF Deliver
    <3> QED BY <2>1, <2>3, <3>1
  <2> QED BY <2>2, <2>3
<1>11. BusTypeOK'
  <2>1. flights' \subseteq Flight
    BY <1>2, <1>3 DEF BusTypeOK
  <2> QED BY <1>4, <1>7, <1>9, <1>10, <2>1 DEF BusTypeOK
<1>12. HistoryKept'
  BY <1>4 DEF HistoryKept
<1>13. SerialFlights'
  <2> HIDE DEF lighter
  <2>1. \A g \in flights' : g.id <= published'
    BY <1>2, <1>3, <1>4 DEF SerialFlights
  <2>2. \A k \in Handlers, topic \in Topics : heard'[k][topic] <= published'
    BY <1>4, <1>8 DEF SerialFlights
  <2>3. \A g, k \in flights' : g.topic = k.topic /\ g.topic \in Serial => g = k
    BY <1>2, <1>3, Zenon DEF SerialFlights
  <2>4. \A g \in flights : g.topic \in Topics /\ g.id \in Nat
    BY DEF BusTypeOK, Flight
  <2>5. \A g \in flights : g.topic = f.topic /\ f.topic \in Serial => g = f
    BY Zenon DEF SerialFlights
  <2>6. \A g \in flights', k \in Handlers :
          g.topic \in Serial => heard'[k][g.topic] <= g.id
    BY <1>2, <1>3, <1>6, <1>8, <2>4, <2>5 DEF SerialFlights
  <2> QED BY <2>1, <2>2, <2>3, <2>6 DEF SerialFlights
<1>14. OneShotsInv'
  <2> HIDE DEF lighter
  <2>1. \A k \in OneShots, topic \in Topics :
          k \in subs'[topic] => topic = OnceTopic[k]
    BY <1>9 DEF OneShotsInv
  <2>2. \A g \in flights' : \E old \in flights :
          g.rest \subseteq old.rest /\ g.topic = old.topic
    BY <1>2, <1>3
  <2>3. \A k \in OneShots, g \in flights' : k \in g.rest => g.topic = OnceTopic[k]
    BY <2>2 DEF OneShotsInv
  <2>4. ASSUME NEW k \in OneShots, OnceTopic[k] \in Serial
        PROVE  /\ fired'[k] <= 1
               /\ fired'[k] = 1 => k \notin subs'[OnceTopic[k]]
                                   /\ \A g \in flights' : k \notin g.rest
    <3>1. k \in Handlers /\ fired[k] \in Nat /\ OnceTopic[k] \in Topics
      BY DEF BusSizes, BusTypeOK
    <3>2. CASE k # h
      <4>1. fired'[k] = fired[k]
        BY <1>10, <3>1, <3>2
      <4> QED BY <4>1, <3>1, <1>9, <2>2, <2>4 DEF OneShotsInv
    <3>3. CASE k = h
      <4>1. f.topic = OnceTopic[h]
        BY <1>1, <3>3 DEF OneShotsInv
      <4>2. fired[h] # 1 /\ fired[h] <= 1
        BY <1>1, <2>4, <3>3 DEF OneShotsInv
      <4>3. fired'[h] = 1
        BY <1>10, <3>1, <3>3, <4>2
      <4>4. \A g \in flights : h \in g.rest => g = f
        BY <2>4, <3>3, <4>1, Zenon DEF OneShotsInv, SerialFlights
      <4>5. \A g \in flights' : h \notin g.rest
        BY <1>2, <1>3, <4>4
      <4> QED BY <1>9, <3>3, <4>1, <4>3, <4>5
    <3> QED BY <3>2, <3>3
  <2> QED BY <2>1, <2>3, <2>4 DEF OneShotsInv
<1>15. f.topic \in Serial => heard[h][f.topic] <= f.id
  BY DEF SerialFlights
<1> QED BY <1>11, <1>12, <1>13, <1>14, <1>15

LEMMA BusStepKeeps == ASSUME BusSizes, BusInv, [BusNext]_busVars PROVE BusInv'
<1>1. CASE UNCHANGED busVars
  BY <1>1 DEF busVars, BusInv, BusTypeOK, HistoryKept, SerialFlights, OneShotsInv
<1>2. ASSUME NEW topic \in Topics, NEW h \in Handlers,
             (MaySubscribe(topic, h) /\ Subscribe(topic, h)) \/ Unsubscribe(topic, h)
      PROVE  BusInv'
  BY <1>2, SubscribeKeeps, UnsubscribeKeeps
<1>3. ASSUME NEW t \in Publishers, NEW topic \in Topics \ {AnyTopic},
             Publish(t, topic)
      PROVE  BusInv'
  BY <1>3, PublishKeeps
<1>4. ASSUME NEW f \in flights, Return(f) \/ \E h \in Handlers : Deliver(f, h)
      PROVE  BusInv'
  BY <1>4, ReturnKeeps, DeliverKeeps
<1>5. CASE ClearBus
  BY <1>5, ClearKeeps
<1> QED BY <1>1, <1>2, <1>3, <1>4, <1>5 DEF BusNext

LEMMA BusInvariance == ASSUME BusSizes PROVE BusSpec => []BusInv
<1>1. BusInit => BusInv
  BY BusStarts
<1>2. BusInv /\ [BusNext]_busVars => BusInv'
  BY BusStepKeeps
<1> QED BY <1>1, <1>2, PTL DEF BusSpec

\* The bus history holds the last events, no more than its limit, and the
\* count of the dropped ones is exact.
THEOREM HistoryIsKept == ASSUME BusSizes PROVE BusSpec => []HistoryKept
<1>1. BusInv => HistoryKept
  BY DEF BusInv
<1> QED BY BusInvariance, <1>1, PTL

\* once(): on a topic whose publishers exclude each other the wrapper runs at
\* most once, however deliveries and subscriptions interleave.
THEOREM OnceHolds == ASSUME BusSizes PROVE BusSpec => []OnceOnSerial
<1>1. BusInv => OnceOnSerial
  BY DEF BusInv, OneShotsInv, OnceOnSerial
<1> QED BY BusInvariance, <1>1, PTL

\* No handler sees an older balance, settlement or fill after a newer one.
THEOREM SerialEventsStayInOrder == ASSUME BusSizes PROVE BusSpec => SerialInOrder
<1> DEFINE Ordered == \A h \in Handlers, topic \in Serial :
                        heard'[h][topic] >= heard[h][topic]
<1>1. ASSUME BusInv, [BusNext]_busVars PROVE [Ordered]_busVars
  <2> SUFFICES ASSUME BusNext, heard' # heard PROVE Ordered
    BY <1>1 DEF BusTypeOK, BusInv, BusSizes
  <2>1. PICK f \in flights, h \in Handlers : Deliver(f, h)
    BY DEF BusNext, Subscribe, Unsubscribe, Publish, Return, ClearBus
  <2>2. f.topic \in Serial => heard[h][f.topic] <= f.id
    BY <1>1, <2>1, DeliverKeeps
  <2>3. f \in Flight /\ heard' = [heard EXCEPT ![h][f.topic] = f.id]
    BY <1>1, <2>1 DEF Deliver, BusInv, BusTypeOK
  <2> QED BY <1>1, <2>2, <2>3 DEF Flight, BusInv, BusTypeOK, BusSizes
<1>2. BusInv /\ [BusNext]_busVars => [Ordered]_busVars
  BY <1>1
<1> QED BY BusInvariance, <1>2, PTL DEF BusSpec, SerialInOrder, Ordered

---------------------------------------------------------------------------
(* The tape. *)

TapeSizes ==
  /\ MaxFileBytes \in Nat \ {0} /\ MaxFiles \in Nat \ {0}
  /\ MaxLine \in Nat \ {0} /\ LastDay \in Nat

\* An open file has its day behind or today, and only a file of a day gone by
\* is written beyond its day.
TapeInv ==
  /\ TapeTypeOK /\ DayTapesBounded /\ Accounted
  /\ tape # NoTape => tape[1] <= today
  /\ \A file \in overnight : file[1] < today

\* A set of naturals that is not empty has a least member.
LEMMA LeastMember ==
  ASSUME NEW T, T \subseteq Nat, T # {}
  PROVE  \E x \in T : \A y \in T : x <= y
<1> DEFINE Less == OpToRel(<, Nat)
<1>1. \A x, y \in Nat : <<x, y>> \in Less <=> x < y
  BY DEF OpToRel
<1> HIDE DEF Less
<1>2. IsWellFoundedOn(Less, Nat)
  BY NatLessThanWellFounded DEF Less
<1>3. PICK x \in T : \A y \in T : ~ (<<y, x>> \in Less)
  BY <1>2, WFMin, Zenon
<1>4. \A y \in T : ~ (y < x)
  BY <1>1, <1>3
<1> QED BY <1>4

\* What a write goes to: a file of today with room, or one of an earlier day.
LEMMA EnsuredFile ==
  ASSUME TapeSizes, TapeInv, EnsureFile # NoTape
  PROVE  /\ EnsureFile \in Files /\ EnsureFile[1] <= today
         /\ EnsureFile[1] = today => size[EnsureFile] < MaxFileBytes
<1> USE DEF TapeInv, TapeTypeOK, Files, Days, Parts, NoTape
<1>1. CASE tape # NoTape /\ ~Full
  BY <1>1 DEF EnsureFile, Full, TapeSizes
<1>2. CASE ~(tape # NoTape /\ ~Full)
  <2>1. Room(today) # {} /\ EnsureFile = <<today, FirstRoom(today)>>
    BY <1>2 DEF EnsureFile
  <2>2. Room(today) \subseteq Parts
    BY DEF Room
  <2>3. \E part \in Room(today) : \A other \in Room(today) : part <= other
    BY <2>1, <2>2, LeastMember DEF TapeSizes
  <2>4. FirstRoom(today) \in Room(today)
    BY <2>3 DEF FirstRoom
  <2> QED BY <2>1, <2>4 DEF Room
<1> QED BY <1>1, <1>2

LEMMA TapeStarts == ASSUME TapeSizes, TapeInit PROVE TapeInv
<1>1. size = [file \in Files |-> 0] /\ overnight = {} /\ tape = NoTape
  BY DEF TapeInit
<1>2. today \in Days
  BY DEF TapeInit, TapeSizes, Days
<1>3. TapeTypeOK /\ Accounted
  <2>1. size \in [Files -> Nat]
    BY <1>1
  <2>2. /\ written = 0 /\ lost = 0 /\ offered = 0
        /\ subscribed = FALSE /\ inflight = FALSE
    BY DEF TapeInit
  <2>3. written \in Nat /\ lost \in Nat /\ offered \in Nat
    BY <2>2
  <2>4. Accounted
    BY <2>2 DEF Accounted
  <2>5. overnight \subseteq Files /\ tape \in Files \cup {NoTape}
    BY <1>1
  <2>6. subscribed \in BOOLEAN /\ inflight \in BOOLEAN
    BY <2>2
  <2> QED BY <1>2, <2>1, <2>3, <2>4, <2>5, <2>6, Zenon DEF TapeTypeOK
<1>4. DayTapesBounded
  BY <1>1 DEF DayTapesBounded, TapeSizes
<1> QED BY <1>1, <1>3, <1>4 DEF TapeInv

LEMMA WriteKeeps ==
  ASSUME TapeSizes, TapeInv, NEW bytes \in 1..MaxLine, Write(bytes) PROVE TapeInv'
<1> DEFINE file == EnsureFile
<1>1. bytes \in Nat /\ bytes <= MaxLine /\ MaxLine \in Nat
  BY DEF TapeSizes
<1>2. UNCHANGED <<today, subscribed, inflight>> /\ offered' = offered + 1
  BY DEF Write
<1>3. CASE /\ file # NoTape /\ tape' = file
           /\ size' = [size EXCEPT ![file] = @ + bytes]
           /\ overnight' = IF file[1] = today THEN overnight ELSE overnight \cup {file}
           /\ written' = written + 1 /\ UNCHANGED lost
  <2>1. /\ file \in Files /\ file[1] <= today
        /\ file[1] = today => size[file] < MaxFileBytes
    BY <1>3, EnsuredFile
  <2> HIDE DEF file
  <2>2. size \in [Files -> Nat] /\ \A other \in Files : other[1] \in Nat
    BY DEF TapeInv, TapeTypeOK, Files, Days
  <2>3. /\ size' \in [Files -> Nat] /\ size'[file] = size[file] + bytes
        /\ \A other \in Files : other # file => size'[other] = size[other]
    BY <1>1, <1>3, <2>1, <2>2
  <2>4. today \in Nat
    BY DEF TapeInv, TapeTypeOK, Days, TapeSizes
  <2>5. /\ overnight' \subseteq Files
        /\ \A other \in overnight' : other[1] < today'
        /\ overnight \subseteq overnight'
        /\ file[1] # today => file \in overnight'
    BY <1>2, <1>3, <2>1, <2>2, <2>4 DEF TapeInv, TapeTypeOK
  <2>6. TapeTypeOK'
    BY <1>2, <1>3, <2>1, <2>3, <2>5 DEF TapeInv, TapeTypeOK
  <2>7. ASSUME NEW other \in Files
        PROVE  /\ other \notin overnight' => size'[other] < MaxFileBytes + MaxLine
               /\ other[1] > today' => size'[other] = 0
    <3>1. MaxFileBytes \in Nat /\ size[file] \in Nat
      BY <2>1, <2>2 DEF TapeSizes
    <3>2. CASE other = file
      BY <1>1, <1>2, <2>1, <2>2, <2>3, <2>4, <2>5, <3>1, <3>2
    <3>3. CASE other # file
      BY <1>2, <2>3, <2>5, <3>3 DEF TapeInv, DayTapesBounded
    <3> QED BY <3>2, <3>3
  <2>8. Accounted'
    BY <1>2, <1>3 DEF TapeInv, Accounted, TapeTypeOK
  <2> QED BY <1>2, <1>3, <2>1, <2>5, <2>6, <2>7, <2>8 DEF TapeInv, DayTapesBounded
<1>4. CASE /\ tape' \in {file, IF Full THEN NoTape ELSE tape}
           /\ lost' = lost + 1 /\ UNCHANGED <<size, overnight, written>>
  <2>1. tape' \in Files \cup {NoTape} /\ (tape' # NoTape => tape'[1] <= today)
    BY <1>4, EnsuredFile DEF TapeInv, TapeTypeOK
  <2>2. TapeTypeOK'
    BY <1>2, <1>4, <2>1 DEF TapeInv, TapeTypeOK
  <2>3. DayTapesBounded' /\ Accounted'
    BY <1>2, <1>4 DEF TapeInv, DayTapesBounded, Accounted, TapeTypeOK
  <2> QED BY <1>2, <1>4, <2>1, <2>2, <2>3 DEF TapeInv
<1> QED BY <1>3, <1>4 DEF Write

LEMMA TapeStepKeeps == ASSUME TapeSizes, TapeInv, [TapeNext]_tapeVars PROVE TapeInv'
<1>1. CASE UNCHANGED tapeVars
  BY <1>1 DEF tapeVars, TapeInv, TapeTypeOK, DayTapesBounded, Accounted
<1>2. CASE AttachTape \/ DetachTape \/ Delivered
  BY <1>2 DEF AttachTape, DetachTape, Delivered, TapeInv, TapeTypeOK, DayTapesBounded,
              Accounted, NoTape
<1>3. CASE Midnight
  <2>1. today \in Nat /\ today' = today + 1 /\ today' \in Days
    BY <1>3 DEF Midnight, TapeInv, TapeTypeOK, Days, TapeSizes
  <2>2. UNCHANGED <<tape, size, subscribed, inflight, written, lost, offered, overnight>>
    BY <1>3 DEF Midnight
  <2>3. \A file \in Files : file[1] \in Nat
    BY DEF Files, Days
  <2>4. TapeTypeOK' /\ Accounted'
    BY <2>1, <2>2 DEF TapeInv, TapeTypeOK, Accounted
  <2>5. DayTapesBounded'
    BY <2>1, <2>2, <2>3 DEF TapeInv, DayTapesBounded
  <2>6. tape' # NoTape => tape'[1] <= today'
    BY <2>1, <2>2, <2>3 DEF TapeInv, TapeTypeOK
  <2>7. \A file \in overnight' : file[1] < today'
    BY <2>1, <2>2, <2>3 DEF TapeInv, TapeTypeOK
  <2> QED BY <2>4, <2>5, <2>6, <2>7 DEF TapeInv
<1>4. CASE ProcessEnds
  <2>1. /\ UNCHANGED <<today, size, overnight>> /\ tape' = NoTape
        /\ subscribed' = FALSE /\ inflight' = FALSE
        /\ written' = 0 /\ lost' = 0 /\ offered' = 0
    BY <1>4 DEF ProcessEnds
  <2>2. written' \in Nat /\ lost' \in Nat /\ offered' \in Nat /\ Accounted'
    BY <2>1 DEF Accounted
  <2>3. /\ today' \in Days /\ size' \in [Files -> Nat] /\ overnight' \subseteq Files
        /\ tape' \in Files \cup {NoTape}
        /\ subscribed' \in BOOLEAN /\ inflight' \in BOOLEAN
    BY <2>1 DEF TapeInv, TapeTypeOK
  <2>4. TapeTypeOK'
    BY <2>2, <2>3, Zenon DEF TapeTypeOK
  <2>5. DayTapesBounded' /\ \A file \in overnight' : file[1] < today'
    BY <2>1 DEF TapeInv, DayTapesBounded
  <2> QED BY <2>1, <2>2, <2>4, <2>5, Zenon DEF TapeInv
<1> QED BY <1>1, <1>2, <1>3, <1>4, WriteKeeps DEF TapeNext

LEMMA TapeInvariance == ASSUME TapeSizes PROVE TapeSpec => []TapeInv
<1>1. TapeInit => TapeInv
  BY TapeStarts
<1>2. TapeInv /\ [TapeNext]_tapeVars => TapeInv'
  BY TapeStepKeeps
<1> QED BY <1>1, <1>2, PTL DEF TapeSpec

\* A tape file of its own day ends at the limit plus at most one line.
THEOREM TapesAreBounded == ASSUME TapeSizes PROVE TapeSpec => []DayTapesBounded
<1>1. TapeInv => DayTapesBounded
  BY DEF TapeInv
<1> QED BY TapeInvariance, <1>1, PTL

\* Every event offered to the recorder is on a tape or counted as lost.
THEOREM LinesAreAccounted == ASSUME TapeSizes PROVE TapeSpec => []Accounted
<1>1. TapeInv => Accounted
  BY DEF TapeInv
<1> QED BY TapeInvariance, <1>1, PTL

---------------------------------------------------------------------------
(* The watchdog as this repository uses it: nothing feeds the detectors. *)

WatchSizes == Probes = {} /\ Kept \in Nat /\ Shown \in Nat /\ MaxLatency \in Nat \ {0}

\* A latency that nobody sets is never over its limit, and what a sweep finds
\* then is less than fatal.
Harmless ==
  /\ latency = 0 /\ ~killed
  /\ anomalies \in Seq({7, 8})
  /\ pending \in [Watchers -> SUBSET ((Feeds \cup {"stale_heartbeat"}) \X {7, 8})]

LEMMA FoundIsMild ==
  ASSUME WatchSizes, Harmless
  PROVE  Findings \in SUBSET ((Feeds \cup {"stale_heartbeat"}) \X {7, 8})
BY DEF WatchSizes, Harmless, Findings

LEMMA LatestIsPart ==
  ASSUME NEW list \in Seq({7, 8}), NEW n \in Nat
  PROVE  Latest(list, n) \in Seq({7, 8})
<1>1. CASE Len(list) > n
  <2>1. Latest(list, n) = SubSeq(list, Len(list) - n + 1, Len(list))
    BY <1>1 DEF Latest
  <2>2. \A i \in (Len(list) - n + 1)..Len(list) : list[i] \in {7, 8}
    BY <1>1
  <2> QED BY <1>1, <2>1, <2>2
<1>2. CASE ~(Len(list) > n)
  <2>1. Latest(list, n) = SubSeq(list, 1, Len(list))
    BY <1>2 DEF Latest
  <2> QED BY <2>1
<1> QED BY <1>1, <1>2

LEMMA NoteStaysHarmless ==
  ASSUME WatchSizes, Harmless, NEW t \in Watchers, NEW anomaly, Note(t, anomaly)
  PROVE  Harmless'
<1>1. anomaly \in pending[t] /\ pending[t] \subseteq ((Feeds \cup {"stale_heartbeat"}) \X {7, 8})
  BY DEF Note, Harmless
<1>2. anomaly[2] \in {7, 8}
  BY <1>1
<1>3. pending' = [pending EXCEPT ![t] = @ \ {anomaly}] /\ latency' = latency
  BY DEF Note
<1>4. pending' \in [Watchers -> SUBSET ((Feeds \cup {"stale_heartbeat"}) \X {7, 8})]
  BY <1>3 DEF Harmless
<1>5. killed' = (killed \/ anomaly[2] >= Fatal)
  BY DEF Note
<1>6. ~(anomaly[2] >= Fatal)
  BY <1>2 DEF Fatal
<1>7. ~killed'
  BY <1>5, <1>6, Zenon DEF Harmless
<1>8. Append(anomalies, anomaly[2]) \in Seq({7, 8})
  BY <1>2 DEF Harmless
<1>9. anomalies' = Latest(Append(anomalies, anomaly[2]), Kept) /\ Kept \in Nat
  BY DEF Note, WatchSizes
<1>10. anomalies' \in Seq({7, 8})
  BY <1>8, <1>9, LatestIsPart, Zenon
<1> QED BY <1>3, <1>4, <1>7, <1>10 DEF Harmless

LEMMA WatchStepKeeps ==
  ASSUME WatchSizes, Harmless, [WatchNext]_watchVars PROVE Harmless'
<1>1. CASE UNCHANGED watchVars
  BY <1>1 DEF watchVars, Harmless
<1>2. ASSUME NEW t \in Watchers, Sweep(t) PROVE Harmless'
  <2>1. pending' = [pending EXCEPT ![t] = Findings]
        /\ UNCHANGED <<latency, anomalies, killed>>
    BY <1>2 DEF Sweep
  <2> QED BY <2>1, FoundIsMild DEF Harmless
<1>3. ASSUME NEW t \in Watchers, NEW anomaly, Note(t, anomaly) PROVE Harmless'
  BY <1>3, NoteStaysHarmless
<1>4. CASE Beat \/ Stop \/ Second \/ \E a \in Feeds : MarkTick(a)
  BY <1>4 DEF Beat, Stop, Second, MarkTick, Harmless
<1>5. ASSUME NEW g \in Guards, Start(g) \/ GuardEnds(g) PROVE Harmless'
  BY <1>5 DEF Start, GuardEnds, Harmless
<1>6. ASSUME NEW n \in Int, SetLatency(n) \/ CheckPriceJump(n) \/ CheckGap(n)
      PROVE  Harmless'
  BY <1>6 DEF SetLatency, CheckPriceJump, CheckGap, WatchSizes
<1>7. Engine \in Watchers /\ Guards \subseteq Watchers
  BY DEF Watchers
<1>8. CASE Sweep(Engine) \/ \E anomaly \in pending[Engine] : Note(Engine, anomaly)
  BY <1>2, <1>3, <1>7, <1>8
<1>9. ASSUME NEW g \in Guards, Start(g) \/ Guarding(g) PROVE Harmless'
  BY <1>2, <1>3, <1>5, <1>7, <1>9 DEF Guarding
<1>10. CASE \/ \E n \in 0..(2 * MaxLatency) : SetLatency(n)
            \/ \E n \in 5..12 : CheckPriceJump(n) \/ CheckGap(n)
  <2>1. \A n \in 0..(2 * MaxLatency) : n \in Int
    BY DEF WatchSizes
  <2> QED BY <1>6, <1>10, <2>1
<1> QED BY <1>1, <1>4, <1>8, <1>9, <1>10 DEF WatchNext

\* However long the heartbeat and the feeds stay away, no anomaly is fatal: the
\* watchdog never calls kill, and never says unhealthy.
THEOREM WatchdogNeverKills == ASSUME WatchSizes PROVE WatchSpec => []NeverFatal
<1>1. WatchInit => Harmless
  BY DEF WatchInit, Harmless
<1>2. Harmless /\ [WatchNext]_watchVars => Harmless'
  BY WatchStepKeeps
<1>3. Harmless => NeverFatal
  <2> SUFFICES ASSUME Harmless PROVE NeverFatal
    OBVIOUS
  <2>1. Latest(anomalies, Shown) \in Seq({7, 8})
    BY LatestIsPart DEF Harmless, WatchSizes
  <2>2. \A i \in 1..Len(Latest(anomalies, Shown)) : Latest(anomalies, Shown)[i] \in {7, 8}
    BY <2>1
  <2>3. Healthy
    BY <2>2 DEF Healthy, Fatal
  <2> QED BY <2>3, Zenon DEF NeverFatal, Harmless
<1> QED BY <1>1, <1>2, <1>3, PTL DEF WatchSpec

---------------------------------------------------------------------------
(* The alerts. *)

AlertInv ==
  /\ seen \subseteq Keys /\ rung \in [Keys -> Nat]
  /\ \A key \in Keys : rung[key] <= 1 /\ (rung[key] = 1 <=> key \in seen)

LEMMA RingKeeps ==
  ASSUME AlertInv, NEW key \in Keys \ seen, Ring(key) PROVE AlertInv'
BY DEF AlertInv, Ring

LEMMA AlertStepKeeps == ASSUME AlertInv, [AlertNext]_alertVars PROVE AlertInv'
<1>1. CASE UNCHANGED <<seen, rung>>
  BY <1>1 DEF AlertInv
<1>2. ASSUME NEW equity \in Equities, NEW day \in TargetDays, NEW hit \in BOOLEAN,
             OnAccount(equity, day, hit)
      PROVE  AlertInv'
  <2>1. UNCHANGED <<seen, rung>> \/ (day \notin seen /\ Ring(day))
    BY <1>2 DEF OnAccount
  <2> QED BY <1>1, <2>1, RingKeeps DEF Keys
<1>3. ASSUME NEW window \in Windows, OnNews(window) PROVE AlertInv'
  <2>1. UNCHANGED <<seen, rung>> \/ (window \notin seen /\ Ring(window))
    BY <1>3 DEF OnNews
  <2> QED BY <1>1, <2>1, RingKeeps DEF Keys
<1>4. CASE UNCHANGED alertVars \/ AttachAlerts \/ DetachAlerts \/ OnKill
           \/ \E pnl \in {-LossLimit, 1 - LossLimit} : OnTrade(pnl)
  BY <1>1, <1>4 DEF alertVars, AttachAlerts, DetachAlerts, OnKill, OnTrade
<1>5. ASSUME NEW kind, NEW ofNews, OnRisk(kind, ofNews) PROVE AlertInv'
  BY <1>1, <1>5 DEF OnRisk
<1> QED BY <1>2, <1>3, <1>4, <1>5 DEF AlertNext

\* A daily target and a news window ring once each, through any re-attach.
THEOREM AlertsRingOnce == AlertSpec => []RingsOnce
<1>1. AlertInit => AlertInv
  BY DEF AlertInit, AlertInv
<1>2. AlertInv /\ [AlertNext]_alertVars => AlertInv'
  BY AlertStepKeeps
<1>3. AlertInv => RingsOnce
  BY DEF AlertInv, RingsOnce
<1> QED BY <1>1, <1>2, <1>3, PTL DEF AlertSpec

---------------------------------------------------------------------------
(* The correlation clusters. *)

ClusterSizes ==
  /\ Assets \subseteq Nat /\ Unlabelled \notin Assets
  /\ QuoteOf \in [Assets -> Currencies] /\ Cap \in Nat

\* Every asset is below its root, and a root is its own.
Rooted(find) ==
  /\ find \in [Assets -> Assets]
  /\ \A a \in Assets : find[a] <= a /\ find[find[a]] = find[a]

\* What holds of each viewer's run.
RunsInv ==
  /\ busy \subseteq Viewers /\ known \in [Viewers -> SUBSET Assets]
  /\ todo \in [Viewers -> SUBSET Pairs] /\ joined \in [Viewers -> SUBSET Pairs]
  /\ root \in [Viewers -> [Assets -> Assets]]
  /\ \A v \in Viewers :
       /\ Rooted(root[v])
       /\ todo[v] \subseteq PairsOf(known[v])
       /\ \A a \in known[v] : root[v][a] \in known[v]
       /\ \A pair \in joined[v] : root[v][pair[1]] = root[v][pair[2]]
       /\ v \notin busy => root[v] = Alone /\ joined[v] = {}

LabelsInv == labels \in [Assets -> Assets \cup {Unlabelled}] /\ SmallestMember

OrdersUnder(label) == {order \in open : order.label = label}

LoadInv ==
  /\ open \subseteq Order /\ asked \subseteq Order /\ load \in [Labels -> Nat]
  /\ IsFiniteSet(open)
  /\ CapPerLabel

LEMMA AloneIsRooted == ASSUME ClusterSizes PROVE Rooted(Alone)
BY DEF ClusterSizes, Rooted, Alone

\* What a union of x and y makes of a forest: x and y share a root, roots that
\* were shared stay shared, and no root is new.
Joins(find, new, x, y) ==
  /\ Rooted(new) /\ new[x] = new[y]
  /\ \A p, q \in Assets : find[p] = find[q] => new[p] = new[q]
  /\ \A a \in Assets : new[a] \in {find[a], find[x], find[y]}

LEMMA UnionJoins ==
  ASSUME ClusterSizes, NEW find, Rooted(find), NEW x \in Assets, NEW y \in Assets
  PROVE  Joins(find, Union(find, x, y), x, y)
<1> DEFINE low  == IF find[x] < find[y] THEN find[x] ELSE find[y]
           high == IF find[x] < find[y] THEN find[y] ELSE find[x]
           new  == Union(find, x, y)
<1>1. /\ find \in [Assets -> Assets] /\ Assets \subseteq Nat
      /\ \A a \in Assets : find[a] \in Nat /\ a \in Nat
  BY DEF Rooted, ClusterSizes
<1>2. /\ low \in Assets /\ high \in Assets /\ low <= high
      /\ find[low] = low /\ find[high] = high
      /\ low \in {find[x], find[y]} /\ high \in {find[x], find[y]}
      /\ {find[x], find[y]} \subseteq {low, high}
  BY <1>1 DEF Rooted
<1>3. new = [a \in Assets |-> IF find[a] = high THEN low ELSE find[a]]
  BY DEF Union
<1> HIDE DEF low, high, new
<1>4. \A a \in Assets : new[a] = IF find[a] = high THEN low ELSE find[a]
  BY <1>3
<1>5. new \in [Assets -> Assets]
  BY <1>1, <1>2, <1>3
<1>6. \A a \in Assets : new[a] <= a
  BY <1>1, <1>2, <1>4 DEF Rooted
<1>7. \A a \in Assets : new[new[a]] = new[a]
  <2> TAKE a \in Assets
  <2>1. CASE find[a] = high
    BY <1>2, <1>4, <2>1
  <2>2. CASE find[a] # high
    BY <1>1, <1>4, <2>2 DEF Rooted
  <2> QED BY <2>1, <2>2
<1>8. new[x] = new[y]
  BY <1>2, <1>4
<1>9. \A p, q \in Assets : find[p] = find[q] => new[p] = new[q]
  BY <1>4
<1>10. \A a \in Assets : new[a] \in {find[a], find[x], find[y]}
  BY <1>2, <1>4
<1>11. Joins(find, new, x, y)
  BY <1>5, <1>6, <1>7, <1>8, <1>9, <1>10 DEF Rooted, Joins
<1> QED BY <1>11 DEF new

LEMMA ReclusterKeeps ==
  ASSUME ClusterSizes, RunsInv, NEW v \in Viewers, Recluster(v) PROVE RunsInv'
<1>1. PICK assets \in SUBSET Assets :
        known' = [known EXCEPT ![v] = assets]
        /\ todo' = [todo EXCEPT ![v] = PairsOf(assets)]
  BY DEF Recluster
<1>2. v \notin busy /\ busy' = busy \cup {v} /\ root' = root /\ joined' = joined
  BY DEF Recluster
<1>3. PairsOf(assets) \subseteq Pairs
  BY DEF PairsOf, Pairs
<1>4. root[v] = Alone
  BY <1>2 DEF RunsInv
<1>5. /\ known' \in [Viewers -> SUBSET Assets] /\ todo' \in [Viewers -> SUBSET Pairs]
      /\ known'[v] = assets /\ todo'[v] = PairsOf(assets)
      /\ \A w \in Viewers : w # v => known'[w] = known[w] /\ todo'[w] = todo[w]
  BY <1>1, <1>3 DEF RunsInv
<1>6. ASSUME NEW w \in Viewers
      PROVE  /\ todo'[w] \subseteq PairsOf(known'[w])
             /\ \A a \in known'[w] : root[w][a] \in known'[w]
  <2>1. CASE w = v
    BY <1>4, <1>5, <2>1 DEF Alone
  <2>2. CASE w # v
    BY <1>5, <2>2 DEF RunsInv
  <2> QED BY <2>1, <2>2
<1> QED BY <1>2, <1>5, <1>6 DEF RunsInv

LEMMA CompareKeeps ==
  ASSUME ClusterSizes, RunsInv, NEW v \in Viewers, NEW pair \in todo[v], Compare(v, pair)
  PROVE  RunsInv'
<1>1. /\ v \in busy /\ todo' = [todo EXCEPT ![v] = @ \ {pair}]
      /\ busy' = busy /\ known' = known
  BY DEF Compare
<1>2. /\ pair \in PairsOf(known[v]) /\ pair \in Pairs
      /\ pair[1] \in known[v] /\ pair[2] \in known[v]
      /\ pair[1] \in Assets /\ pair[2] \in Assets
  BY DEF RunsInv, PairsOf, Pairs
<1>3. /\ todo' \in [Viewers -> SUBSET Pairs]
      /\ \A w \in Viewers : todo'[w] \subseteq todo[w]
  BY <1>1 DEF RunsInv
<1>4. CASE UNCHANGED <<root, joined>>
  BY <1>1, <1>3, <1>4 DEF RunsInv
<1>5. CASE /\ root' = [root EXCEPT ![v] = Union(@, pair[1], pair[2])]
           /\ joined' = [joined EXCEPT ![v] = @ \cup {pair}]
  <2> DEFINE old == root[v]
             new == Union(old, pair[1], pair[2])
  <2>1. Rooted(old) /\ old \in [Assets -> Assets]
    BY DEF RunsInv
  <2>2. /\ Rooted(new) /\ new[pair[1]] = new[pair[2]]
        /\ \A p, q \in Assets : old[p] = old[q] => new[p] = new[q]
        /\ \A a \in Assets : new[a] \in {old[a], old[pair[1]], old[pair[2]]}
    <3> DEFINE x == pair[1]
               y == pair[2]
    <3>1. x \in Assets /\ y \in Assets
      BY <1>2
    <3> HIDE DEF old, x, y
    <3>2. Joins(old, Union(old, x, y), x, y)
      BY <2>1, <3>1, UnionJoins
    <3> QED BY <3>2 DEF x, y, Joins
  <2>3. /\ root' = [root EXCEPT ![v] = new] /\ \A a \in known[v] : old[a] \in known[v]
        /\ \A q \in joined[v] : old[q[1]] = old[q[2]]
    BY <1>5 DEF RunsInv
  <2> HIDE DEF old, new
  <2>4. /\ root' \in [Viewers -> [Assets -> Assets]] /\ root'[v] = new
        /\ \A w \in Viewers : w # v => root'[w] = root[w]
    BY <2>2, <2>3 DEF RunsInv, Rooted
  <2>5. /\ joined' \in [Viewers -> SUBSET Pairs] /\ joined'[v] = joined[v] \cup {pair}
        /\ \A w \in Viewers : w # v => joined'[w] = joined[w]
    BY <1>2, <1>5 DEF RunsInv
  <2>6. \A a \in known[v] : new[a] \in known[v]
    BY <1>2, <2>2, <2>3 DEF RunsInv
  <2>7. \A q \in joined[v] : q[1] \in Assets /\ q[2] \in Assets
    BY DEF RunsInv, Pairs, PairsOf
  <2>8. \A q \in joined'[v] : new[q[1]] = new[q[2]]
    BY <2>2, <2>3, <2>5, <2>7
  <2>9. ASSUME NEW w \in Viewers
        PROVE  /\ Rooted(root'[w])
               /\ todo'[w] \subseteq PairsOf(known[w])
               /\ \A a \in known[w] : root'[w][a] \in known[w]
               /\ \A q \in joined'[w] : root'[w][q[1]] = root'[w][q[2]]
               /\ w \notin busy => root'[w] = Alone /\ joined'[w] = {}
    <3>1. CASE w = v
      BY <1>1, <1>3, <2>2, <2>4, <2>6, <2>8, <3>1 DEF RunsInv
    <3>2. CASE w # v
      BY <1>3, <2>4, <2>5, <3>2 DEF RunsInv
    <3> QED BY <3>1, <3>2
  <2> QED BY <1>1, <1>3, <2>4, <2>5, <2>9 DEF RunsInv
<1> QED BY <1>4, <1>5 DEF Compare

LEMMA LabelKeeps ==
  ASSUME ClusterSizes, RunsInv, LabelsInv, NEW v \in Viewers, Label(v)
  PROVE  RunsInv' /\ LabelsInv'
<1>1. /\ busy' = busy \ {v} /\ todo' = todo /\ todo[v] = {}
      /\ labels' = [a \in Assets |-> IF a \in known[v] THEN root[v][a] ELSE Unlabelled]
      /\ known' = [known EXCEPT ![v] = {}] /\ root' = [root EXCEPT ![v] = Alone]
      /\ joined' = [joined EXCEPT ![v] = {}]
  BY DEF Label
<1>2. Rooted(Alone) /\ Alone \in [Assets -> Assets]
  BY AloneIsRooted DEF Rooted
<1>3. RunsInv'
  <2>1. /\ known' \in [Viewers -> SUBSET Assets] /\ known'[v] = {}
        /\ root' \in [Viewers -> [Assets -> Assets]] /\ root'[v] = Alone
        /\ joined' \in [Viewers -> SUBSET Pairs] /\ joined'[v] = {}
        /\ \A w \in Viewers : w # v => /\ known'[w] = known[w] /\ root'[w] = root[w]
                                       /\ joined'[w] = joined[w]
    BY <1>1, <1>2 DEF RunsInv
  <2>2. ASSUME NEW w \in Viewers
        PROVE  /\ Rooted(root'[w])
               /\ todo'[w] \subseteq PairsOf(known'[w])
               /\ \A a \in known'[w] : root'[w][a] \in known'[w]
               /\ \A q \in joined'[w] : root'[w][q[1]] = root'[w][q[2]]
               /\ w \notin busy' => root'[w] = Alone /\ joined'[w] = {}
    <3>1. CASE w = v
      BY <1>1, <1>2, <2>1, <3>1
    <3>2. CASE w # v
      BY <1>1, <2>1, <3>2 DEF RunsInv
    <3> QED BY <3>1, <3>2
  <2> QED BY <1>1, <2>1, <2>2 DEF RunsInv
<1>4. LabelsInv'
  <2>1. /\ root[v] \in [Assets -> Assets] /\ Rooted(root[v])
        /\ \A a \in known[v] : root[v][a] \in known[v]
    BY DEF RunsInv
  <2>2. labels' \in [Assets -> Assets \cup {Unlabelled}]
    BY <1>1, <2>1
  <2>3. ASSUME NEW a \in Assets, labels'[a] # Unlabelled
        PROVE  labels'[a] <= a /\ labels'[labels'[a]] = labels'[a]
    <3>1. a \in known[v] /\ labels'[a] = root[v][a]
      BY <1>1, <2>3
    <3>2. root[v][a] \in known[v] /\ root[v][a] \in Assets
      BY <2>1, <3>1
    <3>3. labels'[root[v][a]] = root[v][root[v][a]]
      BY <1>1, <3>2
    <3> QED BY <2>1, <3>1, <3>3 DEF Rooted
  <2> QED BY <2>2, <2>3 DEF LabelsInv, SmallestMember
<1> QED BY <1>3, <1>4

LEMMA OrdersUnderGrow ==
  ASSUME LoadInv, NEW order \in Order \ open, NEW label
  PROVE  Cardinality({o \in open \cup {order} : o.label = label})
         = Cardinality(OrdersUnder(label)) + (IF label = order.label THEN 1 ELSE 0)
<1>1. IsFiniteSet(OrdersUnder(label)) /\ order \notin OrdersUnder(label)
      /\ Cardinality(OrdersUnder(label)) \in Nat
  BY FS_Subset, FS_CardinalityType DEF LoadInv, OrdersUnder
<1> DEFINE grown == {o \in open \cup {order} : o.label = label}
           under == OrdersUnder(label)
<1>2. CASE label = order.label
  <2>1. grown = under \cup {order}
    BY <1>2 DEF OrdersUnder
  <2> HIDE DEF grown, under
  <2>2. Cardinality(grown) = Cardinality(under) + 1
    BY <1>1, <2>1, FS_AddElement DEF under
  <2> QED BY <1>2, <2>2 DEF grown, under
<1>3. CASE label # order.label
  <2>1. grown = under
    BY <1>3 DEF OrdersUnder
  <2>2. Cardinality(under) = Cardinality(under) + 0
    BY <1>1
  <2> HIDE DEF grown, under
  <2> QED BY <1>3, <2>1, <2>2 DEF grown, under
<1> QED BY <1>2, <1>3

LEMMA OrdersUnderShrink ==
  ASSUME LoadInv, NEW order \in open, NEW label
  PROVE  /\ Cardinality({o \in open \ {order} : o.label = label})
            = Cardinality(OrdersUnder(label)) - (IF label = order.label THEN 1 ELSE 0)
         /\ label = order.label => Cardinality(OrdersUnder(label)) > 0
         /\ Cardinality(OrdersUnder(label)) \in Nat
<1>1. IsFiniteSet(OrdersUnder(label)) /\ Cardinality(OrdersUnder(label)) \in Nat
  BY FS_Subset, FS_CardinalityType DEF LoadInv, OrdersUnder
<1>2. CASE label = order.label
  <2>1. {o \in open \ {order} : o.label = label} = OrdersUnder(label) \ {order}
    BY DEF OrdersUnder
  <2>2. order \in OrdersUnder(label)
    BY <1>2 DEF OrdersUnder
  <2>3. Cardinality(OrdersUnder(label)) # 0
    BY <1>1, <2>2, FS_EmptySet
  <2>4. Cardinality(OrdersUnder(label) \ {order}) = Cardinality(OrdersUnder(label)) - 1
    BY <1>1, <2>2, FS_RemoveElement
  <2> QED BY <1>1, <1>2, <2>1, <2>3, <2>4
<1>3. CASE label # order.label
  <2> DEFINE shrunk == {o \in open \ {order} : o.label = label}
             under == OrdersUnder(label)
  <2>1. shrunk = under
    BY <1>3 DEF OrdersUnder
  <2>2. Cardinality(under) = Cardinality(under) - 0
    BY <1>1
  <2> HIDE DEF shrunk, under
  <2>3. Cardinality(shrunk) = Cardinality(under) - (IF label = order.label THEN 1 ELSE 0)
    BY <1>3, <2>1, <2>2
  <2> QED BY <1>1, <1>3, <2>3 DEF shrunk, under
<1> QED BY <1>2, <1>3

LEMMA OpenKeeps ==
  ASSUME ClusterSizes, LoadInv, NEW order \in asked, Open(order) PROVE LoadInv'
<1>1. asked' = {} /\ order \in Order
  BY DEF Open, LoadInv
<1>2. CASE UNCHANGED <<open, load>>
  BY <1>1, <1>2 DEF LoadInv, CapPerLabel
<1>3. CASE /\ load[order.label] < Cap
           /\ \A other \in open : other.asset # order.asset
           /\ open' = open \cup {order}
           /\ load' = [load EXCEPT ![order.label] = @ + 1]
  <2>1. order \notin open
    BY <1>3
  <2>2. IsFiniteSet(open') /\ open' \subseteq Order
    BY <1>1, <1>3, FS_AddElement DEF LoadInv
  <2>3. order.label \in Labels
    BY <1>1 DEF Order
  <2>4. /\ load' \in [Labels -> Nat]
        /\ \A label \in Labels :
             load'[label] = load[label] + (IF label = order.label THEN 1 ELSE 0)
    BY <1>3, <2>3 DEF LoadInv
  <2>5. ASSUME NEW label \in Labels
        PROVE  /\ load'[label] = Cardinality({o \in open' : o.label = label})
               /\ load'[label] <= Cap
    <3>1. load[label] = Cardinality(OrdersUnder(label)) /\ load[label] <= Cap
          /\ load[label] \in Nat
      BY DEF LoadInv, CapPerLabel, OrdersUnder
    <3>2. Cardinality({o \in open' : o.label = label})
          = Cardinality(OrdersUnder(label)) + (IF label = order.label THEN 1 ELSE 0)
      BY <1>1, <1>3, <2>1, OrdersUnderGrow
    <3> QED BY <1>3, <2>4, <3>1, <3>2 DEF ClusterSizes
  <2> QED BY <1>1, <2>2, <2>4, <2>5 DEF LoadInv, CapPerLabel
<1> QED BY <1>2, <1>3 DEF Open

LEMMA CloseKeeps ==
  ASSUME ClusterSizes, LoadInv, NEW order \in open, Close(order) PROVE LoadInv'
<1>1. open' = open \ {order} /\ asked' = asked /\ order.label \in Labels
      /\ load' = [load EXCEPT ![order.label] = IF @ > 0 THEN @ - 1 ELSE 0]
  BY DEF Close, LoadInv, Order
<1>2. IsFiniteSet(open') /\ open' \subseteq Order
  BY <1>1, FS_RemoveElement DEF LoadInv
<1>3. /\ load' \in [Labels -> Nat]
      /\ \A label \in Labels :
           load'[label] = IF label # order.label THEN load[label]
                          ELSE IF load[label] > 0 THEN load[label] - 1 ELSE 0
  BY <1>1 DEF LoadInv
<1>4. ASSUME NEW label \in Labels
      PROVE  /\ load'[label] = Cardinality({o \in open' : o.label = label})
             /\ load'[label] <= Cap
  <2>1. load[label] = Cardinality(OrdersUnder(label)) /\ load[label] <= Cap
        /\ load[label] \in Nat
    BY DEF LoadInv, CapPerLabel, OrdersUnder
  <2>2. /\ Cardinality({o \in open' : o.label = label})
           = Cardinality(OrdersUnder(label)) - (IF label = order.label THEN 1 ELSE 0)
        /\ label = order.label => Cardinality(OrdersUnder(label)) > 0
    BY <1>1, OrdersUnderShrink
  <2> QED BY <1>3, <2>1, <2>2 DEF ClusterSizes
<1> QED BY <1>1, <1>2, <1>3, <1>4 DEF LoadInv, CapPerLabel

ClusterInv == RunsInv /\ LabelsInv /\ LoadInv

LEMMA ClusterStarts == ASSUME ClusterSizes, ClusterInit PROVE ClusterInv
<1>1. Rooted(Alone) /\ Alone \in [Assets -> Assets]
  BY AloneIsRooted DEF Rooted
<1>2. RunsInv
  BY <1>1 DEF ClusterInit, RunsInv
<1>3. LabelsInv
  BY DEF ClusterInit, LabelsInv, SmallestMember
<1>4. open = {} /\ asked = {} /\ load = [label \in Labels |-> 0]
  BY DEF ClusterInit
<1>5. \A label : {order \in {} : order.label = label} = {}
  OBVIOUS
<1>6. CapPerLabel
  BY <1>4, <1>5, FS_EmptySet DEF CapPerLabel, ClusterSizes
<1>7. LoadInv
  BY <1>4, <1>6, FS_EmptySet DEF LoadInv
<1> QED BY <1>2, <1>3, <1>7 DEF ClusterInv

LEMMA ClusterStepKeeps ==
  ASSUME ClusterSizes, ClusterInv, [ClusterNext]_clusterVars PROVE ClusterInv'
<1> USE DEF ClusterInv
<1>1. ASSUME UNCHANGED runs PROVE RunsInv'
  BY <1>1 DEF runs, RunsInv
<1>2. ASSUME UNCHANGED labels PROVE LabelsInv'
  BY <1>2 DEF LabelsInv, SmallestMember
<1>3. ASSUME UNCHANGED <<asked, open, load>> PROVE LoadInv'
  BY <1>3 DEF LoadInv, CapPerLabel
<1>4. CASE UNCHANGED clusterVars
  BY <1>1, <1>2, <1>3, <1>4 DEF clusterVars
<1>5. ASSUME NEW v \in Viewers,
             Recluster(v) \/ Label(v) \/ \E pair \in todo[v] : Compare(v, pair)
      PROVE  ClusterInv'
  <2>1. RunsInv'
    BY <1>5, ReclusterKeeps, CompareKeeps, LabelKeeps
  <2>2. LabelsInv'
    BY <1>2, <1>5, LabelKeeps DEF Recluster, Compare
  <2>3. LoadInv'
    BY <1>3, <1>5 DEF Recluster, Compare, Label
  <2> QED BY <2>1, <2>2, <2>3
<1>6. ASSUME NEW a \in Assets, Ask(a) PROVE ClusterInv'
  <2>1. ClusterOf(a) \in Labels
    BY DEF ClusterOf, Labels, LabelsInv, ClusterSizes
  <2>2. asked' \subseteq Order /\ UNCHANGED <<runs, labels, open, load>>
    BY <1>6, <2>1 DEF Ask, Order
  <2>3. LoadInv'
    BY <2>2 DEF LoadInv, CapPerLabel
  <2> QED BY <1>1, <1>2, <2>2, <2>3
<1>7. ASSUME NEW order \in asked, Open(order) PROVE ClusterInv'
  BY <1>1, <1>2, <1>7, OpenKeeps DEF Open
<1>8. ASSUME NEW order \in open, Close(order) PROVE ClusterInv'
  BY <1>1, <1>2, <1>8, CloseKeeps DEF Close
<1> QED BY <1>4, <1>5, <1>6, <1>7, <1>8 DEF ClusterNext

LEMMA ClusterInvariance == ASSUME ClusterSizes PROVE ClusterSpec => []ClusterInv
<1>1. ClusterInit => ClusterInv
  BY ClusterStarts
<1>2. ClusterInv /\ [ClusterNext]_clusterVars => ClusterInv'
  BY ClusterStepKeeps
<1> QED BY <1>1, <1>2, PTL DEF ClusterSpec

\* A label counts the orders that are open under it, and never more than the
\* cap, however labels and orders move.
THEOREM LabelsAreCapped == ASSUME ClusterSizes PROVE ClusterSpec => []CapPerLabel
<1>1. ClusterInv => CapPerLabel
  BY DEF ClusterInv, LoadInv
<1> QED BY ClusterInvariance, <1>1, PTL

\* A label is the lexicographically smallest member of its own cluster.
THEOREM LabelsAreSmallest == ASSUME ClusterSizes PROVE ClusterSpec => []SmallestMember
<1>1. ClusterInv => SmallestMember
  BY DEF ClusterInv, LabelsInv
<1> QED BY ClusterInvariance, <1>1, PTL

\* Assets that a run of the union-find joined have one label at its end.
THEOREM TiedAssetsShareALabel ==
  ASSUME ClusterSizes PROVE ClusterSpec => []TiedShareALabel
<1>1. ClusterInv => TiedShareALabel
  BY DEF ClusterInv, RunsInv, TiedShareALabel
<1> QED BY ClusterInvariance, <1>1, PTL

---------------------------------------------------------------------------
(* The almanac. *)

\* Whatever weekday a month begins with, it has a first Friday in its first
\* week: the payrolls always have a day.
THEOREM PayrollsInFirstWeek ==
  ASSUME NEW first \in 0..6
  PROVE  PayrollDay(first) \in 1..7 /\ Weekday(first, PayrollDay(first)) = 4
<1>1. \E day \in 1..7 : Weekday(first, day) = 4
  <2> DEFINE day == IF first <= 4 THEN 5 - first ELSE 12 - first
  <2>1. day \in 1..7 /\ Weekday(first, day) = 4
    BY DEF Weekday
  <2> QED BY <2>1
<1> QED BY <1>1 DEF PayrollDay, FirstFriday

\* A release that stops the trading of its currency is on the console's list,
\* as long as the list looks ahead at least as far as the window is wide.
THEOREM ActiveIsListed ==
  ASSUME NEW releases \in SUBSET Release, NEW now \in Int, NEW horizon \in Nat,
         NEW currency, NEW release \in ActiveEvents(releases, now, currency),
         release.blackout <= horizon
  PROVE  release \in Upcoming(releases, now, horizon)
<1>1. release \in releases /\ release.ts \in Int /\ release.blackout \in Nat
      /\ release.ts - release.blackout <= now /\ now <= release.ts + release.blackout
  BY DEF ActiveEvents, ActiveAt, Release
<1>2. now - release.blackout <= release.ts /\ release.ts <= now + horizon
  BY <1>1
<1> QED BY <1>1, <1>2 DEF Upcoming

\* The engine's calendar and the blackout flag agree: nothing is tradable
\* against its news currency while is_blackout is false of every release.
THEOREM BlackoutCoversVeto ==
  ASSUME NEW releases \in SUBSET Release, NEW now \in Int, NEW asset,
         ~Tradable(releases, now, asset)
  PROVE  IsBlackout(releases, now)
BY DEF Tradable, ActiveEvents, IsBlackout

---------------------------------------------------------------------------
(* The web terminal: the streams. *)

HubTypes ==
  /\ issued \in Nat /\ listed \subseteq Conns
  /\ queue \in [Conns -> Seq(Cast)] /\ streamed \in [Conns -> [Threads -> Nat]]
  /\ casts \subseteq [id : Nat, by : Threads, rest : SUBSET Conns]

\* What the queue of one stream holds, after what the stream has written.
InOrderAfter(q, row) ==
  /\ \A i \in 1..Len(q) : q[i].id > row[q[i].by]
  /\ \A i, j \in 1..Len(q) : i < j /\ q[i].by = q[j].by => q[i].id < q[j].id

\* All of it is older than broadcast n of thread t.
OlderThan(q, row, t, n) ==
  /\ row[t] < n
  /\ \A i \in 1..Len(q) : q[i].by = t => q[i].id < n

\* A thread has one broadcast under way, and it is the newest of that thread
\* for every queue it has not reached.
CastsNewest ==
  /\ \A x \in casts : x.id <= issued
  /\ \A x, y \in casts : x.by = y.by => x = y
  /\ \A c \in Conns, t \in Threads : OlderThan(queue[c], streamed[c], t, issued + 1)
  /\ \A x \in casts : \A c \in x.rest : OlderThan(queue[c], streamed[c], x.by, x.id)

HubInv ==
  /\ HubTypes /\ CastsNewest
  /\ \A c \in Conns : InOrderAfter(queue[c], streamed[c])

LEMMA BroadcastKeeps ==
  ASSUME HubInv, NEW t \in Threads, NEW isLog \in BOOLEAN, Broadcast(t, isLog)
  PROVE  HubInv'
<1> DEFINE new == [id |-> issued + 1, by |-> t, rest |-> listed]
<1>1. /\ casts' = casts \cup {new} /\ issued' = issued + 1
      /\ queue' = queue /\ streamed' = streamed /\ listed' = listed
      /\ \A x \in casts : x.by # t
  BY DEF Broadcast
<1>2. new \in [id : Nat, by : Threads, rest : SUBSET Conns]
  BY DEF HubInv, HubTypes
<1>3. HubTypes'
  BY <1>1, <1>2 DEF HubInv, HubTypes
<1>4. \A x \in casts' : x.id <= issued'
  BY <1>1 DEF HubInv, HubTypes, CastsNewest
<1>5. \A x, y \in casts' : x.by = y.by => x = y
  BY <1>1 DEF HubInv, CastsNewest
<1>6. ASSUME NEW c \in Conns, NEW u \in Threads
      PROVE  OlderThan(queue[c], streamed[c], u, issued + 2)
  <2>1. queue[c] \in Seq(Cast) /\ streamed[c][u] \in Nat /\ issued \in Nat
    BY DEF HubInv, HubTypes
  <2>2. OlderThan(queue[c], streamed[c], u, issued + 1)
    BY DEF HubInv, CastsNewest
  <2> DEFINE q == queue[c]
  <2>3. q \in Seq(Cast)
    BY <2>1
  <2>4. /\ streamed[c][u] < issued + 1
        /\ \A i \in 1..Len(q) : q[i].by = u => q[i].id < issued + 1
    BY <2>2 DEF OlderThan
  <2> HIDE DEF q
  <2>5. \A i \in 1..Len(q) : q[i] \in Cast
    BY <2>3
  <2>6. \A i \in 1..Len(q) : q[i].id \in Nat
    BY <2>5 DEF Cast
  <2>7. \A i \in 1..Len(q) : q[i].by = u => q[i].id < issued + 2
    BY <2>1, <2>4, <2>6
  <2> QED BY <2>1, <2>4, <2>7 DEF OlderThan, q
<1>7. issued' + 1 = issued + 2
  BY <1>1 DEF HubInv, HubTypes
<1>8. \A c \in Conns, u \in Threads : OlderThan(queue'[c], streamed'[c], u, issued' + 1)
  BY <1>1, <1>6, <1>7
<1>9. \A x \in casts' : \A c \in x.rest : OlderThan(queue'[c], streamed'[c], x.by, x.id)
  <2>1. \A c \in listed : OlderThan(queue[c], streamed[c], t, issued + 1)
    BY DEF HubInv, HubTypes, CastsNewest
  <2>2. \A x \in casts : \A c \in x.rest : OlderThan(queue[c], streamed[c], x.by, x.id)
    BY DEF HubInv, CastsNewest
  <2>3. \A c \in new.rest : OlderThan(queue[c], streamed[c], new.by, new.id)
    BY <2>1
  <2> HIDE DEF new
  <2> QED BY <1>1, <2>2, <2>3
<1>10. CastsNewest'
  BY <1>4, <1>5, <1>8, <1>9 DEF CastsNewest
<1>11. (\A c \in Conns : InOrderAfter(queue[c], streamed[c]))'
  BY <1>1 DEF HubInv
<1> QED BY <1>3, <1>10, <1>11 DEF HubInv

\* A queue that is in order, and older than an event, is in order with it.
LEMMA AppendKeepsOrder ==
  ASSUME NEW q \in Seq(Cast), NEW row \in [Threads -> Nat], NEW event \in Cast,
         InOrderAfter(q, row), OlderThan(q, row, event.by, event.id)
  PROVE  /\ Append(q, event) \in Seq(Cast)
         /\ InOrderAfter(Append(q, event), row)
<1> DEFINE r == Append(q, event)
<1>1. /\ r \in Seq(Cast) /\ Len(r) = Len(q) + 1 /\ Len(q) \in Nat
      /\ \A i \in 1..Len(q) : r[i] = q[i]
      /\ r[Len(q) + 1] = event
  OBVIOUS
<1>2. \A i \in 1..Len(q) : q[i] \in Cast
  OBVIOUS
<1>3. event.id \in Nat /\ event.by \in Threads
  BY DEF Cast
<1> HIDE DEF r
<1>4. ASSUME NEW i \in 1..Len(r) PROVE r[i].id > row[r[i].by]
  <2>1. CASE i = Len(q) + 1
    BY <1>1, <1>3, <2>1 DEF OlderThan
  <2>2. CASE i \in 1..Len(q)
    BY <1>1, <2>2 DEF InOrderAfter
  <2> QED BY <1>1, <2>1, <2>2
<1>5. ASSUME NEW i \in 1..Len(r), NEW j \in 1..Len(r), i < j, r[i].by = r[j].by
      PROVE  r[i].id < r[j].id
  <2>1. i \in 1..Len(q)
    BY <1>1, <1>5
  <2>2. CASE j = Len(q) + 1
    BY <1>1, <1>5, <2>1, <2>2 DEF OlderThan
  <2>3. CASE j \in 1..Len(q)
    BY <1>1, <1>5, <2>1, <2>3 DEF InOrderAfter
  <2> QED BY <1>1, <2>2, <2>3
<1>6. InOrderAfter(r, row)
  BY <1>4, <1>5 DEF InOrderAfter
<1> QED BY <1>1, <1>6 DEF r

LEMMA AppendStaysOlder ==
  ASSUME NEW q \in Seq(Cast), NEW row \in [Threads -> Nat], NEW event \in Cast,
         NEW t, NEW n \in Nat, OlderThan(q, row, t, n), event.by = t => event.id < n
  PROVE  OlderThan(Append(q, event), row, t, n)
<1>1. /\ Len(Append(q, event)) = Len(q) + 1 /\ Len(q) \in Nat
      /\ \A i \in 1..Len(q) : Append(q, event)[i] = q[i]
      /\ Append(q, event)[Len(q) + 1] = event
  OBVIOUS
<1>2. ASSUME NEW i \in 1..Len(Append(q, event)), Append(q, event)[i].by = t
      PROVE  Append(q, event)[i].id < n
  <2>1. CASE i = Len(q) + 1
    BY <1>1, <1>2, <2>1
  <2>2. CASE i \in 1..Len(q)
    BY <1>1, <1>2, <2>2 DEF OlderThan
  <2> QED BY <1>1, <2>1, <2>2
<1> QED BY <1>2 DEF OlderThan

LEMMA PutKeeps ==
  ASSUME HubInv, NEW x \in casts, NEW c \in Conns, Put(x, c)
  PROVE  HubInv'
<1> DEFINE left  == [x EXCEPT !.rest = @ \ {c}]
           event == [id |-> x.id, by |-> x.by]
           q     == queue[c]
           fits  == Len(q) < QueueLimit
           grown == IF fits THEN Append(q, event) ELSE q
<1>1. /\ casts' = (casts \ {x}) \cup {left} /\ queue' = [queue EXCEPT ![c] = grown]
      /\ issued' = issued /\ streamed' = streamed /\ listed' = listed
      /\ c \in x.rest
  BY DEF Put
<1>2. /\ x \in [id : Nat, by : Threads, rest : SUBSET Conns]
      /\ q \in Seq(Cast) /\ streamed[c] \in [Threads -> Nat]
      /\ issued \in Nat /\ x.id <= issued
  BY DEF HubInv, HubTypes, CastsNewest
<1>3. /\ left \in [id : Nat, by : Threads, rest : SUBSET Conns]
      /\ left.id = x.id /\ left.by = x.by /\ left.rest = x.rest \ {c}
  BY <1>2
<1>4. event \in Cast /\ event.id = x.id /\ event.by = x.by
  BY <1>2 DEF Cast
<1>5. InOrderAfter(q, streamed[c]) /\ OlderThan(q, streamed[c], x.by, x.id)
  BY <1>1 DEF HubInv, CastsNewest
<1> HIDE DEF left, event, q
<1>6. Append(q, event) \in Seq(Cast) /\ InOrderAfter(Append(q, event), streamed[c])
  BY <1>2, <1>4, <1>5, AppendKeepsOrder
<1>7. grown \in Seq(Cast) /\ InOrderAfter(grown, streamed[c])
  BY <1>2, <1>5, <1>6
<1>8. ASSUME NEW t, NEW n \in Nat, OlderThan(q, streamed[c], t, n), x.by = t => x.id < n
      PROVE  OlderThan(grown, streamed[c], t, n)
  <2>1. event.by = t => event.id < n
    BY <1>4, <1>8
  <2>2. OlderThan(Append(q, event), streamed[c], t, n)
    BY <1>2, <1>4, <1>8, <2>1, AppendStaysOlder
  <2> QED BY <1>8, <2>2
<1> HIDE DEF grown
<1>9. /\ queue' \in [Conns -> Seq(Cast)] /\ queue'[c] = grown
      /\ \A d \in Conns \ {c} : queue'[d] = queue[d]
  BY <1>1, <1>7 DEF HubInv, HubTypes
<1>10. HubTypes'
  BY <1>1, <1>3, <1>9 DEF HubInv, HubTypes
<1>11. (\A d \in Conns : InOrderAfter(queue[d], streamed[d]))'
  <2> SUFFICES ASSUME NEW d \in Conns PROVE InOrderAfter(queue'[d], streamed[d])
    BY <1>1
  <2>1. CASE d = c
    BY <1>7, <1>9, <2>1
  <2>2. CASE d # c
    BY <1>9, <2>2 DEF HubInv
  <2> QED BY <2>1, <2>2
<1>12. \A y \in casts' : y.id <= issued'
  BY <1>1, <1>2, <1>3 DEF HubInv, CastsNewest
<1>13. \A y, z \in casts' : y.by = z.by => y = z
  <2>1. \A y, z \in casts : y.by = z.by => y = z
    BY DEF HubInv, CastsNewest
  <2> QED BY <1>1, <1>3, <2>1
<1>14. ASSUME NEW d \in Conns, NEW t \in Threads
       PROVE  OlderThan(queue'[d], streamed[d], t, issued + 1)
  <2>1. OlderThan(queue[d], streamed[d], t, issued + 1)
    BY DEF HubInv, CastsNewest
  <2>2. CASE d = c
    <3>1. OlderThan(q, streamed[c], t, issued + 1)
      BY <2>1, <2>2 DEF q
    <3>2. x.by = t => x.id < issued + 1
      BY <1>2
    <3> QED BY <1>2, <1>8, <1>9, <2>2, <3>1, <3>2
  <2>3. CASE d # c
    BY <1>9, <2>1, <2>3
  <2> QED BY <2>2, <2>3
<1>15. ASSUME NEW y \in casts', NEW d \in y.rest
       PROVE  OlderThan(queue'[d], streamed[d], y.by, y.id)
  <2>1. PICK z \in casts : z.by = y.by /\ z.id = y.id /\ d \in z.rest /\ (z = x => d # c)
    <3>1. CASE y = left
      BY <1>3, <1>15, <3>1
    <3>2. CASE y \in casts /\ y # x
      BY <1>15, <3>2
    <3> QED BY <1>1, <3>1, <3>2
  <2>2. OlderThan(queue[d], streamed[d], y.by, y.id) /\ d \in Conns /\ y.id \in Nat
    BY <2>1 DEF HubInv, HubTypes, CastsNewest
  <2>3. CASE d = c
    <3>1. OlderThan(q, streamed[c], y.by, y.id)
      BY <2>2, <2>3 DEF q
    <3>2. x.by # y.by
      BY <2>1, <2>3 DEF HubInv, CastsNewest
    <3> QED BY <1>8, <1>9, <2>2, <2>3, <3>1, <3>2
  <2>4. CASE d # c
    BY <1>9, <2>2, <2>4
  <2> QED BY <2>3, <2>4
<1>16. CastsNewest'
  BY <1>1, <1>12, <1>13, <1>14, <1>15 DEF CastsNewest
<1> QED BY <1>10, <1>11, <1>16 DEF HubInv

LEMMA StreamOutKeeps ==
  ASSUME HubInv, NEW c \in Conns, StreamOut(c)
  PROVE  HubInv'
<1> DEFINE q    == queue[c]
           head == Head(q)
           rest == Tail(q)
           row  == [streamed[c] EXCEPT ![head.by] = head.id]
<1>1. /\ queue' = [queue EXCEPT ![c] = rest]
      /\ streamed' = [streamed EXCEPT ![c] = row]
      /\ issued' = issued /\ casts' = casts /\ listed' = listed /\ q # <<>>
  BY DEF StreamOut
<1>2. q \in Seq(Cast) /\ streamed[c] \in [Threads -> Nat] /\ issued \in Nat
  BY DEF HubInv, HubTypes
<1>3. InOrderAfter(q, streamed[c])
  BY DEF HubInv
<1> HIDE DEF q
<1>4. /\ head = q[1] /\ head \in Cast /\ rest \in Seq(Cast)
      /\ Len(q) \in Nat /\ 1 <= Len(q) /\ Len(rest) = Len(q) - 1
      /\ \A i \in 1..Len(rest) : rest[i] = q[i + 1] /\ i + 1 \in 1..Len(q)
  BY <1>1, <1>2
<1>5. head.id \in Nat /\ head.by \in Threads
  BY <1>4 DEF Cast
<1> HIDE DEF head, rest
<1>6. /\ row \in [Threads -> Nat] /\ row[head.by] = head.id
      /\ \A t \in Threads : t # head.by => row[t] = streamed[c][t]
  BY <1>2, <1>5
<1> HIDE DEF row
<1>7. ASSUME NEW i \in 1..Len(rest) PROVE rest[i].id > row[rest[i].by]
  <2>1. rest[i] = q[i + 1] /\ i + 1 \in 1..Len(q) /\ 1 \in 1..Len(q) /\ 1 < i + 1
    BY <1>4
  <2>2. rest[i] \in Cast
    BY <1>4
  <2>5. rest[i].by \in Threads
    BY <2>2 DEF Cast
  <2>3. CASE rest[i].by = head.by
    BY <1>3, <1>4, <1>6, <2>1, <2>3 DEF InOrderAfter
  <2>4. CASE rest[i].by # head.by
    BY <1>3, <1>6, <2>1, <2>5, <2>4 DEF InOrderAfter
  <2> QED BY <2>3, <2>4
<1>8. ASSUME NEW i \in 1..Len(rest), NEW j \in 1..Len(rest), i < j, rest[i].by = rest[j].by
      PROVE  rest[i].id < rest[j].id
  <2>1. i + 1 \in 1..Len(q) /\ j + 1 \in 1..Len(q) /\ i + 1 < j + 1
    BY <1>4, <1>8
  <2> QED BY <1>3, <1>4, <1>8, <2>1 DEF InOrderAfter
<1>9. InOrderAfter(rest, row)
  BY <1>7, <1>8 DEF InOrderAfter
<1>10. ASSUME NEW t \in Threads, NEW n \in Nat, OlderThan(q, streamed[c], t, n)
       PROVE  OlderThan(rest, row, t, n)
  <2>1. row[t] < n
    BY <1>4, <1>6, <1>10 DEF OlderThan
  <2>2. \A i \in 1..Len(rest) : rest[i].by = t => rest[i].id < n
    BY <1>4, <1>10 DEF OlderThan
  <2> QED BY <2>1, <2>2 DEF OlderThan
<1>11. /\ queue' \in [Conns -> Seq(Cast)] /\ queue'[c] = rest
       /\ \A d \in Conns \ {c} : queue'[d] = queue[d]
  BY <1>1, <1>4 DEF HubInv, HubTypes
<1>12. /\ streamed' \in [Conns -> [Threads -> Nat]] /\ streamed'[c] = row
       /\ \A d \in Conns \ {c} : streamed'[d] = streamed[d]
  BY <1>1, <1>6 DEF HubInv, HubTypes
<1>13. HubTypes'
  BY <1>1, <1>11, <1>12 DEF HubInv, HubTypes
<1>14. (\A d \in Conns : InOrderAfter(queue[d], streamed[d]))'
  <2> SUFFICES ASSUME NEW d \in Conns PROVE InOrderAfter(queue'[d], streamed'[d])
    OBVIOUS
  <2>1. CASE d = c
    BY <1>9, <1>11, <1>12, <2>1
  <2>2. CASE d # c
    BY <1>11, <1>12, <2>2 DEF HubInv
  <2> QED BY <2>1, <2>2
<1>15. ASSUME NEW d \in Conns, NEW t \in Threads, NEW n \in Nat,
              OlderThan(queue[d], streamed[d], t, n)
       PROVE  OlderThan(queue'[d], streamed'[d], t, n)
  <2>1. CASE d = c
    <3>1. OlderThan(q, streamed[c], t, n)
      BY <1>15, <2>1 DEF q
    <3> QED BY <1>10, <1>11, <1>12, <2>1, <3>1
  <2>2. CASE d # c
    BY <1>11, <1>12, <1>15, <2>2
  <2> QED BY <2>1, <2>2
<1>16. \A d \in Conns, t \in Threads : OlderThan(queue'[d], streamed'[d], t, issued + 1)
  <2>1. issued + 1 \in Nat /\ \A d \in Conns, t \in Threads :
          OlderThan(queue[d], streamed[d], t, issued + 1)
    BY DEF HubInv, HubTypes, CastsNewest
  <2> QED BY <1>15, <2>1
<1>17. \A x \in casts : \A d \in x.rest : OlderThan(queue'[d], streamed'[d], x.by, x.id)
  <2> SUFFICES ASSUME NEW x \in casts, NEW d \in x.rest
               PROVE  OlderThan(queue'[d], streamed'[d], x.by, x.id)
    OBVIOUS
  <2>1. x.by \in Threads /\ x.id \in Nat /\ d \in Conns
    BY DEF HubInv, HubTypes
  <2>2. OlderThan(queue[d], streamed[d], x.by, x.id)
    BY DEF HubInv, CastsNewest
  <2> QED BY <1>15, <2>1, <2>2
<1>18. CastsNewest'
  BY <1>1, <1>16, <1>17 DEF HubInv, CastsNewest
<1> QED BY <1>13, <1>14, <1>18 DEF HubInv

---------------------------------------------------------------------------
(* The web terminal: the handlers. *)

WebSizes == Unpaired \notin Services

Called == [engine : Services \cup {Unpaired}, call : Calls]

JobTypes ==
  /\ hub \in Services \cup {Unpaired}
  /\ DOMAIN at = Conns /\ request \in [Conns -> Requests]
  /\ using \in [Conns -> Services \cup {Unpaired}]
  /\ calls \in [Conns -> Seq(Calls)] /\ made \in [Conns -> Seq(Called)]

\* What a handler has done of its command, by where it is.
Job(where, r, engine, left, begun) ==
  /\ \A i \in 1..Len(begun) : begun[i].engine = engine /\ engine # Unpaired
  /\ begun # <<>> => IsCommand(r)
  /\ where \in {"command", "running"} => IsCommand(r)
  /\ where = "command" => begun = <<>>
  /\ where = "running" => engine # Unpaired /\ UnderWay(CallsOf[r.cmd], begun, left)

JobsInv ==
  /\ JobTypes
  /\ \A c \in Conns : Job(at[c], request[c], using[c], calls[c], made[c])

WebInv == HubInv /\ StreamsListed /\ JobsInv

LEMMA CommandIsCalls == ASSUME NEW r \in Requests PROVE CallsOf[r.cmd] \in Seq(Calls)
<1>1. r.cmd \in {"arm", "disarm", "kill", "clear_kill", "trade", "watch", "close", "news",
                 "lockdown", "unlock", "strategy", "incomplete"}
  BY DEF Requests, Commands, CallsOf
<1>2. /\ <<"arm">> \in Seq(Calls) /\ <<"disarm">> \in Seq(Calls)
      /\ <<"kill">> \in Seq(Calls) /\ <<"clear_kill">> \in Seq(Calls)
      /\ <<"inject_signal">> \in Seq(Calls) /\ <<"flag_news">> \in Seq(Calls)
  BY DEF Calls
<1>3. /\ <<"adopt_asset", "candles_for">> \in Seq(Calls)
      /\ <<"engage_lockdown", "save">> \in Seq(Calls)
      /\ <<"clear_lockdown", "save">> \in Seq(Calls)
  BY DEF Calls
<1>4. /\ <<"close_position", "note", "alert">> \in Seq(Calls)
      /\ <<"enable", "save", "note">> \in Seq(Calls) /\ <<>> \in Seq(Calls)
  BY DEF Calls
<1>5. /\ CallsOf["arm"] = <<"arm">> /\ CallsOf["disarm"] = <<"disarm">>
      /\ CallsOf["kill"] = <<"kill">> /\ CallsOf["clear_kill"] = <<"clear_kill">>
      /\ CallsOf["trade"] = <<"inject_signal">> /\ CallsOf["news"] = <<"flag_news">>
  BY DEF CallsOf
<1>6. /\ CallsOf["watch"] = <<"adopt_asset", "candles_for">>
      /\ CallsOf["lockdown"] = <<"engage_lockdown", "save">>
      /\ CallsOf["unlock"] = <<"clear_lockdown", "save">>
      /\ CallsOf["close"] = <<"close_position", "note", "alert">>
      /\ CallsOf["strategy"] = <<"enable", "save", "note">>
      /\ CallsOf["incomplete"] = <<>>
  BY DEF CallsOf
<1> QED BY <1>1, <1>2, <1>3, <1>4, <1>5, <1>6, Zenon

\* A handler that moves on without touching its command.
LEMMA MoveKeepsJobs ==
  ASSUME JobsInv, NEW c \in Conns, NEW where, where \notin {"command", "running"},
         UNCHANGED <<request, using, calls, made, hub>>,
         at' = at \/ at' = [at EXCEPT ![c] = where]
  PROVE  JobsInv'
<1>1. JobTypes'
  BY DEF JobsInv, JobTypes
<1>2. ASSUME NEW d \in Conns
      PROVE  Job(at'[d], request[d], using[d], calls[d], made[d])
  <2>1. Job(at[d], request[d], using[d], calls[d], made[d])
    BY DEF JobsInv
  <2>2. at'[d] = at[d] \/ at'[d] = where
    BY DEF JobsInv, JobTypes
  <2> QED BY <2>1, <2>2 DEF Job
<1> QED BY <1>1, <1>2 DEF JobsInv

LEMMA RouteKeepsJobs ==
  ASSUME JobsInv, NEW c \in Conns, NEW r \in Sent, Route(c, r)
  PROVE  JobsInv'
<1>1. r \in Requests
  BY WebAssumption
<1> DEFINE where == Begins(r)
<1>2. /\ at' = [at EXCEPT ![c] = where]
      /\ where # "running" /\ (where = "command" => IsCommand(r))
  <2>1. at' = [at EXCEPT ![c] = where]
    BY DEF Route, Goto
  <2>2. where # "running" /\ (where = "command" => IsCommand(r))
    BY DEF Begins
  <2> QED BY <2>1, <2>2
<1> HIDE DEF where
<1>3. /\ request' = [request EXCEPT ![c] = r] /\ made' = [made EXCEPT ![c] = <<>>]
      /\ using' = using /\ calls' = calls /\ hub' = hub
  BY DEF Route
<1>4. JobTypes'
  <2>1. <<>> \in Seq(Called)
    OBVIOUS
  <2> QED BY <1>1, <1>2, <1>3, <2>1 DEF JobsInv, JobTypes
<1>5. ASSUME NEW d \in Conns
      PROVE  Job(at'[d], request'[d], using'[d], calls'[d], made'[d])
  <2>1. CASE d # c
    BY <1>2, <1>3, <2>1 DEF JobsInv, JobTypes
  <2>2. CASE d = c
    <3>1. at'[d] = where /\ request'[d] = r /\ made'[d] = <<>>
      BY <1>2, <1>3, <2>2 DEF JobsInv, JobTypes
    <3> QED BY <1>2, <3>1 DEF Job
  <2> QED BY <2>1, <2>2
<1> QED BY <1>4, <1>5 DEF JobsInv

LEMMA TakeCommandKeepsJobs ==
  ASSUME WebSizes, JobsInv, NEW c \in Conns, TakeCommand(c)
  PROVE  JobsInv'
<1>1. CASE hub = Unpaired
  <2>1. PICK where \in {"idle", "closed"} : at' = [at EXCEPT ![c] = where]
    BY <1>1 DEF TakeCommand, Reply, Goto
  <2>2. UNCHANGED <<request, using, calls, made, hub>>
    BY <1>1 DEF TakeCommand
  <2> QED BY <2>1, <2>2, MoveKeepsJobs
<1>2. CASE hub # Unpaired
  <2> DEFINE whole == CallsOf[request[c].cmd]
  <2>1. /\ using' = [using EXCEPT ![c] = hub] /\ calls' = [calls EXCEPT ![c] = whole]
        /\ at' = [at EXCEPT ![c] = "running"] /\ at[c] = "command"
        /\ request' = request /\ made' = made /\ hub' = hub
    BY <1>2 DEF TakeCommand, Goto
  <2>2. whole \in Seq(Calls)
    BY CommandIsCalls DEF JobsInv, JobTypes
  <2> HIDE DEF whole
  <2>3. JobTypes'
    BY <2>1, <2>2 DEF JobsInv, JobTypes
  <2>4. ASSUME NEW d \in Conns
        PROVE  Job(at'[d], request'[d], using'[d], calls'[d], made'[d])
    <3>1. CASE d # c
      BY <2>1, <3>1 DEF JobsInv, JobTypes
    <3>2. CASE d = c
      <4>1. /\ at'[d] = "running" /\ using'[d] = hub /\ calls'[d] = whole
            /\ request'[d] = request[c] /\ made'[d] = made[c]
        BY <2>1, <3>2 DEF JobsInv, JobTypes
      <4>2. made[c] = <<>> /\ IsCommand(request[c])
        BY <2>1 DEF JobsInv, Job
      <4>3. UnderWay(whole, <<>>, whole)
        BY <2>2 DEF UnderWay
      <4> QED BY <1>2, <4>1, <4>2, <4>3 DEF Job, whole
    <3> QED BY <3>1, <3>2
  <2> QED BY <2>3, <2>4 DEF JobsInv
<1> QED BY <1>1, <1>2

\* One more call made, one less left.
LEMMA CallMovesOn ==
  ASSUME NEW whole \in Seq(Calls), NEW left \in Seq(Calls), NEW begun \in Seq(Called),
         NEW called \in Called, UnderWay(whole, begun, left), left # <<>>,
         called.call = Head(left)
  PROVE  UnderWay(whole, Append(begun, called), Tail(left))
<1> DEFINE more == Append(begun, called)
           less == Tail(left)
<1>0. Len(more) = Len(begun) + 1 /\ Len(less) = Len(left) - 1
      /\ Len(begun) \in Nat /\ Len(left) \in Nat
  OBVIOUS
<1>1. /\ Len(more) = Len(begun) + 1 /\ Len(begun) \in Nat
      /\ \A i \in 1..Len(begun) : more[i] = begun[i]
      /\ more[Len(begun) + 1] = called
  OBVIOUS
<1>2. /\ Len(less) = Len(left) - 1 /\ Len(left) \in Nat /\ 1 <= Len(left)
      /\ \A i \in 1..Len(less) : less[i] = left[i + 1] /\ i + 1 \in 1..Len(left)
      /\ Head(left) = left[1]
  OBVIOUS
<1> HIDE DEF more, less
<1>3. Len(more) + Len(less) = Len(whole)
  <2>1. Len(begun) + Len(left) = Len(whole)
    BY DEF UnderWay
  <2> QED BY <1>0, <2>1
<1>4. \A i \in 1..Len(more) : more[i].call = whole[i]
  <2> SUFFICES ASSUME NEW i \in 1..Len(more) PROVE more[i].call = whole[i]
    OBVIOUS
  <2>1. CASE i = Len(begun) + 1
    BY <1>1, <1>2, <2>1 DEF UnderWay
  <2>2. CASE i \in 1..Len(begun)
    BY <1>1, <2>2 DEF UnderWay
  <2> QED BY <1>1, <2>1, <2>2
<1>5. \A i \in 1..Len(less) : less[i] = whole[Len(more) + i]
  <2> SUFFICES ASSUME NEW i \in 1..Len(less) PROVE less[i] = whole[Len(more) + i]
    OBVIOUS
  <2>1. left[i + 1] = whole[Len(begun) + (i + 1)]
    BY <1>2 DEF UnderWay
  <2>2. Len(begun) + (i + 1) = Len(more) + i
    BY <1>1, <1>2
  <2> QED BY <1>2, <2>1, <2>2
<1> QED BY <1>3, <1>4, <1>5 DEF UnderWay, more, less

LEMMA MakeCallKeepsJobs ==
  ASSUME WebSizes, JobsInv, NEW c \in Conns, MakeCall(c)
  PROVE  JobsInv'
<1> DEFINE called == [engine |-> using[c], call |-> Head(calls[c])]
           more   == Append(made[c], called)
           whole  == CallsOf[request[c].cmd]
<1>1. /\ at[c] = "running" /\ calls[c] # <<>> /\ made' = [made EXCEPT ![c] = more]
      /\ UNCHANGED <<request, using, hub>>
  BY DEF MakeCall
<1>2. \/ calls' = [calls EXCEPT ![c] = Tail(calls[c])] /\ at' = at
      \/ /\ calls' = [calls EXCEPT ![c] = <<>>]
         /\ \E where \in {"idle", "closed"} : at' = [at EXCEPT ![c] = where]
  BY DEF MakeCall, Reply, Goto
<1>3. /\ request[c] \in Requests /\ using[c] \in Services \cup {Unpaired}
      /\ calls[c] \in Seq(Calls) /\ made[c] \in Seq(Called)
  BY DEF JobsInv, JobTypes
<1>4. /\ called \in Called /\ called.engine = using[c] /\ called.call = Head(calls[c])
      /\ Tail(calls[c]) \in Seq(Calls) /\ <<>> \in Seq(Calls)
  BY <1>1, <1>3 DEF Called
<1>5. whole \in Seq(Calls)
  BY <1>3, CommandIsCalls
<1>6. Job("running", request[c], using[c], calls[c], made[c])
  BY <1>1 DEF JobsInv
<1> HIDE DEF called, whole
<1>7. /\ more \in Seq(Called) /\ more # <<>>
      /\ \A i \in 1..Len(more) : more[i] = called \/ \E j \in 1..Len(made[c]) : more[i] = made[c][j]
  <2> DEFINE begun == made[c]
  <2>1. begun \in Seq(Called)
    BY <1>3
  <2> HIDE DEF begun
  <2>2. /\ Append(begun, called) \in Seq(Called) /\ Append(begun, called) # <<>>
        /\ Len(Append(begun, called)) = Len(begun) + 1 /\ Len(begun) \in Nat
        /\ \A i \in 1..Len(begun) : Append(begun, called)[i] = begun[i]
        /\ Append(begun, called)[Len(begun) + 1] = called
    BY <1>4, <2>1
  <2>3. \A i \in 1..Len(begun) + 1 : i = Len(begun) + 1 \/ i \in 1..Len(begun)
    BY <2>2
  <2> QED BY <2>2, <2>3 DEF begun
<1>8. \A i \in 1..Len(more) : more[i].engine = using[c] /\ using[c] # Unpaired
  BY <1>4, <1>6, <1>7 DEF Job
<1>9. UnderWay(whole, more, Tail(calls[c]))
  <2>1. UnderWay(whole, made[c], calls[c])
    BY <1>6 DEF Job, whole
  <2> QED BY <1>1, <1>3, <1>4, <1>5, <2>1, CallMovesOn
<1> HIDE DEF more
<1>10. JobTypes'
  BY <1>1, <1>2, <1>4, <1>7 DEF JobsInv, JobTypes
<1>11. ASSUME NEW d \in Conns
       PROVE  Job(at'[d], request'[d], using'[d], calls'[d], made'[d])
  <2>1. CASE d # c
    BY <1>1, <1>2, <2>1 DEF JobsInv, JobTypes
  <2>2. CASE d = c
    <3>1. /\ request'[d] = request[c] /\ using'[d] = using[c] /\ made'[d] = more
          /\ IsCommand(request[c])
      BY <1>1, <1>6, <2>2 DEF JobsInv, JobTypes, Job
    <3>2. CASE calls' = [calls EXCEPT ![c] = Tail(calls[c])] /\ at' = at
      <4>1. calls'[d] = Tail(calls[c]) /\ at'[d] = "running"
        BY <1>1, <2>2, <3>2 DEF JobsInv, JobTypes
      <4> QED BY <1>6, <1>8, <1>9, <3>1, <4>1 DEF Job, whole
    <3>3. CASE \E where \in {"idle", "closed"} : at' = [at EXCEPT ![c] = where]
      <4>1. at'[d] \in {"idle", "closed"}
        BY <2>2, <3>3 DEF JobsInv, JobTypes
      <4> QED BY <1>8, <3>1, <4>1 DEF Job
    <3> QED BY <1>2, <3>2, <3>3
  <2> QED BY <2>1, <2>2
<1> QED BY <1>10, <1>11 DEF JobsInv

LEMMA WebStarts == ASSUME WebSizes, WebInit PROVE WebInv
<1>1. HubTypes
  BY DEF WebInit, HubTypes
<1>2. \A c \in Conns : queue[c] = <<>> /\ \A t \in Threads : streamed[c][t] = 0
  BY DEF WebInit
<1>3. \A c \in Conns : InOrderAfter(queue[c], streamed[c])
  BY <1>2 DEF InOrderAfter
<1>4. CastsNewest
  BY <1>2 DEF WebInit, CastsNewest, OlderThan
<1>5. StreamsListed
  BY DEF WebInit, StreamsListed
<1>6. /\ \A c \in Conns : request[c] \in Requests
      /\ request \in [Conns -> Requests]
  <2>1. request \in [Conns -> {r \in Sent : IsGet(r, "/")}]
    BY DEF WebInit
  <2> QED BY <2>1, WebAssumption
<1>7. JobTypes
  <2>1. <<>> \in Seq(Calls) /\ <<>> \in Seq(Called)
    OBVIOUS
  <2> QED BY <1>6, <2>1 DEF WebInit, JobTypes
<1>8. \A c \in Conns : at[c] = "idle" /\ made[c] = <<>>
  BY DEF WebInit
<1>9. \A c \in Conns : Job(at[c], request[c], using[c], calls[c], made[c])
  BY <1>8 DEF Job
<1> QED BY <1>1, <1>3, <1>4, <1>5, <1>7, <1>9 DEF WebInv, HubInv, JobsInv

\* Steps of the hub leave the handlers alone, and the other way round.
LEMMA HubSteps ==
  ASSUME WebInv,
         \/ \E t \in Threads, isLog \in BOOLEAN : Broadcast(t, isLog)
         \/ \E x \in casts : CastEnds(x) \/ \E c \in Conns : Put(x, c)
         \/ \E e \in Services : Adopt(e)
  PROVE  WebInv'
<1>1. /\ UNCHANGED <<at, request, using, calls, made, listed>>
      /\ hub' = hub \/ hub' \in Services
  BY DEF Broadcast, CastEnds, Put, Adopt, hubVars, jobVars
<1>2. StreamsListed'
  BY <1>1 DEF WebInv, StreamsListed
<1>3. JobsInv'
  BY <1>1 DEF WebInv, JobsInv, JobTypes
<1>4. ASSUME NEW x \in casts, CastEnds(x) PROVE HubInv'
  BY <1>4 DEF WebInv, HubInv, HubTypes, CastsNewest, CastEnds
<1>5. ASSUME NEW e \in Services, Adopt(e) PROVE HubInv'
  BY <1>5 DEF WebInv, HubInv, HubTypes, CastsNewest, Adopt, hubVars
<1>6. HubInv'
  BY <1>4, <1>5, BroadcastKeeps, PutKeeps DEF WebInv
<1> QED BY <1>2, <1>3, <1>6 DEF WebInv

LEMMA QuietHub ==
  ASSUME HubInv, UNCHANGED <<queue, streamed, casts, issued>>, listed' \subseteq Conns
  PROVE  HubInv'
<1>1. HubTypes' /\ CastsNewest'
  BY DEF HubInv, HubTypes, CastsNewest
<1> QED BY <1>1 DEF HubInv

LEMMA HandlerSteps ==
  ASSUME WebSizes, WebInv, NEW c \in Conns, Handle(c) \/ HangUp(c)
  PROVE  WebInv'
<1> USE DEF WebInv
<1>1. DOMAIN at = Conns
  BY DEF JobsInv, JobTypes
<1>2. ASSUME NEW where, where \notin {"headers", "stream", "lost"},
             at' = at \/ (at' = [at EXCEPT ![c] = where]
                          /\ at[c] \notin {"headers", "stream", "lost"}),
             listed' = listed
      PROVE  StreamsListed'
  BY <1>1, <1>2 DEF StreamsListed
<1>3. CASE \/ MisreadBody(c) \/ (\E r \in Sent : Route(c, r)) \/ Answer(c)
           \/ ReadState(c) \/ TakeCommand(c) \/ MakeCall(c) \/ CommandDone(c) \/ HangUp(c)
  <2>1. UNCHANGED hubVars
    BY <1>3 DEF MisreadBody, Route, Answer, ReadState, TakeCommand, MakeCall,
                CommandDone, HangUp
  <2>2. HubInv'
    BY <2>1, QuietHub DEF hubVars, HubInv, HubTypes
  <2>3. \E where : /\ where \notin {"headers", "stream", "lost"}
                   /\ \/ at' = at
                      \/ /\ at' = [at EXCEPT ![c] = where]
                         /\ at[c] \notin {"headers", "stream", "lost"}
    <3>1. CASE \E r \in Sent : Route(c, r)
      <4>1. PICK r \in Sent : at' = [at EXCEPT ![c] = Begins(r)] /\ at[c] = "idle"
        BY <3>1 DEF Route, Goto
      <4>2. Begins(r) \notin {"headers", "stream", "lost"}
        BY DEF Begins
      <4> QED BY <4>1, <4>2
    <3>2. CASE Answer(c)
      BY <3>2 DEF Answer, Reply, Goto
    <3>3. CASE ReadState(c)
      BY <3>3 DEF ReadState, Reply, Goto
    <3>4. CASE TakeCommand(c)
      BY <3>4 DEF TakeCommand, Reply, Goto
    <3>5. CASE MakeCall(c)
      BY <3>5 DEF MakeCall, Reply, Goto
    <3>6. CASE CommandDone(c)
      BY <3>6 DEF CommandDone, Reply, Goto
    <3>7. CASE MisreadBody(c)
      BY <3>7 DEF MisreadBody, Goto
    <3>8. CASE HangUp(c)
      BY <3>8 DEF HangUp
    <3> QED BY <1>3, <3>1, <3>2, <3>3, <3>4, <3>5, <3>6, <3>7, <3>8
  <2>4. StreamsListed'
    BY <1>2, <2>1, <2>3 DEF hubVars
  <2>5. JobsInv'
    <3>1. CASE MisreadBody(c) \/ Answer(c) \/ ReadState(c) \/ CommandDone(c) \/ HangUp(c)
      <4>1. UNCHANGED <<request, using, calls, made, hub>>
        BY <3>1 DEF MisreadBody, Answer, ReadState, CommandDone, HangUp, jobVars
      <4>2. \E where \in {"idle", "closed"} : at' = at \/ at' = [at EXCEPT ![c] = where]
        BY <3>1 DEF MisreadBody, Answer, ReadState, CommandDone, HangUp, Reply, Goto
      <4> QED BY <4>1, <4>2, MoveKeepsJobs
    <3> QED BY <1>3, <3>1, RouteKeepsJobs, TakeCommandKeepsJobs, MakeCallKeepsJobs
  <2> QED BY <2>2, <2>4, <2>5
<1>4. CASE OpenStream(c) \/ SendHeaders(c) \/ StreamOut(c) \/ StreamEnds(c)
  <2>1. /\ UNCHANGED <<request, using, calls, made, hub>>
        /\ \E where \in {"headers", "stream", "lost", "closed"} :
             at' = at \/ at' = [at EXCEPT ![c] = where]
    BY <1>4 DEF OpenStream, SendHeaders, StreamOut, StreamEnds, Goto, hubVars, jobVars
  <2>2. JobsInv'
    BY <2>1, MoveKeepsJobs
  <2>3. HubInv' /\ StreamsListed'
    <3>1. CASE StreamOut(c)
      <4>1. at' = at /\ listed' = listed
        BY <3>1 DEF StreamOut
      <4> QED BY <3>1, <4>1, StreamOutKeeps DEF StreamsListed
    <3>2. CASE OpenStream(c)
      BY <1>1, <3>2, QuietHub DEF OpenStream, Goto, StreamsListed, HubInv, HubTypes
    <3>3. CASE SendHeaders(c)
      BY <1>1, <3>3, QuietHub DEF SendHeaders, Goto, StreamsListed, hubVars, HubInv, HubTypes
    <3>4. CASE StreamEnds(c)
      BY <1>1, <3>4, QuietHub DEF StreamEnds, Goto, StreamsListed, HubInv, HubTypes
    <3> QED BY <1>4, <3>1, <3>2, <3>3, <3>4
  <2> QED BY <2>2, <2>3
<1> QED BY <1>3, <1>4 DEF Handle

LEMMA WebStepKeeps == ASSUME WebSizes, WebInv, [WebNext]_webVars PROVE WebInv'
<1>1. CASE UNCHANGED webVars
  <2>1. UNCHANGED <<hub, listed, queue, streamed, casts, issued, at, request, using, calls, made>>
    BY <1>1 DEF webVars, hubVars, jobVars
  <2>2. HubInv'
    BY <2>1, QuietHub DEF WebInv, HubInv, HubTypes
  <2>3. StreamsListed' /\ JobsInv'
    BY <2>1 DEF WebInv, StreamsListed, JobsInv, JobTypes
  <2> QED BY <2>2, <2>3 DEF WebInv
<1>2. CASE WebNext
  BY <1>2, HubSteps, HandlerSteps DEF WebNext
<1> QED BY <1>1, <1>2

\* Whatever the number of connections, threads and engines: streams are in
\* order and on the list, and a command is whole and on one engine.
THEOREM ConsoleIsOrderly == ASSUME WebSizes PROVE WebSpec => []ConsoleServes
<1>1. WebInit => WebInv
  BY WebStarts
<1>2. WebInv /\ [WebNext]_webVars => WebInv'
  BY WebStepKeeps
<1>3. WebInv => ConsoleServes
  <2> SUFFICES ASSUME WebInv PROVE ConsoleServes
    OBVIOUS
  <2>1. StreamsInOrder
    BY DEF WebInv, HubInv, InOrderAfter, StreamsInOrder
  <2>2. CommandsWhole
    BY DEF WebInv, JobsInv, Job, CommandsWhole
  <2> QED BY <2>1, <2>2 DEF WebInv, ConsoleServes
<1> QED BY <1>1, <1>2, <1>3, PTL DEF WebSpec

---------------------------------------------------------------------------
(* The desktop and the headless command. *)

DesktopSizes ==
  /\ MaxOpen \in Nat /\ NoWork \notin Purses
  /\ Given \subseteq Starts /\ NoSession \notin Sessions

Pick     == Purses \cup {Unchosen}
Session  == Sessions \cup {NoSession}
Report   == [ssid : Session, purse : Purses]
Wired    == [ssid : Session, jar : Session, purse : Pick, tuned : BOOLEAN,
             up : BOOLEAN, open : 0 .. MaxOpen, pick : Pick]
InService == {"app", "headless"}

AskTypes ==
  /\ given \in Starts /\ cfg \in [ssid : Session, purse : Pick]
  /\ saved \in [ssid : Session, jar : Session]
  /\ radio \in Pick /\ pick \in Pick /\ worker \in Purses \cup {NoWork}
  /\ due \in Seq(Report)
  /\ linking \in [at : {"none", "api", "close", "seat", "open", "oms"},
                  ssid : Session, purse : Pick]

\* A pairing belongs to a window and to the purse picked last.
PairingInv ==
  /\ OnePairing
  /\ due # <<>> => stage \in Panes /\ Head(due).purse = pick
  /\ worker # NoWork => stage \in Panes \cup {"ended"}
  /\ stage \in Panes /\ worker # NoWork => worker = pick
  /\ stage \in {"confirm", "build"} => cfg.purse = pick
  /\ linking.at = "api" => linking.purse = pick

\* Nothing is wired before the engine is built, or runs after it has ended.
StageInv ==
  /\ stage \in {"build", "gate"} \cup InService => allowed
  /\ stage \in Panes => given.cmd = "gui"
  /\ stage \notin InService \cup {"ended"} => wires = <<>>
  /\ stage \notin InService => loop = "off"
  /\ linking.at # "none" => stage = "app"
  /\ NothingUnasked

WireTypes ==
  /\ wires \in Seq(Wired)
  /\ stage \in InService =>
       /\ seat \in 1..Len(wires) /\ oms \in 1..Len(wires) /\ feed \in 1..Len(wires)

ClosedFirst ==
  linking.at = "seat" => \A i \in 1..Len(wires) : wires[i].up => i \in {feed, Len(wires)}

DesktopInv ==
  AskTypes /\ PairingInv /\ StageInv /\ WireTypes
  /\ WiresAsPicked /\ ClosedFirst /\ WiresAccounted

LEMMA PurseKnown ==
  ASSUME AskTypes PROVE PursesResolved \subseteq Pick
<1>1. given.flag \in Purses \cup {Unchosen, "both"} /\ cfg.purse \in Pick
  BY DEF AskTypes, Starts
<1> QED BY <1>1 DEF PursesResolved, Pick, Purses, Unchosen

LEMMA SessionKnown ==
  ASSUME AskTypes PROVE SessionResolved \in [ssid : Session, jar : Session]
<1>1. given.env \in Session /\ cfg.ssid \in Session /\ NoSession \in Session
  BY DEF AskTypes, Starts, Session
<1> QED BY <1>1 DEF SessionResolved, AskTypes

LEMMA AskTypesKept ==
  ASSUME DesktopSizes, AskTypes, OnePairing, [DesktopNext]_deskVars PROVE AskTypes'
<1> USE DEF AskTypes
<1>0. NoSession \in Session /\ Sessions \subseteq Session /\ Unchosen \in Pick
      /\ Purses \subseteq Pick
  BY DEF Session, Pick
<1>1. CASE ResolvePurse
  <2>1. PICK p \in PursesResolved :
          /\ cfg' = [cfg EXCEPT !.purse = IF p = Unchosen THEN @ ELSE p]
          /\ pick' = p
    BY <1>1 DEF ResolvePurse
  <2>2. p \in Pick
    BY PurseKnown, <2>1
  <2>3. cfg' \in [ssid : Session, purse : Pick]
    BY <2>1, <2>2
  <2> QED BY <1>1, <2>1, <2>2, <2>3 DEF ResolvePurse, engineVars
<1>2. CASE BuildOn
  BY <1>2, <1>0 DEF BuildOn, BuildEngine, askVars
<1>3. ASSUME NEW missing \in BOOLEAN, BuildTrouble(missing) PROVE AskTypes'
  BY <1>3, <1>0 DEF BuildTrouble, End, askVars, engineVars
<1>4. ASSUME NEW p \in Purses, PickRadio(p) PROVE AskTypes'
  BY <1>4, <1>0 DEF PickRadio, askVars, engineVars
<1>5. CASE ClickLogin
  BY <1>5, <1>0 DEF ClickLogin, askVars, engineVars
<1>6. CASE WorkerReports
  <2>1. \A s \in Session : [ssid |-> s, purse |-> worker] \in Report
    BY <1>6 DEF WorkerReports, Report
  <2>2. PICK s \in Session :
          due' = IF stage \in Panes THEN Append(due, [ssid |-> s, purse |-> worker])
                                    ELSE due
    BY <1>6, <1>0 DEF WorkerReports
  <2>3. due' \in Seq(Report)
    BY <2>1, <2>2
  <2>4. saved' = saved \/ \E t \in Session : saved' = [ssid |-> t, jar |-> t]
    BY <1>6, <1>0 DEF WorkerReports
  <2>5. saved' \in [ssid : Session, jar : Session]
    BY <2>4
  <2> QED BY <1>6, <2>3, <2>5 DEF WorkerReports, askVars, engineVars
<1>7. CASE GateDone
  <2>1. Head(due) \in Report
    BY <1>7 DEF GateDone
  <2>2. cfg' \in [ssid : Session, purse : Pick]
    BY <1>0, <1>7, <2>1 DEF GateDone, Report
  <2> QED BY <1>7, <2>2 DEF GateDone, engineVars
<1>8. CASE PairingFailed
  <2>1. Tail(due) \in Seq(Report)
    BY <1>8 DEF PairingFailed
  <2> QED BY <1>8, <2>1 DEF PairingFailed, askVars, engineVars
<1>9. CASE LoginDone
  <2>1. Tail(due) \in Seq(Report) /\ Head(due) \in Report
    BY <1>9 DEF LoginDone
  <2>2. linking' \in [at : {"none", "api", "close", "seat", "open", "oms"},
                      ssid : Session, purse : Pick]
    BY <1>0, <1>9, <2>1 DEF LoginDone, Link, Report
  <2> QED BY <1>9, <2>1, <2>2 DEF LoginDone, askVars
<1>10. ASSUME NEW s \in Sessions, ClickConnect(s) PROVE AskTypes'
  BY <1>10, <1>0 DEF ClickConnect, Link, askVars
<1>11. CASE LinkApi \/ LinkClose \/ LinkSeat \/ LinkOpen \/ LinkOms
  BY <1>11 DEF LinkApi, LinkClose, LinkSeat, LinkOpen, LinkOms, LinkStep, linkKept,
     askVars, windowVars
<1>12. CASE QuitGate \/ CloseApp
  <2>1. due' = <<>>
    BY <1>12 DEF QuitGate, CloseApp
  <2>2. UNCHANGED <<given, cfg, saved, radio, pick, worker, linking>>
    BY <1>12 DEF QuitGate, CloseApp, askVars, engineVars
  <2> QED BY <2>1, <2>2
<1>13. CASE ReadArguments \/ ConfirmLive \/ Interrupt \/ StateTrouble \/ HeadlessArms \/ HeadlessHolds
  BY <1>13 DEF ReadArguments, ConfirmLive, Interrupt, StateTrouble, HeadlessArms,
     HeadlessHolds, askVars, windowVars, engineVars
<1>14. CASE \/ (\E to \in {"off", "idle", "live"} : Command(to)) \/ LoopOrders
            \/ LoopSettles \/ SupervisorSweeps \/ SaveConfig \/ UNCHANGED deskVars
  BY <1>14 DEF Command, LoopOrders, LoopSettles, SupervisorSweeps, SaveConfig,
     deskVars, askVars, windowVars, engineVars
<1> HIDE DEF AskTypes
<1> QED BY <1>1, <1>2, <1>3, <1>4, <1>5, <1>6, <1>7, <1>8, <1>9, <1>10, <1>11,
           <1>12, <1>13, <1>14 DEF DesktopNext

LEMMA PairingKept ==
  ASSUME DesktopSizes, AskTypes, PairingInv, StageInv, [DesktopNext]_deskVars
  PROVE  PairingInv'
<1> USE DEF PairingInv, OnePairing
<1>0. /\ due \in Seq(Report) /\ worker \in Purses \cup {NoWork} /\ NoWork \notin Purses
  BY DEF AskTypes, DesktopSizes
<1>1. CASE ReadArguments \/ ConfirmLive \/ StateTrouble \/ Interrupt
  BY <1>1, <1>0 DEF ReadArguments, ConfirmLive, StateTrouble, Interrupt, End, Panes,
     askVars, windowVars, engineVars, Unchosen
<1>2. CASE ResolvePurse
  <2>1. PICK p \in PursesResolved :
          /\ cfg' = [cfg EXCEPT !.purse = IF p = Unchosen THEN @ ELSE p] /\ pick' = p
          /\ p = Unchosen => stage' = "ended"
    BY <1>2 DEF ResolvePurse, End
  <2>2. stage = "purse" /\ stage' \in {"ended", "confirm"}
        /\ UNCHANGED <<pairing, worker, due, linking>>
    BY <1>2 DEF ResolvePurse, End, engineVars
  <2>3. due = <<>> /\ worker = NoWork /\ linking.at # "api"
    BY <2>2 DEF StageInv, Panes
  <2>4. stage' = "confirm" => cfg'.purse = pick'
    BY <2>1 DEF AskTypes
  <2> QED BY <2>2, <2>3, <2>4 DEF Panes
<1>3. CASE BuildOn
  BY <1>3, <1>0 DEF BuildOn, BuildEngine, askVars, Panes
<1>4. ASSUME NEW missing \in BOOLEAN, BuildTrouble(missing) PROVE PairingInv'
  BY <1>4, <1>0 DEF BuildTrouble, End, askVars, engineVars, Panes
<1>5. ASSUME NEW p \in Purses, PickRadio(p) PROVE PairingInv'
  BY <1>5, <1>0 DEF PickRadio, askVars, engineVars, Panes
<1>6. CASE ClickLogin
  BY <1>6, <1>0 DEF ClickLogin, askVars, engineVars, Idle, Panes
<1>7. CASE WorkerReports
  <2>1. worker # NoWork /\ due = <<>> /\ worker' = NoWork
        /\ UNCHANGED <<stage, cfg, linking, pairing, pick>>
    BY <1>7 DEF WorkerReports, askVars, engineVars
  <2>2. PICK s : due' = IF stage \in Panes THEN Append(due, [ssid |-> s, purse |-> worker])
                                          ELSE due
    BY <1>7 DEF WorkerReports
  <2>3. CASE stage \in Panes
    <3> DEFINE report == [ssid |-> s, purse |-> worker]
    <3>1. report.purse = worker
      OBVIOUS
    <3> HIDE DEF report
    <3>2. due' = <<report>>
      BY <2>1, <2>2, <2>3 DEF report
    <3>3. Len(due') = 1 /\ Head(due') = report
      BY <3>2
    <3> QED BY <2>1, <2>3, <3>1, <3>3
  <2>4. CASE stage \notin Panes
    BY <2>1, <2>2, <2>4
  <2> QED BY <2>3, <2>4
<1>8. CASE GateDone
  BY <1>8, <1>0 DEF GateDone, engineVars, Panes
<1>9. CASE PairingFailed \/ LoginDone
  BY <1>9, <1>0 DEF PairingFailed, LoginDone, Link, askVars, engineVars, Idle, Panes
<1>10. ASSUME NEW s \in Sessions, ClickConnect(s) PROVE PairingInv'
  BY <1>10, <1>0 DEF ClickConnect, Link, askVars, Idle, Panes
<1>11. CASE LinkApi \/ LinkClose \/ LinkSeat \/ LinkOpen \/ LinkOms
  <2>1. \E to \in {"none", "close", "seat", "open", "oms"} : linking' = [linking EXCEPT !.at = to]
    BY <1>11 DEF LinkApi, LinkClose, LinkSeat, LinkOpen, LinkOms, LinkStep
  <2>2. linking'.at # "api"
    BY <2>1 DEF AskTypes
  <2>3. UNCHANGED <<stage, cfg, pairing, worker, due, pick>>
    BY <1>11 DEF LinkApi, LinkClose, LinkSeat, LinkOpen, LinkOms, linkKept, askVars, windowVars
  <2> QED BY <2>2, <2>3
<1>12. CASE QuitGate \/ CloseApp
  BY <1>12, <1>0 DEF QuitGate, CloseApp, End, askVars, engineVars, Idle, Panes
<1>13. CASE HeadlessArms \/ HeadlessHolds
  BY <1>13, <1>0 DEF HeadlessArms, HeadlessHolds, End, askVars, windowVars, engineVars, Panes
<1>14. CASE \/ (\E to \in {"off", "idle", "live"} : Command(to)) \/ LoopOrders
            \/ LoopSettles \/ SupervisorSweeps \/ SaveConfig \/ UNCHANGED deskVars
  BY <1>14, <1>0 DEF Command, LoopOrders, LoopSettles, SupervisorSweeps, SaveConfig,
     deskVars, askVars, windowVars, engineVars, Panes
<1> HIDE DEF PairingInv
<1> QED BY <1>1, <1>2, <1>3, <1>4, <1>5, <1>6, <1>7, <1>8, <1>9, <1>10, <1>11,
           <1>12, <1>13, <1>14 DEF DesktopNext

LEMMA StageKept ==
  ASSUME DesktopSizes, AskTypes, StageInv, WireTypes, [DesktopNext]_deskVars
  PROVE  StageInv'
<1> USE DEF StageInv, NothingUnasked, InService, Panes
<1>0. linking.at \in {"none", "api", "close", "seat", "open", "oms"}
  BY DEF AskTypes
<1>1. CASE ReadArguments \/ StateTrouble \/ Interrupt
  BY <1>1 DEF ReadArguments, StateTrouble, Interrupt, End, askVars, windowVars, engineVars
<1>15. CASE ConfirmLive
  BY <1>15 DEF ConfirmLive, End, askVars, windowVars, engineVars
<1>2. CASE ResolvePurse
  BY <1>2 DEF ResolvePurse, End, engineVars
<1>3. CASE BuildOn
  <2>1. /\ stage = "build" /\ UNCHANGED <<given, allowed, linking, loop>>
        /\ stage' = IF given.cmd = "gui" THEN "app" ELSE "headless"
    BY <1>3 DEF BuildOn, BuildEngine, askVars
  <2>2. allowed /\ linking.at = "none" /\ loop = "off"
    BY <2>1, <1>0
  <2> QED BY <2>1, <2>2
<1>4. ASSUME NEW missing \in BOOLEAN, BuildTrouble(missing) PROVE StageInv'
  BY <1>4 DEF BuildTrouble, End, askVars, engineVars
<1>5. ASSUME NEW p \in Purses, PickRadio(p) PROVE StageInv'
  BY <1>5 DEF PickRadio, askVars, engineVars
<1>6. CASE ClickLogin \/ WorkerReports
  BY <1>6 DEF ClickLogin, WorkerReports, askVars, engineVars
<1>8. CASE GateDone
  BY <1>8 DEF GateDone, engineVars
<1>9. CASE PairingFailed \/ LoginDone
  BY <1>9 DEF PairingFailed, LoginDone, Link, askVars, engineVars
<1>10. ASSUME NEW s \in Sessions, ClickConnect(s) PROVE StageInv'
  BY <1>10 DEF ClickConnect, Link, askVars
<1>11. CASE LinkApi \/ LinkClose \/ LinkSeat \/ LinkOpen \/ LinkOms
  BY <1>11 DEF LinkApi, LinkClose, LinkSeat, LinkOpen, LinkOms, LinkStep, linkKept,
     askVars, windowVars
<1>12. CASE QuitGate \/ CloseApp
  BY <1>12 DEF QuitGate, CloseApp, End, Idle, askVars, engineVars
<1>13. CASE HeadlessArms \/ HeadlessHolds
  BY <1>13 DEF HeadlessArms, HeadlessHolds, End, askVars, windowVars, engineVars
<1>14. CASE \/ (\E to \in {"off", "idle", "live"} : Command(to)) \/ LoopOrders
            \/ LoopSettles \/ SupervisorSweeps \/ SaveConfig \/ UNCHANGED deskVars
  BY <1>14 DEF Command, LoopOrders, LoopSettles, SupervisorSweeps, SaveConfig, Idle,
     deskVars, askVars, windowVars, engineVars
<1> HIDE DEF StageInv
<1> QED BY <1>1, <1>2, <1>3, <1>4, <1>5, <1>6, <1>8, <1>9, <1>10, <1>11,
           <1>12, <1>13, <1>14, <1>15 DEF DesktopNext

\* w with the record of one connection changed, but not its purse.
Alike(v, w) ==
  /\ v \in Seq(Wired) /\ Len(v) = Len(w)
  /\ \A i \in 1..Len(w) : v[i].purse = w[i].purse /\ v[i].pick = w[i].pick

Switched(w, k, b) == [w EXCEPT ![k].up = b]
Holding(w, k, n) == [w EXCEPT ![k].open = n]

LEMMA UpSet ==
  ASSUME NEW w \in Seq(Wired), NEW k \in 1..Len(w), NEW b \in BOOLEAN,
         NEW v, v = Switched(w, k, b)
  PROVE  /\ Alike(v, w) /\ (~b => ~v[k].up)
         /\ \A i \in 1..Len(w) : i # k => v[i] = w[i]
<1>1. w[k] \in Wired
  OBVIOUS
<1> DEFINE r == [w[k] EXCEPT !.up = b]
<1>2. r \in Wired /\ r.purse = w[k].purse /\ r.pick = w[k].pick /\ r.up = b
  BY <1>1 DEF Wired
<1>4. v = [w EXCEPT ![k] = r]
  BY DEF Switched
<1> HIDE DEF r
<1>3. v \in Seq(Wired) /\ Len(v) = Len(w) /\ v[k] = r
      /\ \A i \in 1..Len(w) : i # k => v[i] = w[i]
  BY <1>2, <1>4
<1>5. Alike(v, w)
  BY <1>2, <1>3 DEF Alike
<1>6. ~b => ~v[k].up
  BY <1>2, <1>3
<1> QED BY <1>3, <1>5, <1>6

LEMMA ClosedIsAlike ==
  ASSUME NEW w \in Seq(Wired), NEW k \in 1..Len(w), NEW v, v = Switched(w, k, FALSE)
  PROVE  /\ Alike(v, w) /\ ~v[k].up
         /\ \A i \in 1..Len(w) : i # k => v[i] = w[i]
<1> DEFINE b == FALSE
<1>1. b \in BOOLEAN /\ ~b /\ v = Switched(w, k, b)
  OBVIOUS
<1> HIDE DEF b
<1> QED BY <1>1, UpSet

LEMMA RevivedIsAlike ==
  ASSUME NEW w \in Seq(Wired), NEW k \in 1..Len(w), NEW v, v = Switched(w, k, TRUE)
  PROVE  Alike(v, w) /\ \A i \in 1..Len(w) : i # k => v[i] = w[i]
<1> DEFINE b == TRUE
<1>1. b \in BOOLEAN /\ v = Switched(w, k, b)
  OBVIOUS
<1> HIDE DEF b
<1> QED BY <1>1, UpSet

LEMMA OpenSet ==
  ASSUME NEW w \in Seq(Wired), NEW k \in 1..Len(w), NEW n \in 0 .. MaxOpen,
         NEW v, v = Holding(w, k, n)
  PROVE  /\ Alike(v, w) /\ \A i \in 1..Len(w) : v[i].up = w[i].up
<1>1. w[k] \in Wired
  OBVIOUS
<1> DEFINE r == [w[k] EXCEPT !.open = n]
<1>2. r \in Wired /\ r.purse = w[k].purse /\ r.pick = w[k].pick /\ r.up = w[k].up
  BY <1>1 DEF Wired
<1>4. v = [w EXCEPT ![k] = r]
  BY DEF Holding
<1> HIDE DEF r
<1>3. v \in Seq(Wired) /\ Len(v) = Len(w) /\ v[k] = r
      /\ \A i \in 1..Len(w) : i # k => v[i] = w[i]
  BY <1>2, <1>4
<1>5. Alike(v, w) /\ \A i \in 1..Len(w) : v[i].up = w[i].up
  BY <1>2, <1>3 DEF Alike
<1> QED BY <1>5

WireInv == WireTypes /\ WiresAsPicked /\ ClosedFirst /\ WiresAccounted

\* The picks and the types survive whatever changes one connection's state.
LEMMA AlikeKeeps ==
  ASSUME WireInv, Alike(wires', wires),
         stage' \in InService => stage \in InService,
         seat' \in {seat, Len(wires)}, oms' \in {oms, seat}, feed' = feed
  PROVE  WireTypes' /\ WiresAsPicked'
<1>1. /\ wires' \in Seq(Wired) /\ Len(wires') = Len(wires)
      /\ \A i \in 1..Len(wires) : wires'[i].purse = wires[i].purse /\ wires'[i].pick = wires[i].pick
  BY DEF Alike
<1>2. WiresAsPicked'
  BY <1>1 DEF WireInv, WiresAsPicked
<1>3. Len(wires) \in Nat
  BY DEF WireInv, WireTypes
<1>4. stage' \in InService =>
        /\ seat' \in 1..Len(wires') /\ oms' \in 1..Len(wires') /\ feed' \in 1..Len(wires')
  BY <1>1, <1>3 DEF WireInv, WireTypes
<1> QED BY <1>1, <1>2, <1>4 DEF WireTypes

\* A connection at the end, wired for the purse that was picked last.
LEMMA AppendKeeps ==
  ASSUME WireInv, NEW r \in Wired, r.purse = r.pick, wires' = Append(wires, r),
         stage' \in InService,
         \/ stage \in InService /\ UNCHANGED <<seat, oms, feed>>
         \/ seat' = Len(wires) + 1 /\ oms' = Len(wires) + 1 /\ feed' = Len(wires) + 1
  PROVE  /\ WireTypes' /\ WiresAsPicked' /\ Len(wires') = Len(wires) + 1
         /\ Len(wires) \in Nat /\ \A i \in 1..Len(wires) : wires'[i] = wires[i]
<1>1. /\ wires' \in Seq(Wired) /\ Len(wires') = Len(wires) + 1 /\ Len(wires) \in Nat
      /\ \A i \in 1..Len(wires) : wires'[i] = wires[i]
      /\ wires'[Len(wires) + 1] = r
  BY DEF WireInv, WireTypes
<1>2. WiresAsPicked'
  BY <1>1 DEF WireInv, WiresAsPicked
<1>3. seat' \in 1..Len(wires') /\ oms' \in 1..Len(wires') /\ feed' \in 1..Len(wires')
  BY <1>1 DEF WireInv, WireTypes
<1> QED BY <1>1, <1>2, <1>3 DEF WireTypes

LEMMA NoWires ==
  ASSUME wires' = <<>>, stage' \notin InService PROVE WireInv'
BY DEF WireInv, WireTypes, WiresAsPicked, ClosedFirst, WiresAccounted

\* A step that changes at most the contracts of a connection, and in _connect
\* neither begins nor ends the replacement.
Between == linking' = linking \/ {linking.at, linking'.at} \cap {"close", "seat"} = {}

LEMMA SameKeeps ==
  ASSUME WireInv, UNCHANGED <<stage, seat, oms, feed>>, Between,
         \/ wires' = wires
         \/ Alike(wires', wires) /\ \A i \in 1..Len(wires) : wires'[i].up = wires[i].up
  PROVE  WireInv'
<1>1. /\ Alike(wires', wires) /\ \A i \in 1..Len(wires) : wires'[i].up = wires[i].up
  BY DEF Alike, WireInv, WireTypes
<1>2. WireTypes' /\ WiresAsPicked'
  BY <1>1, AlikeKeeps
<1>3. Len(wires') = Len(wires)
  BY <1>1 DEF Alike
<1>4. ClosedFirst'
  BY <1>1, <1>3 DEF Between, WireInv, ClosedFirst
<1>5. WiresAccounted'
  BY <1>1, <1>3 DEF Between, WireInv, WiresAccounted
<1> QED BY <1>2, <1>4, <1>5 DEF WireInv

\* Shutdown: engine.broker is closed, and nothing is left but a watched one.
LEMMA ShutdownKeeps ==
  ASSUME WireInv, stage \in InService, stage' = "ended", linking.at = "none",
         UNCHANGED <<seat, oms, feed, linking>>,
         wires' = [wires EXCEPT ![seat].up = FALSE]
  PROVE  WireInv'
<1>1. wires \in Seq(Wired) /\ seat \in 1..Len(wires)
  BY DEF WireInv, WireTypes
<1>2. /\ Alike(wires', wires) /\ ~wires'[seat].up
      /\ \A i \in 1..Len(wires) : i # seat => wires'[i] = wires[i]
  <2> DEFINE v == wires'
  <2>1. v = Switched(wires, seat, FALSE)
    BY DEF Switched
  <2> HIDE DEF v
  <2>2. Alike(v, wires) /\ ~v[seat].up /\ \A i \in 1..Len(wires) : i # seat => v[i] = wires[i]
    BY <1>1, <2>1, ClosedIsAlike
  <2> QED BY <2>2 DEF v
<1>3. WireTypes' /\ WiresAsPicked'
  BY <1>2, AlikeKeeps DEF InService
<1>4. Len(wires') = Len(wires)
  BY <1>2 DEF Alike
<1>5. WiresAccounted'
  BY <1>2, <1>4 DEF WireInv, WiresAccounted
<1>6. ClosedFirst'
  BY DEF ClosedFirst
<1> QED BY <1>3, <1>5, <1>6 DEF WireInv

LEMMA WiresKept ==
  ASSUME DesktopSizes, AskTypes, PairingInv, StageInv, WireInv, [DesktopNext]_deskVars
  PROVE  WireInv'
<1>0. /\ wires \in Seq(Wired) /\ Len(wires) \in Nat
      /\ stage \in InService =>
           seat \in 1..Len(wires) /\ oms \in 1..Len(wires) /\ feed \in 1..Len(wires)
      /\ stage \notin InService \cup {"ended"} => wires = <<>>
      /\ linking.at # "none" => stage = "app"
  BY DEF WireInv, WireTypes, StageInv
<1> USE DEF InService
<1>1. CASE ReadArguments \/ ResolvePurse \/ ConfirmLive \/ StateTrouble \/ GateDone \/ QuitGate
  <2>1. wires' = wires /\ stage \notin InService \cup {"ended"} /\ stage' \notin InService
    BY <1>1 DEF ReadArguments, ResolvePurse, ConfirmLive, StateTrouble, GateDone, QuitGate,
       End, engineVars
  <2> QED BY <1>0, <2>1, NoWires
<1>2. ASSUME NEW missing \in BOOLEAN, BuildTrouble(missing) PROVE WireInv'
  <2>1. wires' = wires /\ stage = "build" /\ stage' \notin InService
    BY <1>2 DEF BuildTrouble, End, engineVars
  <2> QED BY <1>0, <2>1, NoWires
<1>3. CASE Interrupt
  <2>1. CASE stage = "headless"
    <3>1. /\ stage' = "ended" /\ linking.at = "none" /\ UNCHANGED <<seat, oms, feed, linking>>
          /\ wires' = [wires EXCEPT ![seat].up = FALSE]
      BY <1>0, <1>3, <2>1 DEF Interrupt, End
    <3> QED BY <2>1, <3>1, ShutdownKeeps
  <2>2. CASE stage # "headless"
    <3>1. wires' = <<>> /\ stage' = "ended"
      BY <1>0, <1>3, <2>2 DEF Interrupt, End
    <3> QED BY <3>1, NoWires
  <2> QED BY <2>1, <2>2
<1>4. CASE HeadlessHolds \/ CloseApp
  <2>1. /\ stage \in InService /\ stage' = "ended" /\ linking.at = "none"
        /\ UNCHANGED <<seat, oms, feed, linking>>
        /\ wires' = [wires EXCEPT ![seat].up = FALSE]
    BY <1>0, <1>4 DEF HeadlessHolds, CloseApp, End, Idle
  <2> QED BY <2>1, ShutdownKeeps
<1>5. CASE HeadlessArms
  <2>1. CASE UNCHANGED <<stage, wires>>
    <3>1. UNCHANGED <<seat, oms, feed, linking>>
      BY <1>5 DEF HeadlessArms
    <3> QED BY <2>1, <3>1, SameKeeps DEF Between
  <2>2. CASE stage' = "ended" /\ wires' = [wires EXCEPT ![seat].up = FALSE]
    <3>1. /\ stage \in InService /\ linking.at = "none" /\ UNCHANGED <<seat, oms, feed, linking>>
      BY <1>0, <1>5 DEF HeadlessArms
    <3> QED BY <2>2, <3>1, ShutdownKeeps
  <2> QED BY <1>5, <2>1, <2>2 DEF HeadlessArms, End
<1>6. CASE \/ ClickLogin \/ WorkerReports \/ PairingFailed \/ SaveConfig \/ UNCHANGED deskVars
           \/ (\E p \in Purses : PickRadio(p))
           \/ (\E to \in {"off", "idle", "live"} : Command(to))
  <2>1. UNCHANGED <<stage, wires, seat, oms, feed, linking>>
    BY <1>6 DEF ClickLogin, WorkerReports, PairingFailed, SaveConfig, PickRadio, Command,
       deskVars, engineVars
  <2> QED BY <2>1, SameKeeps DEF Between
<1>7. ASSUME NEW s \in Session, NEW p, linking.at = "none", Link(s, p),
             UNCHANGED <<stage, wires, seat, oms, feed>>
      PROVE  WireInv'
  <2>1. linking'.at = "api"
    BY <1>7 DEF Link
  <2> QED BY <1>7, <2>1, SameKeeps DEF Between
<1>8. ASSUME NEW s \in Sessions, ClickConnect(s) PROVE WireInv'
  BY <1>7, <1>8 DEF ClickConnect, Idle, Session
<1>9. CASE LoginDone
  <2>1. Head(due) \in Report
    BY <1>9 DEF LoginDone, AskTypes
  <2> QED BY <1>7, <1>9, <2>1 DEF LoginDone, Idle, Report
<1>10. CASE BuildOn
  <2>1. PICK session \in [ssid : Session, jar : Session], held \in 0 .. MaxOpen :
          BuildEngine(session, held)
    <3>1. SessionResolved \in [ssid : Session, jar : Session]
      BY SessionKnown
    <3>2. CASE \E held \in 0 .. MaxOpen : BuildEngine(SessionResolved, held)
      BY <3>1, <3>2
    <3>3. ASSUME NEW s \in Sessions, NEW held \in 0 .. MaxOpen,
                 BuildEngine([ssid |-> s, jar |-> s], held)
          PROVE  \E session \in [ssid : Session, jar : Session], o \in 0 .. MaxOpen :
                   BuildEngine(session, o)
      <4> DEFINE both == [ssid |-> s, jar |-> s]
      <4>1. both \in [ssid : Session, jar : Session]
        BY DEF Session
      <4>2. BuildEngine(both, held)
        BY <3>3
      <4> HIDE DEF both
      <4> QED BY <4>1, <4>2
    <3> QED BY <1>10, <3>2, <3>3 DEF BuildOn
  <2> DEFINE r == Wire(session, cfg.purse, TRUE, held)
  <2>2. cfg.purse = pick /\ pick \in Pick
    BY <2>1 DEF BuildEngine, PairingInv, AskTypes
  <2>3. r \in Wired /\ r.purse = r.pick
    BY <2>1, <2>2 DEF Wire, Wired
  <2>4. /\ wires' = Append(wires, r) /\ wires = <<>> /\ stage' \in InService /\ linking.at = "none"
        /\ seat' = Len(wires) + 1 /\ oms' = Len(wires) + 1 /\ feed' = Len(wires) + 1
        /\ linking' = linking
    BY <1>0, <2>1 DEF BuildEngine
  <2> HIDE DEF r
  <2>5. WireTypes' /\ WiresAsPicked' /\ Len(wires') = Len(wires) + 1
    BY <2>3, <2>4, AppendKeeps
  <2>6. ClosedFirst'
    BY <2>4 DEF ClosedFirst
  <2>7. Len(wires') = 1 /\ seat' = 1
    BY <2>4, <2>5
  <2>8. WiresAccounted'
    BY <2>4, <2>7 DEF WiresAccounted
  <2> QED BY <2>5, <2>6, <2>8 DEF WireInv
<1>11. CASE LinkApi
  <2>1. CASE linking'.at = "none" /\ wires' = wires
    <3>1. linking.at = "api" /\ UNCHANGED <<stage, seat, oms, feed>>
      BY <1>11 DEF LinkApi, LinkStep, linkKept
    <3> QED BY <2>1, <3>1, SameKeeps DEF Between
  <2> DEFINE r == Wire([ssid |-> linking.ssid, jar |-> NoSession], linking.purse, FALSE, 0)
  <2>2. CASE linking'.at = "close" /\ wires' = Append(wires, r)
    <3>1. linking.at = "api" /\ stage = "app" /\ UNCHANGED <<stage, seat, oms, feed>>
      BY <1>0, <1>11 DEF LinkApi, LinkStep, linkKept
    <3>2. linking.purse = pick /\ pick \in Pick /\ linking.ssid \in Session
      BY <3>1 DEF PairingInv, AskTypes
    <3>3. r \in Wired /\ r.purse = r.pick
      BY <3>2 DEF Wire, Wired, Session, DesktopSizes
    <3> HIDE DEF r
    <3>4. /\ WireTypes' /\ WiresAsPicked' /\ Len(wires') = Len(wires) + 1
          /\ \A i \in 1..Len(wires) : wires'[i] = wires[i]
      BY <2>2, <3>1, <3>3, AppendKeeps
    <3>5. ClosedFirst'
      BY <2>2 DEF ClosedFirst
    <3>6. \A i \in 1..Len(wires) : wires'[i].up => i \in {seat', feed'}
      BY <3>1, <3>4 DEF WireInv, WiresAccounted
    <3>7. \A i \in 1..Len(wires') : i \in 1..Len(wires) \/ i = Len(wires')
      BY <1>0, <3>4
    <3>8. WiresAccounted'
      BY <2>2, <3>1, <3>6, <3>7 DEF WiresAccounted
    <3> QED BY <3>4, <3>5, <3>8 DEF WireInv
  <2>3. linking.at = "api" /\ linking \in [at : {"none", "api", "close", "seat", "open", "oms"},
                                           ssid : Session, purse : Pick]
    BY <1>11 DEF LinkApi, LinkStep, AskTypes
  <2> QED BY <1>11, <2>1, <2>2, <2>3 DEF LinkApi, LinkStep
<1>12. CASE LinkClose
  <2>1. /\ linking.at = "close" /\ linking'.at = "seat" /\ stage = "app"
        /\ UNCHANGED <<stage, seat, oms, feed>>
        /\ wires' = Switched(wires, seat, FALSE)
    BY <1>0, <1>12 DEF Switched, LinkClose, LinkStep, linkKept, AskTypes
  <2>2. /\ Alike(wires', wires) /\ ~wires'[seat].up
        /\ \A i \in 1..Len(wires) : i # seat => wires'[i] = wires[i]
    <3> DEFINE w == wires
               v == wires'
               k == seat
    <3>1. w \in Seq(Wired) /\ k \in 1..Len(w) /\ v = Switched(w, k, FALSE)
      BY <1>0, <2>1
    <3> HIDE DEF w, v, k
    <3>2. Alike(v, w) /\ ~v[k].up /\ \A i \in 1..Len(w) : i # k => v[i] = w[i]
      BY <3>1, ClosedIsAlike
    <3> QED BY <3>2 DEF w, v, k
  <2>3. WireTypes' /\ WiresAsPicked'
    BY <2>1, <2>2, AlikeKeeps
  <2>4. Len(wires') = Len(wires)
    BY <2>2 DEF Alike
  <2>5. \A i \in 1..Len(wires) : wires[i].up => i \in {seat, feed, Len(wires)}
    BY <2>1 DEF WireInv, WiresAccounted
  <2>6. ClosedFirst' /\ WiresAccounted'
    BY <2>1, <2>2, <2>4, <2>5 DEF ClosedFirst, WiresAccounted
  <2> QED BY <2>3, <2>6 DEF WireInv
<1>13. CASE LinkSeat
  <2>1. /\ linking.at = "seat" /\ linking'.at = "open" /\ stage = "app"
        /\ UNCHANGED <<stage, wires, oms, feed>> /\ seat' = Len(wires)
    BY <1>0, <1>13 DEF LinkSeat, LinkStep, linkKept, AskTypes
  <2>2. WireTypes' /\ WiresAsPicked'
    BY <1>0, <2>1 DEF WireInv, WireTypes, WiresAsPicked
  <2>3. \A i \in 1..Len(wires) : wires[i].up => i \in {feed, Len(wires)}
    BY <2>1 DEF WireInv, ClosedFirst
  <2>4. ClosedFirst' /\ WiresAccounted'
    BY <2>1, <2>3 DEF ClosedFirst, WiresAccounted
  <2> QED BY <2>2, <2>4 DEF WireInv
<1>14. CASE LinkOpen
  <2>1. /\ linking.at = "open" /\ linking'.at \in {"oms", "none"} /\ stage = "app"
        /\ UNCHANGED <<stage, seat, oms, feed>>
    BY <1>0, <1>14 DEF LinkOpen, LinkStep, linkKept, AskTypes
  <2>2. wires' = wires \/ \E held \in 0 .. MaxOpen : wires' = Holding(wires, seat, held)
    BY <1>14 DEF LinkOpen, Holding
  <2>3. wires' = wires \/ (Alike(wires', wires) /\ \A i \in 1..Len(wires) : wires'[i].up = wires[i].up)
    BY <1>0, <2>1, <2>2, OpenSet
  <2>4. Between
    BY <2>1 DEF Between
  <2> QED BY <2>1, <2>3, <2>4, SameKeeps
<1>15. CASE LinkOms
  <2>1. /\ linking.at = "oms" /\ linking'.at = "none" /\ stage = "app"
        /\ UNCHANGED <<stage, wires, seat, feed>> /\ oms' = seat
    BY <1>0, <1>15 DEF LinkOms, LinkStep, linkKept, AskTypes
  <2>2. WireTypes' /\ WiresAsPicked'
    BY <1>0, <2>1 DEF WireInv, WireTypes, WiresAsPicked
  <2>3. ClosedFirst' /\ WiresAccounted'
    BY <2>1 DEF WireInv, ClosedFirst, WiresAccounted
  <2> QED BY <2>2, <2>3 DEF WireInv
<1>16. CASE LoopOrders \/ LoopSettles
  <2>1. oms \in 1..Len(wires) /\ UNCHANGED <<stage, seat, oms, feed, linking>>
    BY <1>0, <1>16 DEF LoopOrders, LoopSettles, StageInv
  <2>2. wires[oms] \in Wired
    BY <1>0, <2>1
  <2>3. wires[oms].open \in 0 .. MaxOpen /\ MaxOpen \in Nat
    BY <2>2 DEF Wired, DesktopSizes
  <2> DEFINE n == wires[oms].open
  <2>4. \/ n < MaxOpen /\ wires' = [wires EXCEPT ![oms].open = n + 1]
        \/ n > 0 /\ wires' = [wires EXCEPT ![oms].open = n - 1]
    BY <1>16 DEF LoopOrders, LoopSettles
  <2>5. n \in 0 .. MaxOpen
    BY <2>3
  <2> HIDE DEF n
  <2>6. \E held \in 0 .. MaxOpen : wires' = Holding(wires, oms, held)
    BY <2>3, <2>4, <2>5 DEF Holding
  <2>7. Alike(wires', wires) /\ \A i \in 1..Len(wires) : wires'[i].up = wires[i].up
    BY <1>0, <2>1, <2>6, OpenSet
  <2>8. Between
    BY <2>1 DEF Between
  <2> QED BY <2>1, <2>7, <2>8, SameKeeps
<1>17. CASE SupervisorSweeps
  <2>1. /\ stage \in InService /\ feed \in 1..Len(wires)
        /\ UNCHANGED <<stage, seat, oms, feed, linking>>
        /\ wires' = Switched(wires, feed, TRUE)
    BY <1>0, <1>17 DEF Switched, SupervisorSweeps, StageInv
  <2>2. /\ Alike(wires', wires) /\ \A i \in 1..Len(wires) : i # feed => wires'[i] = wires[i]
    <3> DEFINE v == wires'
    <3>1. wires \in Seq(Wired) /\ feed \in 1..Len(wires) /\ v = Switched(wires, feed, TRUE)
      BY <1>0, <2>1
    <3> HIDE DEF v
    <3>2. Alike(v, wires) /\ \A i \in 1..Len(wires) : i # feed => v[i] = wires[i]
      BY <3>1, RevivedIsAlike
    <3> QED BY <3>2 DEF v
  <2>3. WireTypes' /\ WiresAsPicked'
    BY <2>1, <2>2, AlikeKeeps
  <2>4. Len(wires') = Len(wires)
    BY <2>2 DEF Alike
  <2>5. ClosedFirst' /\ WiresAccounted'
    BY <2>1, <2>2, <2>4 DEF WireInv, ClosedFirst, WiresAccounted
  <2> QED BY <2>3, <2>5 DEF WireInv
<1> QED BY <1>1, <1>2, <1>3, <1>4, <1>5, <1>6, <1>8, <1>9, <1>10, <1>11, <1>12, <1>13,
           <1>14, <1>15, <1>16, <1>17 DEF DesktopNext

LEMMA DesktopStarts == ASSUME DesktopSizes, DesktopInit PROVE DesktopInv
<1>1. given \in Starts /\ given.purse \in Pick /\ NoSession \in Session
  BY DEF DesktopInit, DesktopSizes, Starts, Pick, Session
<1>2. AskTypes
  <2>1. saved \in [ssid : Session, jar : Session]
    BY DEF DesktopInit, Session
  <2> QED BY <1>1, <2>1 DEF DesktopInit, AskTypes, Pick, Session
<1>3. PairingInv
  BY DEF DesktopInit, PairingInv, OnePairing, Panes
<1>4. StageInv
  BY DEF DesktopInit, StageInv, NothingUnasked, InService, Panes
<1>5. WireInv
  BY DEF DesktopInit, WireInv, WireTypes, WiresAsPicked, ClosedFirst, WiresAccounted, InService
<1> QED BY <1>2, <1>3, <1>4, <1>5 DEF DesktopInv, WireInv

\* One pairing at a time, a purse that is the one picked when its session was
\* asked for, no wire before the confirmation and none forgotten but the one
\* the supervisor watches: for any sessions, command lines and bounds.
THEOREM DesktopIsOrderly ==
  ASSUME DesktopSizes PROVE DesktopSpec => []DesktopServes
<1>1. DesktopInit => DesktopInv
  BY DesktopStarts
<1>2. DesktopInv /\ [DesktopNext]_deskVars => DesktopInv'
  BY AskTypesKept, PairingKept, StageKept, WiresKept DEF DesktopInv, WireInv, PairingInv
<1>3. DesktopInv => DesktopServes
  BY DEF DesktopInv, DesktopServes, PairingInv, StageInv
<1> QED BY <1>1, <1>2, <1>3, PTL DEF DesktopSpec

---------------------------------------------------------------------------
(* A pairing with Chrome. *)

BrowserLimits ==
  /\ WaitTimeout \in Nat /\ MaxList \in Nat /\ MaxAsk \in Nat /\ MaxRead \in Nat
  /\ PollPause \in Nat

\* How long an attempt can have waited, at each of its steps.
PollBegun == WaitTimeout + MaxList
SocketIn  == PollBegun + MaxAsk
CookiesIn == SocketIn + MaxRead
TokenIn   == CookiesIn + MaxRead
Rested    == TokenIn + PollPause

WaitInv ==
  /\ waited \in Nat /\ waited <= Rested
  /\ step = "list" => waited <= WaitTimeout
  /\ step = "ask" => waited <= PollBegun
  /\ step = "cookies" => waited <= SocketIn
  /\ step = "token" => waited <= CookiesIn
  /\ step \in {"pause", "save"} => waited <= TokenIn

\* One session is of one reading.
Whole(s) ==
  /\ s.source = "cookie" => s \in FromCookie(s.jar)
  /\ s.source = "token" => Preferred(s.jar) = {}
  /\ \A c \in s.jar : c.venue

CatchInv ==
  /\ Whole(caught) /\ Whole(paired)
  /\ step = "token" => Preferred(jar) = {} /\ \A c \in jar : c.venue
  /\ step = "save" => caught.source # "none"

BrowserInv == WaitInv /\ CatchInv /\ FileFollows

LEMMA NoCatchIsWhole == Whole(NoCatch) /\ NoCatch.source = "none"
BY DEF Whole, NoCatch

LEMMA CookieIsWhole ==
  ASSUME NEW cookies, NEW cs \in Jars(cookies), NEW s \in FromCookie(cs)
  PROVE  Whole(s) /\ s.source # "none"
<1>1. PICK c \in Preferred(cs) : s = [source |-> "cookie", ssid |-> c.value, jar |-> cs]
  BY DEF FromCookie
<1>2. s.source = "cookie" /\ s.jar = cs
  BY <1>1
<1>3. \A d \in cs : d.venue
  BY DEF Jars
<1> QED BY <1>2, <1>3 DEF Whole

LEMMA TokenIsWhole ==
  ASSUME NEW cs, NEW token, Preferred(cs) = {}, \A c \in cs : c.venue
  PROVE  Whole(FromToken(cs, token)) /\ FromToken(cs, token).source # "none"
<1> DEFINE s == FromToken(cs, token)
<1>1. s.source = "token" /\ s.jar = cs
  BY DEF FromToken
<1> HIDE DEF s
<1>2. Whole(s) /\ s.source # "none"
  BY <1>1 DEF Whole
<1> QED BY <1>2 DEF s

LEMMA WaitKept ==
  ASSUME BrowserLimits, WaitInv, [BrowserNext]_browserVars PROVE WaitInv'
<1> USE DEF WaitInv, Rested, TokenIn, CookiesIn, SocketIn, PollBegun, BrowserLimits
<1>1. CASE LaunchChrome
  BY <1>1 DEF LaunchChrome
<1>2. CASE PollChrome
  BY <1>2 DEF PollChrome
<1>3. CASE ListTabs
  <2>1. PICK d \in 0..MaxList : waited' = waited + d
    BY <1>3 DEF ListTabs, Takes
  <2>2. step = "list" /\ step' \in {"cookies", "ask"}
    BY <1>3 DEF ListTabs
  <2> QED BY <2>1, <2>2
<1>4. CASE AskBrowser
  <2>1. PICK d \in 0..MaxAsk : waited' = waited + d
    BY <1>4 DEF AskBrowser, Takes
  <2>2. step = "ask" /\ step' \in {"cookies", "pause"}
    BY <1>4 DEF AskBrowser
  <2> QED BY <2>1, <2>2
<1>5. CASE ReadCookies
  <2>1. PICK d \in 0..MaxRead : waited' = waited + d
    BY <1>5 DEF ReadCookies, Takes
  <2>2. step = "cookies" /\ step' \in {"token", "save", "pause"}
    BY <1>5 DEF ReadCookies
  <2> QED BY <2>1, <2>2
<1>6. CASE ReadToken
  <2>1. PICK d \in 0..MaxRead : waited' = waited + d
    BY <1>6 DEF ReadToken, Takes
  <2>2. step = "token" /\ step' \in {"save", "pause"}
    BY <1>6 DEF ReadToken
  <2> QED BY <2>1, <2>2
<1>7. CASE RestPoll
  BY <1>7 DEF RestPoll
<1>8. CASE SaveSession
  BY <1>8 DEF SaveSession
<1>9. CASE \/ OpenChrome \/ QuitChrome \/ (\E tab \in Tabs : BrowseTo(tab))
           \/ (\E name \in SessionNames, v \in CookieValues : LogIn(name, v))
           \/ UNCHANGED browserVars
  <2>1. UNCHANGED <<step, waited>>
    BY <1>9 DEF OpenChrome, QuitChrome, BrowseTo, LogIn, browserVars, pollVars
  <2> QED BY <2>1
<1> QED BY <1>1, <1>2, <1>3, <1>4, <1>5, <1>6, <1>7, <1>8, <1>9 DEF BrowserNext

LEMMA CatchKept ==
  ASSUME CatchInv, FileFollows, [BrowserNext]_browserVars
  PROVE  CatchInv' /\ FileFollows'
<1>1. CASE LaunchChrome
  <2>1. /\ caught' = NoCatch /\ UNCHANGED paired /\ before' = paired
        /\ step' \in {"poll", "failed"}
    BY <1>1 DEF LaunchChrome
  <2>2. Whole(caught') /\ Whole(paired')
    BY <2>1, NoCatchIsWhole DEF CatchInv
  <2> QED BY <2>1, <2>2 DEF CatchInv, FileFollows
<1>2. CASE PollChrome \/ ListTabs \/ AskBrowser \/ RestPoll
  <2>1. /\ UNCHANGED <<caught, paired, before>> /\ step # "returned"
        /\ step' \notin {"token", "save", "returned"}
    BY <1>2 DEF PollChrome, ListTabs, AskBrowser, RestPoll
  <2> QED BY <2>1 DEF CatchInv, FileFollows
<1>3. CASE ReadCookies
  <2>1. UNCHANGED <<paired, before>> /\ step = "cookies" /\ step' # "returned"
    BY <1>3 DEF ReadCookies
  <2>2. CASE step' = "pause" /\ caught' = caught
    BY <2>1, <2>2 DEF CatchInv, FileFollows
  <2>3. ASSUME NEW cookies \in {profile, {}}, NEW cs \in Jars(cookies), jar' = cs,
               Preferred(cs) = {}, step' = "token", caught' = caught
        PROVE  CatchInv' /\ FileFollows'
    <3>1. \A c \in cs : c.venue
      BY DEF Jars
    <3>2. Preferred(jar') = {} /\ \A c \in jar' : c.venue
      BY <2>3, <3>1
    <3> QED BY <2>1, <2>3, <3>2 DEF CatchInv, FileFollows
  <2>4. ASSUME NEW cookies \in {profile, {}}, NEW cs \in Jars(cookies), jar' = cs,
               step' = "save", caught' \in FromCookie(cs)
        PROVE  CatchInv' /\ FileFollows'
    <3>1. Whole(caught') /\ caught'.source # "none"
      BY <2>4, CookieIsWhole
    <3> QED BY <2>1, <2>4, <3>1 DEF CatchInv, FileFollows
  <2> QED BY <1>3, <2>2, <2>3, <2>4 DEF ReadCookies
<1>4. CASE ReadToken
  <2>1. /\ UNCHANGED <<paired, before>> /\ step = "token" /\ step' \in {"save", "pause"}
        /\ Preferred(jar) = {} /\ \A c \in jar : c.venue
    BY <1>4 DEF ReadToken, CatchInv
  <2>2. CASE step' = "pause" /\ caught' = caught
    BY <2>1, <2>2 DEF CatchInv, FileFollows
  <2>3. CASE step' = "save" /\ caught' = FromToken(jar, tokens[target])
    <3>1. Whole(caught') /\ caught'.source # "none"
      BY <2>1, <2>3, TokenIsWhole
    <3> QED BY <2>1, <2>3, <3>1 DEF CatchInv, FileFollows
  <2> QED BY <1>4, <2>2, <2>3 DEF ReadToken
<1>5. CASE SaveSession
  BY <1>5 DEF SaveSession, CatchInv, FileFollows
<1>6. CASE \/ OpenChrome \/ QuitChrome \/ (\E tab \in Tabs : BrowseTo(tab))
           \/ (\E name \in SessionNames, v \in CookieValues : LogIn(name, v))
           \/ UNCHANGED browserVars
  <2>1. UNCHANGED <<step, jar, caught, paired, before>>
    BY <1>6 DEF OpenChrome, QuitChrome, BrowseTo, LogIn, browserVars, pollVars
  <2> QED BY <2>1 DEF CatchInv, FileFollows
<1> QED BY <1>1, <1>2, <1>3, <1>4, <1>5, <1>6 DEF BrowserNext

\* A pairing's session is of one reading of Chrome, is the one on file, and
\* the wait for it ends, for any cookies, tabs and limits.
THEOREM PairingIsOrderly ==
  ASSUME BrowserLimits PROVE BrowserSpec => []PairingServes
<1>1. BrowserInit => BrowserInv
  <2>1. BrowserInit => WaitInv
    BY DEF BrowserInit, WaitInv, BrowserLimits, Rested, TokenIn, CookiesIn, SocketIn, PollBegun
  <2>2. BrowserInit => CatchInv /\ FileFollows
    BY NoCatchIsWhole DEF BrowserInit, CatchInv, FileFollows
  <2> QED BY <2>1, <2>2 DEF BrowserInv
<1>2. BrowserInv /\ [BrowserNext]_browserVars => BrowserInv'
  BY WaitKept, CatchKept DEF BrowserInv
<1>3. BrowserInv => PairingServes
  <2>1. WaitInv => EndsInTime
    BY DEF WaitInv, EndsInTime, Rested, TokenIn, CookiesIn, SocketIn, PollBegun, BrowserLimits
  <2>2. CatchInv => OneReading
    BY DEF CatchInv, OneReading, Whole
  <2> QED BY <2>1, <2>2 DEF BrowserInv, PairingServes
<1> QED BY <1>1, <1>2, <1>3, PTL DEF BrowserSpec

---------------------------------------------------------------------------
(* Together. *)

\* The tape, the two consoles and the pairing side by side, with any sizes:
\* none of them spoils what another promises (data/tape.py, web/server.py,
\* gui/app.py, brokers/quotex/pairing.py).
THEOREM DeskIsKept ==
  ASSUME TapeSizes, WebSizes, DesktopSizes, BrowserLimits
  PROVE  DeskSpec => []DeskKeeps
<1>1. /\ TapeSpec => []DayTapesBounded
      /\ WebSpec => []ConsoleServes
      /\ DesktopSpec => []DesktopServes
      /\ BrowserSpec => []PairingServes
  BY TapesAreBounded, ConsoleIsOrderly, DesktopIsOrderly, PairingIsOrderly
<1>2. DayTapesBounded /\ ConsoleServes /\ DesktopServes /\ PairingServes => DeskKeeps
  BY DEF DeskKeeps
<1> QED BY <1>1, <1>2, PTL DEF DeskSpec

===========================================================================
