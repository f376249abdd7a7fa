---------------------------- MODULE Venue_proofs ----------------------------
(***************************************************************************)
(* What is proved of the venue side, for every value of the constants: the *)
(* wire and its healers, the candle book, the frames on the wire, and the  *)
(* account the engine's book is bound to.                                  *)
(***************************************************************************)
EXTENDS VenueLink, CandleBook, WireStream, AccountSeat,
        FiniteSetTheorems, SequenceTheorems, TLAPS

---------------------------------------------------------------------------
(* The wire to the venue and who heals it (VenueLink). *)

\* What a socket is typed by, field by field.
LEMMA SocketFields ==
  ASSUME TypeOK, NEW w \in Wires
  PROVE  /\ link[w] \in Sockets
         /\ link[w].run \in BOOLEAN /\ link[w].reads \in BOOLEAN /\ link[w].fed \in BOOLEAN
         /\ link[w].shown \in BOOLEAN /\ link[w].was \in BOOLEAN /\ link[w].beat \in BOOLEAN
         /\ link[w].net \in {"none", "up", "cut", "closed"} /\ link[w].heal \in HealSteps
         /\ link[w].tries \in 0 .. MaxHeals /\ link[w].sess \in Sessions
BY DEF TypeOK, Sockets

\* Fields change to values of their types.
LEMMA SocketEdits ==
  ASSUME NEW r \in Sockets
  PROVE  /\ [r EXCEPT !.shown = TRUE] \in Sockets
         /\ [r EXCEPT !.shown = TRUE, !.was = TRUE] \in Sockets
         /\ [r EXCEPT !.was = TRUE, !.beat = TRUE] \in Sockets
         /\ [r EXCEPT !.reads = FALSE] \in Sockets
<1>1. [r EXCEPT !.shown = TRUE] \in Sockets
  BY DEF Sockets
<1>2. [r EXCEPT !.shown = TRUE, !.was = TRUE] \in Sockets
  BY DEF Sockets
<1>3. [r EXCEPT !.was = TRUE, !.beat = TRUE] \in Sockets
  BY DEF Sockets
<1>4. [r EXCEPT !.reads = FALSE] \in Sockets
  BY DEF Sockets
<1> QED BY <1>1, <1>2, <1>3, <1>4

LEMMA SocketStops ==
  ASSUME NEW r \in Sockets, NEW heal \in HealSteps
  PROVE  [r EXCEPT !.reads = FALSE, !.shown = FALSE, !.net = "closed", !.heal = heal] \in Sockets
BY DEF Sockets

LEMMA SocketCloses ==
  ASSUME NEW r \in Sockets, NEW net \in {"none", "up", "cut", "closed"}
  PROVE  [r EXCEPT !.run = FALSE, !.shown = FALSE, !.reads = FALSE, !.net = net] \in Sockets
BY DEF Sockets

LEMMA ReplayTypes ==
  ASSUME TypeOK
  PROVE  /\ Replayed \in [Wires -> Sockets]
         /\ \A w \in Wires : w # service => Replayed[w] = link[w]
         /\ \A w \in Wires : /\ Replayed[w].run = link[w].run /\ Replayed[w].net = link[w].net
                             /\ Replayed[w].reads = link[w].reads /\ Replayed[w].sess = link[w].sess
                             /\ Replayed[w].heal = link[w].heal
         /\ service # NoWire /\ link[service].net = "up" => Replayed[service].fed = TRUE
         /\ service # NoWire /\ link[service].fed = TRUE => Replayed[service].fed = TRUE
<1>1. link \in [Wires -> Sockets] /\ service \in Wires \cup {NoWire}
  BY DEF TypeOK
<1>2. CASE service = NoWire
  BY <1>1, <1>2, LinkAssumption DEF Replayed
<1>3. CASE service # NoWire
  <2> DEFINE fed == link[service].fed \/ link[service].net = "up"
  <2>1. fed \in BOOLEAN /\ Replayed = [link EXCEPT ![service].fed = fed]
    BY <1>1, <1>3 DEF Replayed
  <2>2. (link[service].net = "up" => fed = TRUE) /\ (link[service].fed = TRUE => fed = TRUE)
    BY <1>1, <1>3
  <2> HIDE DEF fed
  <2>3. Replayed \in [Wires -> Sockets]
    BY <1>1, <1>3, <2>1 DEF Sockets
  <2> QED BY <1>1, <1>3, <2>1, <2>2, <2>3 DEF Sockets
<1> QED BY <1>2, <1>3

WireSteps(w) ==
  NamespaceUp(w) \/ Reading(w) \/ SendFails(w) \/ PumperHeals(w) \/ Healing(w) \/ Cut(w)

LEMMA LinkTypes ==
  ASSUME TypeOK, link' \in [Wires -> Sockets],
         UNCHANGED <<service, session, dead, callVars, sweepVars, pastVars>>
  PROVE  TypeOK'
BY DEF TypeOK, callVars, sweepVars, pastVars

\* One socket that changes to a socket.
LEMMA OneSocket ==
  ASSUME TypeOK, NEW w \in Wires, NEW r \in Sockets, link' = [link EXCEPT ![w] = r]
  PROVE  link' \in [Wires -> Sockets] /\ link'[w] = r /\ \A v \in Wires : v # w => link'[v] = link[v]
BY DEF TypeOK

LEMMA WireStepTypes ==
  ASSUME TypeOK, NEW w \in Wires, WireSteps(w)
  PROVE  TypeOK'
<1>1. link \in [Wires -> Sockets]
  BY DEF TypeOK
<1>2. CASE NamespaceUp(w)
  <2>1. /\ link' = [link EXCEPT ![w].shown = TRUE, ![w].was = TRUE]
        /\ UNCHANGED <<service, session, dead, callVars, sweepVars, pastVars>>
    BY <1>2 DEF NamespaceUp
  <2>2. [link[w] EXCEPT !.shown = TRUE, !.was = TRUE] \in Sockets
    BY <1>1, SocketEdits
  <2>3. link' = [link EXCEPT ![w] = [link[w] EXCEPT !.shown = TRUE, !.was = TRUE]]
    BY <1>1, <2>1
  <2> QED BY <2>1, <2>2, <2>3, OneSocket, LinkTypes
<1>3. CASE Reading(w)
  <2>1. /\ UNCHANGED <<service, session, dead, callVars, sweepVars, pastVars>>
        /\ \/ link' = [link EXCEPT ![w].reads = FALSE]
           \/ \E heal \in HealSteps :
                link' = [link EXCEPT ![w].reads = FALSE, ![w].shown = FALSE,
                                     ![w].net = "closed", ![w].heal = heal]
    <3>1. CASE ReaderLeaves(w)
      BY <3>1 DEF ReaderLeaves
    <3>2. CASE ReaderHeals(w)
      <4> DEFINE heal == IF link[w].run /\ link[w].was /\ link[w].heal = "idle" THEN "wait"
                         ELSE link[w].heal
      <4>1. heal \in HealSteps
        BY SocketFields DEF HealSteps
      <4>2. link' = [link EXCEPT ![w].reads = FALSE, ![w].shown = FALSE,
                                 ![w].net = "closed", ![w].heal = heal]
        BY <1>1, <3>2 DEF ReaderHeals
      <4> QED BY <3>2, <4>1, <4>2 DEF ReaderHeals
    <3> QED BY <1>3, <3>1, <3>2 DEF Reading
  <2>2. CASE link' = [link EXCEPT ![w].reads = FALSE]
    <3>1. link' = [link EXCEPT ![w] = [link[w] EXCEPT !.reads = FALSE]]
      BY <1>1, <2>2
    <3>2. [link[w] EXCEPT !.reads = FALSE] \in Sockets
      BY <1>1, SocketEdits
    <3> QED BY <2>1, <3>1, <3>2, OneSocket, LinkTypes
  <2>3. ASSUME NEW heal \in HealSteps,
               link' = [link EXCEPT ![w].reads = FALSE, ![w].shown = FALSE,
                                    ![w].net = "closed", ![w].heal = heal]
        PROVE  TypeOK'
    <3> DEFINE r == [link[w] EXCEPT !.reads = FALSE, !.shown = FALSE, !.net = "closed", !.heal = heal]
    <3>1. link' = [link EXCEPT ![w] = r]
      BY <1>1, <2>3
    <3>2. r \in Sockets
      BY <1>1, SocketStops
    <3> HIDE DEF r
    <3> QED BY <2>1, <3>1, <3>2, OneSocket, LinkTypes
  <2> QED BY <2>1, <2>2, <2>3
<1>4. CASE SendFails(w) \/ PumperHeals(w)
  BY <1>4 DEF SendFails, PumperHeals, TypeOK, Sockets, HealSteps, callVars, sweepVars, pastVars
<1>5. CASE HealOver(w) \/ HealBegin(w)
  BY <1>5, LinkAssumption DEF HealOver, HealBegin, TypeOK, Sockets, HealSteps, callVars, sweepVars, pastVars
<1>6. CASE HealDial(w) \/ HealShake(w)
  BY <1>6 DEF HealDial, HealShake, TypeOK, Sockets, HealSteps, callVars, sweepVars, pastVars
<1>7. CASE HealAuth(w)
  BY <1>7, LinkAssumption DEF HealAuth, TypeOK, Sockets, HealSteps, callVars, sweepVars, pastVars
<1>8. CASE HealHook(w)
  <2>1. Replayed \in [Wires -> Sockets]
    BY ReplayTypes
  <2>2. link' = [Replayed EXCEPT ![w].heal = "idle", ![w].tries = 0]
    BY <1>8 DEF HealHook
  <2>3. "idle" \in HealSteps /\ 0 \in 0 .. MaxHeals
    BY LinkAssumption DEF HealSteps
  <2> HIDE DEF Replayed
  <2>4. link' \in [Wires -> Sockets]
    BY <2>1, <2>2, <2>3 DEF Sockets
  <2> QED BY <1>8, <2>4 DEF HealHook, TypeOK, callVars, sweepVars, pastVars
<1>9. CASE Cut(w)
  BY <1>9, LinkAssumption DEF Cut, TypeOK, Sockets, callVars, sweepVars
<1> QED BY <1>2, <1>3, <1>4, <1>5, <1>6, <1>7, <1>8, <1>9 DEF WireSteps, Healing

LEMMA LinkStarts == Init => TypeOK
<1> SUFFICES ASSUME Init PROVE TypeOK
  OBVIOUS
<1>1. Unused \in Sockets
  BY LinkAssumption DEF Unused, Sockets, HealSteps, Sessions
<1> DEFINE w == CHOOSE w \in Wires : TRUE
<1>2. w \in Wires
  BY LinkAssumption
<1> HIDE DEF w
<1>3. /\ service = w
      /\ link = [v \in Wires |-> IF v # w THEN Unused ELSE
            [Unused EXCEPT !.run = TRUE, !.net = "up", !.shown = TRUE,
                           !.was = TRUE, !.beat = TRUE, !.reads = TRUE,
                           !.fed = TRUE]]
  BY DEF Init, w
<1>4. [Unused EXCEPT !.run = TRUE, !.net = "up", !.shown = TRUE, !.was = TRUE, !.beat = TRUE,
                     !.reads = TRUE, !.fed = TRUE] \in Sockets
  BY <1>1 DEF Sockets
<1>5. link \in [Wires -> Sockets]
  BY <1>1, <1>3, <1>4
<1>6. /\ at \in [Callers -> CallSteps] /\ mine \in [Callers -> Wires \cup {NoWire}]
      /\ host \in [Callers -> 1 .. Hosts]
  BY LinkAssumption DEF Init, CallSteps
<1>7. session \in Sessions /\ dead \subseteq Sessions
  BY LinkAssumption DEF Init, Sessions
<1>8. faults \in 0 .. MaxFaults /\ reseats \in 0 .. MaxReseats /\ attempts \in Nat
  BY LinkAssumption DEF Init
<1>9. seen \in BOOLEAN /\ givenUp \in BOOLEAN /\ resting \in BOOLEAN /\ overlap \in BOOLEAN
  BY DEF Init
<1>10. service \in Wires \cup {NoWire}
  BY <1>2, <1>3
<1> HIDE DEF Init
<1> QED BY <1>5, <1>6, <1>7, <1>8, <1>9, <1>10 DEF TypeOK

LEMMA CallerStepTypes ==
  ASSUME TypeOK, NEW c \in Callers, Connecting(c)
  PROVE  TypeOK'
<1> USE DEF CallSteps
<1>1. /\ link \in [Wires -> Sockets] /\ at \in [Callers -> CallSteps]
      /\ mine \in [Callers -> Wires \cup {NoWire}] /\ host \in [Callers -> 1 .. Hosts]
      /\ service \in Wires \cup {NoWire} /\ attempts \in Nat
  BY DEF TypeOK
<1>2. ASSUME NEW w \in Wires PROVE Disconnected(w) \in Sockets
  <2> DEFINE net == IF link[w].net = "none" THEN link[w].net ELSE "closed"
  <2>1. net \in {"none", "up", "cut", "closed"}
    OBVIOUS
  <2>2. Disconnected(w) = [link[w] EXCEPT !.run = FALSE, !.shown = FALSE, !.reads = FALSE, !.net = net]
    BY <1>1 DEF Disconnected, Sockets
  <2>3. link[w] \in Sockets
    BY <1>1
  <2> HIDE DEF net
  <2>4. [link[w] EXCEPT !.run = FALSE, !.shown = FALSE, !.reads = FALSE, !.net = net] \in Sockets
    BY <2>1, <2>3, SocketCloses
  <2> QED BY <2>2, <2>4
<1>3. ASSUME Raised(c) PROVE /\ at' \in [Callers -> CallSteps] /\ mine' \in [Callers -> Wires \cup {NoWire}]
                             /\ attempts' \in Nat /\ resting' \in BOOLEAN /\ givenUp' \in BOOLEAN
                             /\ seen' = seen
  <2>1. at' \in [Callers -> CallSteps] /\ mine' \in [Callers -> Wires \cup {NoWire}] /\ seen' = seen
    BY <1>1, <1>3 DEF Raised, Become, sweepVars
  <2>2. attempts + 1 \in Nat /\ resting \in BOOLEAN /\ givenUp \in BOOLEAN
    BY <1>1 DEF TypeOK
  <2>3. attempts' \in {attempts, attempts + 1} /\ resting' \in {resting, TRUE}
    BY <1>3 DEF Raised, sweepVars
  <2>4. givenUp' = givenUp \/ givenUp' = (attempts + 1 >= MaxAttempts)
    BY <1>3 DEF Raised, sweepVars
  <2>5. givenUp' \in BOOLEAN
    <3> DEFINE spent == attempts + 1 >= MaxAttempts
    <3>1. spent \in BOOLEAN
      OBVIOUS
    <3>2. givenUp' = givenUp \/ givenUp' = spent
      BY <2>4
    <3> HIDE DEF spent
    <3> QED BY <2>2, <3>1, <3>2, Zenon
  <2> QED BY <1>1, <2>1, <2>2, <2>3, <2>5
<1>4. ASSUME Failed(c) PROVE /\ at' \in [Callers -> CallSteps] /\ mine' \in [Callers -> Wires \cup {NoWire}]
                             /\ host' \in [Callers -> 1 .. Hosts]
                             /\ attempts' \in Nat /\ resting' \in BOOLEAN /\ givenUp' \in BOOLEAN
                             /\ seen' = seen
  <2>1. CASE host[c] < Hosts
    <3>1. host[c] + 1 \in 1 .. Hosts
      BY <1>1, <2>1, LinkAssumption
    <3> QED BY <1>1, <1>4, <2>1, <3>1 DEF Failed, Become, sweepVars, TypeOK
  <2>2. CASE ~(host[c] < Hosts)
    BY <1>1, <1>3, <1>4, <2>2 DEF Failed
  <2> QED BY <2>1, <2>2
<1>5. CASE CloseOld(c)
  <2>1. link' \in [Wires -> Sockets]
    BY <1>1, <1>2, <1>5 DEF CloseOld
  <2>2. at' \in [Callers -> CallSteps]
    BY <1>1, <1>5 DEF CloseOld, Become
  <2> QED BY <1>5, <2>1, <2>2 DEF CloseOld, TypeOK, sweepVars, pastVars
<1>6. CASE Forget(c) \/ Adopt(c)
  <2>1. at' \in [Callers -> CallSteps] /\ mine' \in [Callers -> Wires \cup {NoWire}]
        /\ service' \in Wires \cup {NoWire}
    BY <1>1, <1>6 DEF Forget, Adopt, Become
  <2> QED BY <1>6, <2>1 DEF Forget, Adopt, TypeOK, sweepVars, pastVars
<1>7. CASE Dial(c)
  <2> DEFINE w == CHOOSE w \in Wires : Retired(w)
  <2>1. w \in Wires
    BY <1>7 DEF Dial
  <2>2. /\ mine' = [mine EXCEPT ![c] = w] /\ Become(c, "shake")
        /\ link' = [link EXCEPT ![w] = [Unused EXCEPT !.run = TRUE, !.net = "up", !.reads = TRUE,
                                                      !.sess = session]]
        /\ UNCHANGED <<service, session, dead, host, sweepVars, pastVars>>
    BY <1>7 DEF Dial
  <2> HIDE DEF w
  <2>3. Unused \in Sockets /\ session \in Sessions
    BY LinkAssumption DEF Unused, Sockets, HealSteps, Sessions, TypeOK
  <2>4. [Unused EXCEPT !.run = TRUE, !.net = "up", !.reads = TRUE, !.sess = session] \in Sockets
    BY <2>3 DEF Sockets
  <2>5. link' \in [Wires -> Sockets]
    BY <1>1, <2>1, <2>2, <2>4
  <2>6. at' \in [Callers -> CallSteps] /\ mine' \in [Callers -> Wires \cup {NoWire}]
    BY <1>1, <2>1, <2>2 DEF Become
  <2> QED BY <2>2, <2>5, <2>6 DEF TypeOK, sweepVars, pastVars
<1>8. CASE DialFails(c)
  BY <1>4, <1>8 DEF DialFails, TypeOK, pastVars
<1>9. CASE Shake(c) \/ Authorize(c)
  <2>1. /\ at' \in [Callers -> CallSteps]
        /\ UNCHANGED <<service, session, dead, mine, host, sweepVars, pastVars>>
    BY <1>1, <1>9 DEF Shake, Authorize, Become
  <2>2. link' \in [Wires -> Sockets]
    <3>0. mine[c] # NoWire => mine[c] \in Wires
      BY <1>1
    <3>1. CASE link' = [link EXCEPT ![mine[c]].shown = TRUE]
      <4>1. mine[c] \in Wires => link' = [link EXCEPT ![mine[c]] = [link[mine[c]] EXCEPT !.shown = TRUE]]
        BY <1>1, <3>1
      <4>2. mine[c] \notin Wires => link' = link
        BY <1>1, <3>1
      <4> QED BY <1>1, <4>1, <4>2, SocketEdits, OneSocket
    <3>2. CASE link' = [link EXCEPT ![mine[c]].was = TRUE, ![mine[c]].beat = TRUE]
      <4>1. mine[c] \in Wires =>
              link' = [link EXCEPT ![mine[c]] = [link[mine[c]] EXCEPT !.was = TRUE, !.beat = TRUE]]
        BY <1>1, <3>2
      <4>2. mine[c] \notin Wires => link' = link
        BY <1>1, <3>2
      <4> QED BY <1>1, <4>1, <4>2, SocketEdits, OneSocket
    <3> QED BY <1>9, <3>1, <3>2 DEF Shake, Authorize
  <2> QED BY <2>1, <2>2 DEF TypeOK, sweepVars, pastVars
<1>10. CASE ShakeFails(c) \/ AuthFails(c) \/ Rejected(c)
  <2>1. link' \in [Wires -> Sockets]
    BY <1>1, <1>2, <1>10 DEF ShakeFails, AuthFails, Rejected
  <2>2. /\ at' \in [Callers -> CallSteps] /\ mine' \in [Callers -> Wires \cup {NoWire}]
        /\ host' \in [Callers -> 1 .. Hosts]
        /\ attempts' \in Nat /\ resting' \in BOOLEAN /\ givenUp' \in BOOLEAN /\ seen' = seen
    BY <1>1, <1>3, <1>4, <1>10 DEF ShakeFails, AuthFails, Rejected
  <2>3. UNCHANGED <<service, session, dead, faults, reseats, overlap>>
    BY <1>10 DEF ShakeFails, AuthFails, Rejected, pastVars
  <2> QED BY <2>1, <2>2, <2>3 DEF TypeOK
<1>11. CASE Replay(c)
  <2>1. link' \in [Wires -> Sockets] /\ at' \in [Callers -> CallSteps]
    BY <1>1, <1>11, ReplayTypes DEF Replay, Become
  <2>2. /\ attempts' \in Nat /\ resting' \in BOOLEAN /\ givenUp' = givenUp /\ seen' = seen
        /\ UNCHANGED <<service, session, dead, mine, host, pastVars>>
    <3>1. attempts' \in {attempts, 0} /\ resting' \in {resting, FALSE} /\ givenUp' = givenUp
          /\ seen' = seen /\ UNCHANGED <<service, session, dead, mine, host, pastVars>>
      BY <1>11 DEF Replay, sweepVars
    <3>2. attempts' \in Nat
      BY <3>1 DEF TypeOK
    <3>3. resting' \in BOOLEAN
      BY <3>1, Zenon DEF TypeOK
    <3> QED BY <3>1, <3>2, <3>3
  <2> QED BY <2>1, <2>2 DEF TypeOK, pastVars
<1> QED BY <1>5, <1>6, <1>7, <1>8, <1>9, <1>10, <1>11 DEF Connecting

LEMMA LinkNextTypes ==
  ASSUME TypeOK, [Next]_vars
  PROVE  TypeOK'
<1>1. CASE SweepUp \/ BackoffOver \/ SessionDies
  <2>1. CASE SweepUp \/ BackoffOver
    <3>1. /\ UNCHANGED <<link, service, session, dead, callVars, pastVars>>
          /\ attempts' \in {attempts, 0} /\ seen' \in {seen, TRUE}
          /\ givenUp' \in {givenUp, FALSE} /\ resting' = FALSE
      BY <2>1 DEF SweepUp, BackoffOver
    <3>2. attempts' \in Nat
      BY <3>1 DEF TypeOK
    <3>3. seen' \in BOOLEAN /\ givenUp' \in BOOLEAN /\ resting' \in BOOLEAN
      BY <3>1, Zenon DEF TypeOK
    <3> QED BY <3>1, <3>2, <3>3 DEF TypeOK, callVars, pastVars
  <2>2. CASE SessionDies
    <3>1. /\ UNCHANGED <<link, service, session, callVars, sweepVars, pastVars>>
          /\ \E s \in 0 .. session : dead' = dead \cup {s}
      BY <2>2 DEF SessionDies
    <3>2. dead \subseteq Sessions /\ 0 .. session \subseteq Sessions
      BY LinkAssumption DEF TypeOK, Sessions
    <3>3. dead' \subseteq Sessions
      BY <3>1, <3>2
    <3> QED BY <3>1, <3>3 DEF TypeOK, callVars, sweepVars, pastVars
  <2> QED BY <1>1, <2>1, <2>2
<1>2. CASE SweepDown \/ Reseat
  <2>1. /\ at' \in [Callers -> CallSteps] /\ host' \in [Callers -> 1 .. Hosts] /\ mine' = mine
        /\ overlap' \in BOOLEAN
    <3>1. PICK c \in Callers : Enter(c)
      BY <1>2 DEF SweepDown, Reseat, Callers
    <3>2. /\ at' = [at EXCEPT ![c] = IF service # NoWire THEN "close" ELSE "dial"]
          /\ host' = [host EXCEPT ![c] = 1] /\ mine' = mine
          /\ overlap' = (overlap \/ \E d \in Callers \ {c} : at[d] # "idle")
      BY <3>1 DEF Enter, Become
    <3>3. at \in [Callers -> CallSteps] /\ host \in [Callers -> 1 .. Hosts] /\ 1 \in 1 .. Hosts
      BY LinkAssumption DEF TypeOK
    <3>4. at' \in [Callers -> CallSteps] /\ host' \in [Callers -> 1 .. Hosts]
      BY <3>2, <3>3 DEF CallSteps
    <3>5. overlap' \in BOOLEAN
      BY <3>2, Zenon DEF TypeOK
    <3> QED BY <3>2, <3>4, <3>5
  <2>2. session' \in Sessions /\ reseats' \in 0 .. MaxReseats
    BY <1>2, LinkAssumption DEF SweepDown, Reseat, Sessions, TypeOK
  <2> QED BY <1>2, <2>1, <2>2 DEF SweepDown, Reseat, TypeOK, sweepVars
<1>3. CASE UNCHANGED vars
  BY <1>3 DEF vars, TypeOK, callVars, sweepVars, pastVars
<1> QED BY <1>1, <1>2, <1>3, CallerStepTypes, WireStepTypes DEF Next, Sweeping, WireSteps

\* For any sockets, hosts, attempts and faults, every variable keeps its type,
\* and no reconnect loop outruns its budget (QuotexSocket._reconnect_loop).
THEOREM LinkTypeCorrect == Spec => []TypeOK
BY LinkStarts, LinkNextTypes, PTL DEF Spec

---------------------------------------------------------------------------
\* The wire in service runs and is up, and nobody has asked it for the stream.
Hungry == /\ service # NoWire
          /\ link[service].run /\ link[service].net = "up"
          /\ link[service].heal = "idle" /\ ~link[service].fed

\* ... only while a connect() is still to replay the subscriptions.
FedSoon == Hungry => \E c \in Callers : at[c] = "replay"

\* Where a caller holds a socket of its own, and where it has dropped the old one.
Holds(c)   == at[c] \in {"shake", "auth", "adopt"}
Emptied(c) == at[c] = "dial" \/ Holds(c)

\* A socket is held exactly where connect() has built one.
Hands == \A c \in Callers : mine[c] # NoWire <=> Holds(c)

\* A socket with a thread of its own.
Alive(w) == link[w].run \/ link[w].reads

\* While one connect() at a time is in progress: it has taken the old socket
\* out of service before it dials, every live socket is in service or in its
\* hands, and both run on the session of this moment.
Ownership ==
  /\ \E c \in Callers : at[c] = "idle"
  /\ \A c \in Callers : /\ Emptied(c) => service = NoWire
                        /\ at[c] = "forget" /\ service # NoWire => ~Alive(service)
                        /\ Holds(c) => link[mine[c]].sess = session
  /\ \A w \in Wires : Alive(w) => service = w \/ \E c \in Callers : mine[c] = w
  /\ service # NoWire /\ at["main"] \notin {"close", "forget"} => link[service].sess = session

LinkInv == TypeOK /\ Hands /\ FedSoon /\ (overlap \/ Ownership)

\* What a step of a socket's own threads, or of the network, does to a socket
\* at most: no thread starts on a stopped socket, and the session stays.
Wanes(r, q) == /\ q.run => r.run
               /\ q.reads => r.reads \/ r.run
               /\ q.sess = r.sess

LEMMA WireStepFrame ==
  ASSUME TypeOK, NEW w \in Wires, WireSteps(w)
  PROVE  /\ UNCHANGED <<service, session, at, mine, overlap>>
         /\ \A v \in Wires : Wanes(link[v], link'[v])
         /\ Hungry' => Hungry
<1>1. link \in [Wires -> Sockets] /\ service \in Wires \cup {NoWire}
  BY DEF TypeOK
<1>2. UNCHANGED <<service, session, at, mine, overlap>>
  BY DEF WireSteps, NamespaceUp, Reading, ReaderHeals, ReaderLeaves, SendFails, PumperHeals,
         Healing, HealOver, HealBegin, HealDial, HealShake, HealAuth, HealHook, Cut,
         callVars, pastVars
<1>3. CASE HealHook(w)
  <2>1. Replayed \in [Wires -> Sockets]
    BY ReplayTypes
  <2>2. link' = [Replayed EXCEPT ![w].heal = "idle", ![w].tries = 0]
    BY <1>3 DEF HealHook
  <2>3. \A v \in Wires : /\ Replayed[v].run = link[v].run /\ Replayed[v].reads = link[v].reads
                         /\ Replayed[v].sess = link[v].sess /\ Replayed[v].net = link[v].net
    BY ReplayTypes
  <2>4. service # NoWire /\ link[service].net = "up" => Replayed[service].fed = TRUE
    BY ReplayTypes
  <2> HIDE DEF Replayed
  <2>5. \A v \in Wires : /\ link'[v].run = Replayed[v].run /\ link'[v].reads = Replayed[v].reads
                         /\ link'[v].sess = Replayed[v].sess /\ link'[v].net = Replayed[v].net
                         /\ link'[v].fed = Replayed[v].fed
    BY <2>1, <2>2 DEF Sockets
  <2>6. \A v \in Wires : Wanes(link[v], link'[v])
    BY <2>3, <2>5 DEF Wanes
  <2>7. ~Hungry'
    BY <1>1, <1>2, <2>3, <2>4, <2>5 DEF Hungry
  <2> QED BY <1>2, <2>6, <2>7
<1>4. CASE ~HealHook(w)
  <2>1. /\ \A v \in Wires : v # w => link'[v] = link[v]
        /\ Wanes(link[w], link'[w])
        /\ (link'[w].run /\ link'[w].net = "up" /\ link'[w].heal = "idle" /\ ~link'[w].fed)
             => (link[w].run /\ link[w].net = "up" /\ link[w].heal = "idle" /\ ~link[w].fed)
    <3> USE <1>1 DEF Sockets, Wanes
    <3>1. CASE NamespaceUp(w)
      BY <3>1 DEF NamespaceUp
    <3>2. CASE ReaderHeals(w)
      BY <3>2 DEF ReaderHeals
    <3>3. CASE ReaderLeaves(w)
      BY <3>3 DEF ReaderLeaves
    <3>4. CASE SendFails(w) \/ PumperHeals(w)
      BY <3>4 DEF SendFails, PumperHeals
    <3>5. CASE HealOver(w)
      BY <3>5 DEF HealOver
    <3>6. CASE HealBegin(w)
      BY <3>6 DEF HealBegin
    <3>7. CASE HealDial(w)
      BY <3>7 DEF HealDial
    <3>8. CASE HealShake(w)
      BY <3>8 DEF HealShake
    <3>9. CASE HealAuth(w)
      BY <3>9 DEF HealAuth
    <3>10. CASE Cut(w)
      BY <3>10 DEF Cut
    <3> QED BY <1>4, <3>1, <3>2, <3>3, <3>4, <3>5, <3>6, <3>7, <3>8, <3>9, <3>10
          DEF WireSteps, Reading, Healing
  <2>2. \A v \in Wires : Wanes(link[v], link'[v])
    BY <2>1 DEF Wanes
  <2>3. Hungry' => Hungry
    BY <1>1, <1>2, <2>1 DEF Hungry
  <2> QED BY <1>2, <2>2, <2>3
<1> QED BY <1>3, <1>4

\* What a step inside connect() is made of: the caller moves on, the others
\* stay where they are.
LEMMA CallerMoves ==
  ASSUME TypeOK, NEW c \in Callers, Connecting(c)
  PROVE  /\ at[c] # "idle" /\ session' = session /\ overlap' = overlap
         /\ \A d \in Callers : d # c => at'[d] = at[d] /\ mine'[d] = mine[d]
         /\ at'[c] \in CallSteps \ {"close"} /\ mine'[c] \in Wires \cup {NoWire}
<1>1. at \in [Callers -> CallSteps] /\ mine \in [Callers -> Wires \cup {NoWire}]
  BY DEF TypeOK
<1>2. CASE CloseOld(c) \/ Forget(c) \/ Adopt(c) \/ Replay(c)
  BY <1>1, <1>2 DEF CloseOld, Forget, Adopt, Replay, Become, CallSteps, pastVars
<1>3. CASE Dial(c)
  BY <1>1, <1>3 DEF Dial, Become, CallSteps, pastVars
<1>4. CASE Shake(c) \/ Authorize(c)
  BY <1>1, <1>4 DEF Shake, Authorize, Become, CallSteps, pastVars
<1>5. CASE DialFails(c) \/ ShakeFails(c) \/ AuthFails(c) \/ Rejected(c)
  <2>1. /\ at[c] \in {"dial", "shake", "auth"} /\ session' = session /\ overlap' = overlap
        /\ Failed(c) \/ Raised(c)
    BY <1>5 DEF DialFails, ShakeFails, AuthFails, Rejected, pastVars
  <2>2. /\ \E place \in {"dial", "idle"} : at' = [at EXCEPT ![c] = place]
        /\ mine' = [mine EXCEPT ![c] = NoWire]
    BY <2>1 DEF Failed, Raised, Become
  <2> QED BY <1>1, <2>1, <2>2 DEF CallSteps
<1> QED BY <1>2, <1>3, <1>4, <1>5 DEF Connecting

\* Where each step leads its caller, what it holds then, and what becomes of
\* the socket in service.
LEMMA CallerEnds ==
  ASSUME TypeOK, Hands, NEW c \in Callers, Connecting(c)
  PROVE
    \/ /\ at[c] = "close" /\ at'[c] = "forget" /\ service' = service /\ mine'[c] = NoWire
       /\ \A w \in Wires : w # service => link'[w] = link[w]
       /\ service # NoWire => /\ ~link'[service].run /\ ~link'[service].reads
                              /\ link'[service].sess = link[service].sess
    \/ /\ at[c] = "forget" /\ at'[c] = "dial" /\ service' = NoWire /\ mine'[c] = NoWire
       /\ link' = link
    \/ /\ at[c] = "dial" /\ at'[c] = "shake" /\ service' = service /\ mine'[c] \in Wires
       /\ mine'[c] # service
       /\ link'[mine'[c]].sess = session
       /\ \A w \in Wires : w # mine'[c] => link'[w] = link[w]
    \/ /\ at[c] = "dial" /\ at'[c] \in {"dial", "idle"} /\ mine'[c] = NoWire
       /\ service' = service /\ link' = link
    \/ /\ at[c] \in {"shake", "auth"} /\ at'[c] \in {"auth", "adopt"} /\ service' = service
       /\ mine[c] \in Wires /\ mine'[c] = mine[c]
       /\ \A w \in Wires :
            /\ link'[w].run = link[w].run /\ link'[w].reads = link[w].reads
            /\ link'[w].sess = link[w].sess /\ link'[w].net = link[w].net
            /\ link'[w].heal = link[w].heal /\ link'[w].fed = link[w].fed
    \/ /\ at[c] \in {"shake", "auth"} /\ at'[c] \in {"dial", "idle"} /\ service' = service
       /\ mine[c] \in Wires /\ mine'[c] = NoWire
       /\ ~link'[mine[c]].run /\ ~link'[mine[c]].reads
       /\ link'[mine[c]].sess = link[mine[c]].sess
       /\ \A w \in Wires : w # mine[c] => link'[w] = link[w]
    \/ /\ at[c] = "adopt" /\ at'[c] = "replay" /\ service' = mine[c] /\ mine'[c] = NoWire
       /\ mine[c] \in Wires /\ link' = link
    \/ /\ at[c] = "replay" /\ at'[c] = "idle" /\ service' = service /\ mine'[c] = NoWire
       /\ link' = Replayed
<1>1. /\ at \in [Callers -> CallSteps] /\ mine \in [Callers -> Wires \cup {NoWire}]
      /\ service \in Wires \cup {NoWire} /\ link \in [Wires -> Sockets]
  BY DEF TypeOK
<1>2. (at[c] \in {"shake", "auth", "adopt"}) <=> mine[c] # NoWire
  BY DEF Hands, Holds
<1>3. ASSUME NEW w \in Wires, link' = [link EXCEPT ![w] = Disconnected(w)]
      PROVE  /\ ~link'[w].run /\ ~link'[w].reads /\ link'[w].sess = link[w].sess
             /\ \A v \in Wires : v # w => link'[v] = link[v]
  BY <1>1, <1>3 DEF Disconnected, Sockets
<1>4. CASE CloseOld(c)
  <2>1. at[c] = "close" /\ at'[c] = "forget" /\ mine' = mine /\ service' = service
    BY <1>1, <1>4 DEF CloseOld, Become
  <2>2. CASE service = NoWire
    BY <1>2, <1>4, <2>1, <2>2 DEF CloseOld
  <2>3. CASE service # NoWire
    <3>1. link' = [link EXCEPT ![service] = Disconnected(service)] /\ service \in Wires
      BY <1>1, <1>4, <2>3 DEF CloseOld
    <3> QED BY <1>2, <1>3, <2>1, <3>1
  <2> QED BY <2>2, <2>3
<1>5. CASE Forget(c) \/ Adopt(c)
  BY <1>1, <1>2, <1>5 DEF Forget, Adopt, Become
<1>6. CASE Dial(c)
  <2> DEFINE w == CHOOSE w \in Wires : Retired(w)
  <2>1. w \in Wires /\ Retired(w)
    BY <1>6 DEF Dial
  <2>2. /\ at[c] = "dial" /\ mine' = [mine EXCEPT ![c] = w] /\ at' = [at EXCEPT ![c] = "shake"]
        /\ link' = [link EXCEPT ![w] = [Unused EXCEPT !.run = TRUE, !.net = "up", !.reads = TRUE,
                                                      !.sess = session]]
        /\ service' = service
    BY <1>6 DEF Dial, Become
  <2>3. w # service
    BY <2>1 DEF Retired
  <2> HIDE DEF w
  <2>4. link'[w].sess = session /\ \A v \in Wires : v # w => link'[v] = link[v]
    BY <1>1, <2>1, <2>2 DEF Unused
  <2>5. mine'[c] = w /\ at'[c] = "shake"
    BY <1>1, <2>2
  <2> QED BY <2>1, <2>2, <2>3, <2>4, <2>5
<1>7. CASE DialFails(c)
  BY <1>1, <1>7 DEF DialFails, Failed, Raised, Become
<1>8. CASE Shake(c) \/ Authorize(c)
  <2>1. /\ at[c] \in {"shake", "auth"} /\ at'[c] \in {"auth", "adopt"} /\ service' = service
        /\ mine' = mine
    BY <1>1, <1>8 DEF Shake, Authorize, Become
  <2>2. mine[c] \in Wires
    BY <1>1, <1>2, <2>1
  <2>3. \A w \in Wires :
            /\ link'[w].run = link[w].run /\ link'[w].reads = link[w].reads
            /\ link'[w].sess = link[w].sess /\ link'[w].net = link[w].net
            /\ link'[w].heal = link[w].heal /\ link'[w].fed = link[w].fed
    BY <1>1, <1>8, <2>2 DEF Shake, Authorize, Sockets
  <2> QED BY <2>1, <2>2, <2>3
<1>9. CASE ShakeFails(c) \/ AuthFails(c) \/ Rejected(c)
  <2>1. /\ at[c] \in {"shake", "auth"} /\ service' = service
        /\ link' = [link EXCEPT ![mine[c]] = Disconnected(mine[c])]
        /\ Failed(c) \/ Raised(c)
    BY <1>9 DEF ShakeFails, AuthFails, Rejected
  <2>2. at'[c] \in {"dial", "idle"} /\ mine'[c] = NoWire
    BY <1>1, <2>1 DEF Failed, Raised, Become
  <2>3. mine[c] \in Wires
    BY <1>1, <1>2, <2>1
  <2> QED BY <1>3, <2>1, <2>2, <2>3
<1>10. CASE Replay(c)
  BY <1>1, <1>2, <1>10 DEF Replay, Become
<1> QED BY <1>4, <1>5, <1>6, <1>7, <1>8, <1>9, <1>10 DEF Connecting

---------------------------------------------------------------------------
LEMMA HandsKept ==
  ASSUME TypeOK, Hands, [Next]_vars
  PROVE  Hands'
<1>1. ASSUME NEW c \in Callers, Connecting(c) PROVE Hands'
  <2>1. mine'[c] # NoWire <=> at'[c] \in {"shake", "auth", "adopt"}
    BY <1>1, CallerEnds, LinkAssumption
  <2>2. \A d \in Callers : d # c => at'[d] = at[d] /\ mine'[d] = mine[d]
    BY <1>1, CallerMoves
  <2> QED BY <2>1, <2>2 DEF Hands, Holds
<1>2. CASE SweepDown \/ Reseat
  <2>1. PICK c \in Callers : at[c] = "idle" /\ Enter(c)
    BY <1>2 DEF SweepDown, Reseat, Callers
  <2>2. /\ mine' = mine /\ at' = [at EXCEPT ![c] = IF service # NoWire THEN "close" ELSE "dial"]
        /\ at \in [Callers -> CallSteps]
    BY <2>1 DEF Enter, Become, TypeOK
  <2> QED BY <2>1, <2>2 DEF Hands, Holds
<1>3. ASSUME NEW w \in Wires, WireSteps(w) PROVE Hands'
  BY <1>3, WireStepFrame DEF Hands, Holds
<1>4. CASE SweepUp \/ BackoffOver \/ SessionDies \/ UNCHANGED vars
  BY <1>4 DEF SweepUp, BackoffOver, SessionDies, vars, callVars, Hands, Holds
<1> QED BY <1>1, <1>2, <1>3, <1>4 DEF Next, Sweeping, WireSteps

LEMMA FedSoonKept ==
  ASSUME TypeOK, Hands, FedSoon, [Next]_vars
  PROVE  FedSoon'
<1>0. service \in Wires \cup {NoWire}
  BY DEF TypeOK
<1>1. ASSUME NEW c \in Callers, Connecting(c) PROVE FedSoon'
  <2>1. \A d \in Callers : d # c => at'[d] = at[d]
    BY <1>1, CallerMoves
  <2>2. CASE at[c] # "replay" /\ (Hungry' => Hungry)
    BY <2>1, <2>2 DEF FedSoon
  <2>3. CASE at'[c] = "replay"
    BY <2>3 DEF FedSoon
  <2>4. CASE ~Hungry'
    BY <2>4 DEF FedSoon
  <2>5. \/ at[c] # "replay" /\ (Hungry' => Hungry)
        \/ at'[c] = "replay"
        \/ ~Hungry'
    <3>1. CASE at'[c] = "forget" /\ service' = service
               /\ (service # NoWire => ~link'[service].run)
      BY <3>1 DEF Hungry
    <3>2. CASE service' = NoWire
      BY <3>2 DEF Hungry
    <3>3. CASE at[c] # "replay" /\ service' = service
               /\ (service # NoWire => \/ link'[service] = link[service]
                                       \/ ~link'[service].run
                                       \/ /\ link'[service].run = link[service].run
                                          /\ link'[service].net = link[service].net
                                          /\ link'[service].heal = link[service].heal
                                          /\ link'[service].fed = link[service].fed)
      BY <3>3 DEF Hungry
    <3>4. CASE service' = service /\ link' = Replayed
      <4>1. service # NoWire => /\ Replayed[service].net = link[service].net
                                /\ link[service].net = "up" => Replayed[service].fed = TRUE
        BY <1>0, ReplayTypes
      <4> QED BY <3>4, <4>1 DEF Hungry
    <3> QED BY <1>0, <1>1, <2>3, <3>1, <3>2, <3>3, <3>4, CallerEnds
  <2> QED BY <2>2, <2>3, <2>4, <2>5
<1>2. CASE SweepDown \/ Reseat
  <2>1. PICK c \in Callers : at[c] = "idle" /\ Enter(c)
    BY <1>2 DEF SweepDown, Reseat, Callers
  <2>2. \A d \in Callers : d # c => at'[d] = at[d]
    BY <2>1 DEF Enter, Become, TypeOK
  <2>3. Hungry' => Hungry
    BY <1>2 DEF SweepDown, Reseat, Hungry
  <2> QED BY <2>1, <2>2, <2>3 DEF FedSoon
<1>3. ASSUME NEW w \in Wires, WireSteps(w) PROVE FedSoon'
  BY <1>3, WireStepFrame DEF FedSoon
<1>4. CASE SweepUp \/ BackoffOver \/ SessionDies \/ UNCHANGED vars
  BY <1>4 DEF SweepUp, BackoffOver, SessionDies, vars, callVars, FedSoon, Hungry
<1> QED BY <1>1, <1>2, <1>3, <1>4 DEF Next, Sweeping, WireSteps

LEMMA OwnershipKept ==
  ASSUME TypeOK, Hands, overlap \/ Ownership, [Next]_vars
  PROVE  overlap' \/ Ownership'
<1>0. /\ service \in Wires \cup {NoWire} /\ at \in [Callers -> CallSteps]
      /\ mine \in [Callers -> Wires \cup {NoWire}]
  BY DEF TypeOK
<1>1. CASE overlap
  <2>1. \A c \in Callers : Connecting(c) => overlap' = overlap
    BY CallerMoves
  <2>2. \A w \in Wires : WireSteps(w) => overlap' = overlap
    BY WireStepFrame
  <2>3. SweepUp \/ BackoffOver \/ SessionDies \/ UNCHANGED vars => overlap' = overlap
    BY DEF SweepUp, BackoffOver, SessionDies, vars, pastVars
  <2>4. SweepDown \/ Reseat => overlap' = TRUE
    BY <1>1 DEF SweepDown, Reseat, Enter
  <2> QED BY <1>1, <2>1, <2>2, <2>3, <2>4 DEF Next, Sweeping, WireSteps
<1>2. ASSUME Ownership, NEW c \in Callers, Connecting(c) PROVE Ownership'
  <2>1. /\ at[c] # "idle" /\ session' = session
        /\ \A d \in Callers : d # c => at'[d] = at[d] /\ mine'[d] = mine[d]
    BY <1>2, CallerMoves
  <2>2. PICK d \in Callers : at[d] = "idle"
    BY <1>2 DEF Ownership
  <2>3. d # c /\ mine[d] = NoWire /\ at'[d] = "idle" /\ mine'[d] = NoWire
    BY <2>1, <2>2 DEF Hands, Holds
  <2>4. \A e \in Callers : e = c \/ e = d
    BY <2>3 DEF Callers
  <2>5. /\ Emptied(c) => service = NoWire
        /\ at[c] = "forget" /\ service # NoWire => ~Alive(service)
        /\ Holds(c) => link[mine[c]].sess = session
        /\ \A w \in Wires : Alive(w) => service = w \/ mine[c] = w
        /\ service # NoWire /\ at[c] \notin {"close", "forget"} => link[service].sess = session
        /\ service # NoWire /\ d = "main" => link[service].sess = session
    <3>1. c = "main" \/ d = "main"
      BY <2>3 DEF Callers
    <3>2. \A w \in Wires : Alive(w) => service = w \/ mine[c] = w
      BY <1>2, <2>3, <2>4, LinkAssumption DEF Ownership
    <3> QED BY <1>2, <2>2, <3>1, <3>2 DEF Ownership
  <2>6. /\ Emptied(c)' => service' = NoWire
        /\ at'[c] = "forget" /\ service' # NoWire => ~Alive(service)'
        /\ Holds(c)' => link'[mine'[c]].sess = session
        /\ \A w \in Wires : Alive(w)' => service' = w \/ mine'[c] = w
        /\ service' # NoWire /\ at'[c] \notin {"close", "forget"} => link'[service'].sess = session
        /\ service' # NoWire /\ d = "main" => link'[service'].sess = session
    <3> USE <1>0, <2>5, LinkAssumption DEF Emptied, Holds, Alive
    <3>1. CASE /\ at[c] = "close" /\ at'[c] = "forget" /\ service' = service /\ mine'[c] = NoWire
               /\ \A w \in Wires : w # service => link'[w] = link[w]
               /\ service # NoWire => /\ ~link'[service].run /\ ~link'[service].reads
                                      /\ link'[service].sess = link[service].sess
      <4>1. mine[c] = NoWire
        BY <3>1 DEF Hands
      <4> QED BY <3>1, <4>1
    <3>2. CASE /\ at[c] = "forget" /\ at'[c] = "dial" /\ service' = NoWire /\ mine'[c] = NoWire
               /\ link' = link
      <4>1. mine[c] = NoWire
        BY <3>2 DEF Hands
      <4> QED BY <3>2, <4>1
    <3>3. CASE /\ at[c] = "dial" /\ at'[c] = "shake" /\ service' = service /\ mine'[c] \in Wires
               /\ mine'[c] # service
               /\ link'[mine'[c]].sess = session
               /\ \A w \in Wires : w # mine'[c] => link'[w] = link[w]
      <4>1. mine[c] = NoWire
        BY <3>3 DEF Hands
      <4> QED BY <3>3, <4>1
    <3>4. CASE /\ at[c] = "dial" /\ at'[c] \in {"dial", "idle"} /\ mine'[c] = NoWire
               /\ service' = service /\ link' = link
      <4>1. mine[c] = NoWire
        BY <3>4 DEF Hands
      <4> QED BY <3>4, <4>1
    <3>5. CASE /\ at[c] \in {"shake", "auth"} /\ at'[c] \in {"auth", "adopt"} /\ service' = service
               /\ mine[c] \in Wires /\ mine'[c] = mine[c]
               /\ \A w \in Wires :
                    /\ link'[w].run = link[w].run /\ link'[w].reads = link[w].reads
                    /\ link'[w].sess = link[w].sess /\ link'[w].net = link[w].net
                    /\ link'[w].heal = link[w].heal /\ link'[w].fed = link[w].fed
      BY <3>5
    <3>6. CASE /\ at[c] \in {"shake", "auth"} /\ at'[c] \in {"dial", "idle"} /\ service' = service
               /\ mine[c] \in Wires /\ mine'[c] = NoWire
               /\ ~link'[mine[c]].run /\ ~link'[mine[c]].reads
               /\ link'[mine[c]].sess = link[mine[c]].sess
               /\ \A w \in Wires : w # mine[c] => link'[w] = link[w]
      BY <3>6
    <3>7. CASE /\ at[c] = "adopt" /\ at'[c] = "replay" /\ service' = mine[c] /\ mine'[c] = NoWire
               /\ mine[c] \in Wires /\ link' = link
      BY <3>7
    <3>8. CASE /\ at[c] = "replay" /\ at'[c] = "idle" /\ service' = service /\ mine'[c] = NoWire
               /\ link' = Replayed
      <4>1. mine[c] = NoWire
        BY <3>8 DEF Hands
      <4>2. \A w \in Wires : /\ link'[w].run = link[w].run /\ link'[w].reads = link[w].reads
                             /\ link'[w].sess = link[w].sess
        BY <3>8, ReplayTypes
      <4> HIDE DEF Replayed
      <4> QED BY <3>8, <4>1, <4>2
    <3> QED BY <1>2, <3>1, <3>2, <3>3, <3>4, <3>5, <3>6, <3>7, <3>8, CallerEnds
  <2>7. at'["main"] \notin {"close", "forget"} => at'[c] \notin {"close", "forget"} \/ d = "main"
    BY <2>3, <2>4 DEF Callers
  <2> QED BY <2>1, <2>3, <2>4, <2>6, <2>7 DEF Ownership, Emptied, Holds, Alive
<1>3. ASSUME Ownership, SweepDown \/ Reseat PROVE overlap' \/ Ownership'
  <2>1. PICK c \in Callers : /\ at[c] = "idle" /\ Enter(c) /\ (session' # session => c = "main")
                             /\ UNCHANGED <<link, service>>
    BY <1>3 DEF SweepDown, Reseat, Callers
  <2>2. /\ at' = [at EXCEPT ![c] = IF service # NoWire THEN "close" ELSE "dial"] /\ mine' = mine
        /\ overlap' = (overlap \/ \E d \in Callers \ {c} : at[d] # "idle")
    BY <2>1 DEF Enter, Become
  <2>3. CASE \E d \in Callers \ {c} : at[d] # "idle"
    BY <2>2, <2>3
  <2>4. CASE \A d \in Callers \ {c} : at[d] = "idle"
    <3>1. PICK d \in Callers : d # c
      BY DEF Callers
    <3>2. at[d] = "idle" /\ at'[d] = "idle" /\ (c = "main" \/ d = "main")
          /\ \A e \in Callers : e = c \/ e = d
      BY <1>0, <2>2, <2>4, <3>1 DEF Callers
    <3>3. /\ service # NoWire => at'[c] = "close"
          /\ service = NoWire => at'[c] = "dial"
      BY <1>0, <2>2
    <3>4. \A w \in Wires : Alive(w)' => service' = w \/ \E e \in Callers : mine'[e] = w
      BY <1>3, <2>1, <2>2 DEF Ownership, Alive
    <3>5. service' # NoWire /\ at'["main"] \notin {"close", "forget"} => link'[service'].sess = session'
      BY <1>3, <2>1, <3>2, <3>3 DEF Ownership
    <3> QED BY <1>0, <2>1, <3>2, <3>3, <3>4, <3>5 DEF Ownership, Emptied, Holds
  <2> QED BY <2>3, <2>4
<1>4. ASSUME Ownership, NEW w \in Wires, WireSteps(w) PROVE Ownership'
  <2>1. /\ UNCHANGED <<service, session, at, mine, overlap>>
        /\ \A v \in Wires : /\ Alive(v)' => Alive(v)
                            /\ link'[v].sess = link[v].sess
    BY <1>4, WireStepFrame DEF Wanes, Alive
  <2>2. \A c \in Callers : Holds(c) => mine[c] \in Wires
    BY <1>0 DEF Hands
  <2> QED BY <1>0, <1>4, <2>1, <2>2 DEF Ownership, Emptied, Holds
<1>5. CASE Ownership /\ (SweepUp \/ BackoffOver \/ SessionDies \/ UNCHANGED vars)
  BY <1>5 DEF SweepUp, BackoffOver, SessionDies, vars, callVars, Ownership, Emptied, Holds, Alive
<1> QED BY <1>1, <1>2, <1>3, <1>4, <1>5 DEF Next, Sweeping, WireSteps

LEMMA LinkInvHolds == Spec => []LinkInv
<1>1. Init => LinkInv
  <2> SUFFICES ASSUME Init PROVE Hands /\ FedSoon /\ Ownership
    BY LinkStarts DEF LinkInv
  <2> DEFINE w == CHOOSE w \in Wires : TRUE
  <2>1. w \in Wires
    BY LinkAssumption
  <2> HIDE DEF w
  <2>2. /\ service = w /\ session = 0
        /\ at = [c \in Callers |-> "idle"] /\ mine = [c \in Callers |-> NoWire]
        /\ link = [v \in Wires |-> IF v # w THEN Unused ELSE
              [Unused EXCEPT !.run = TRUE, !.net = "up", !.shown = TRUE,
                             !.was = TRUE, !.beat = TRUE, !.reads = TRUE,
                             !.fed = TRUE]]
    BY DEF Init, w
  <2>3. link[w].fed /\ link[w].sess = 0
    BY <2>1, <2>2 DEF Unused
  <2>4. \A v \in Wires : v # w => ~Alive(v)
    BY <2>2 DEF Unused, Alive
  <2>5. Hands /\ FedSoon
    BY <2>2, <2>3 DEF Hands, Holds, FedSoon, Hungry
  <2>6. Ownership
    BY <2>2, <2>3, <2>4 DEF Ownership, Emptied, Holds, Callers
  <2> QED BY <2>5, <2>6
<1>2. LinkInv /\ [Next]_vars => LinkInv'
  BY LinkNextTypes, HandsKept, FedSoonKept, OwnershipKept DEF LinkInv
<1> QED BY <1>1, <1>2, PTL DEF Spec

\* For any sockets, hosts, faults and re-seats: the reader threads, both
\* reconnect loops and connect() leave one reader and the newest session in
\* service, unless two connect() calls were in progress at once.
THEOREM OneOwnerHolds == Spec => []OneOwner
<1>1. LinkInv => OneOwner
  <2> SUFFICES ASSUME LinkInv, ~overlap PROVE OneReader /\ Seated
    BY DEF OneOwner
  <2>1. /\ Ownership /\ Hands /\ service \in Wires \cup {NoWire}
    BY DEF LinkInv, TypeOK
  <2>2. PICK d \in Callers : at[d] = "idle"
    BY <2>1 DEF Ownership
  <2>3. mine[d] = NoWire /\ \A a, b \in Callers : a # d /\ b # d => a = b
    BY <2>1, <2>2 DEF Hands, Holds, Callers
  <2>4. \A v, w \in Wires : Alive(v) /\ Alive(w) => v = w
    <3>1. CASE service = NoWire
      BY <2>1, <2>3, <3>1, LinkAssumption DEF Ownership
    <3>2. CASE service # NoWire
      <4>1. \A c \in Callers : mine[c] = NoWire
        BY <2>1, <3>2 DEF Ownership, Hands, Emptied
      <4> QED BY <2>1, <4>1, LinkAssumption DEF Ownership
    <3> QED BY <3>1, <3>2
  <2>5. OneReader
    BY <2>4 DEF OneReader, Dispatching, Alive
  <2>6. Seated
    BY <2>1 DEF Seated, Connected, Quiet, Ownership, Callers
  <2> QED BY <2>5, <2>6
<1> QED BY <1>1, LinkInvHolds, PTL

\* For the same: no path to "connected" (first connect, reader, pumper,
\* supervisor, re-seat) leaves a running wire without its subscriptions.
THEOREM StreamIsRestored == Spec => []StreamRestored
<1>1. LinkInv => StreamRestored
  BY DEF LinkInv, FedSoon, Hungry, StreamRestored, Connected, Quiet, TypeOK
<1> QED BY <1>1, LinkInvHolds, PTL

---------------------------------------------------------------------------
(* The candle book and the sweeps that backfill it (CandleBook). *)

Sorted(q) == \A i, j \in DOMAIN q : i < j => q[i] < q[j]

\* Numbers can be put in order: an element's place is how many are less.
LEMMA SortedExists ==
  ASSUME NEW S, S \subseteq Int, IsFiniteSet(S)
  PROVE  \E q \in SetToSeqs(S) : Sorted(q)
<1> DEFINE Below(x) == {y \in S : y < x}
           n == Cardinality(S)
           rank == [x \in S |-> Cardinality(Below(x))]
<1>1. n \in Nat
  BY FS_CardinalityType
<1>2. ASSUME NEW x \in S PROVE IsFiniteSet(Below(x)) /\ rank[x] \in 0 .. n - 1
  <2>1. Below(x) \subseteq S /\ x \notin Below(x)
    OBVIOUS
  <2>2. IsFiniteSet(Below(x)) /\ Cardinality(Below(x)) <= n /\ Cardinality(Below(x)) # n
    BY <2>1, FS_Subset
  <2>3. Cardinality(Below(x)) \in Nat
    BY <2>2, FS_CardinalityType
  <2> HIDE DEF Below, n
  <2> QED BY <1>1, <2>2, <2>3
<1>3. ASSUME NEW x \in S, NEW y \in S, x < y PROVE rank[x] < rank[y]
  <2>1. Below(x) \subseteq Below(y) /\ x \in Below(y) /\ x \notin Below(x)
    <3>1. \A z \in S : z < x => z < y
      <4>1. \A z \in S : z \in Int /\ x \in Int /\ y \in Int
        OBVIOUS
      <4> QED BY <1>3, <4>1
    <3>2. x \in Int /\ ~(x < x)
      OBVIOUS
    <3> QED BY <1>3, <3>1, <3>2
  <2>2. IsFiniteSet(Below(y)) /\ rank[x] \in Nat /\ rank[y] \in Nat
    BY <1>1, <1>2
  <2>3. Cardinality(Below(x)) <= Cardinality(Below(y)) /\ Cardinality(Below(x)) # Cardinality(Below(y))
    BY <2>1, <2>2, FS_Subset
  <2> HIDE DEF Below
  <2> QED BY <2>2, <2>3
<1>4. rank \in [S -> 0 .. n - 1]
  BY <1>2
<1> HIDE DEF Below, rank
<1>5. \A x, y \in S : rank[x] = rank[y] => x = y
  <2> SUFFICES ASSUME NEW x \in S, NEW y \in S, rank[x] = rank[y], x # y PROVE FALSE
    OBVIOUS
  <2>1. x < y \/ y < x
    OBVIOUS
  <2>2. rank[x] \in 0 .. n - 1
    BY <1>4
  <2> QED BY <1>1, <1>3, <2>1, <2>2
<1>6. rank \in Surjection(S, 0 .. n - 1)
  <2>1. rank \in Injection(S, 0 .. n - 1)
    BY <1>4, <1>5 DEF Injection, IsInjective
  <2>2. IsFiniteSet(0 .. n - 1) /\ Cardinality(0 .. n - 1) = n
    BY <1>1, FS_Interval
  <2> HIDE DEF n
  <2>3. Cardinality(S) = Cardinality(0 .. n - 1) => rank \in Surjection(S, 0 .. n - 1)
    BY <2>1, <2>2, FS_Injection
  <2> QED BY <2>2, <2>3 DEF n
<1>7. \A i \in 1 .. n : \E x \in S : rank[x] = i - 1
  <2>1. \A k \in 0 .. n - 1 : \E x \in S : rank[x] = k
    BY <1>6 DEF Surjection
  <2>2. \A i \in 1 .. n : i - 1 \in 0 .. n - 1
    BY <1>1
  <2> HIDE DEF n
  <2> QED BY <2>1, <2>2
<1> DEFINE q == [i \in 1 .. n |-> CHOOSE x \in S : rank[x] = i - 1]
<1>8. \A i \in 1 .. n : q[i] \in S /\ rank[q[i]] = i - 1
  BY <1>7
<1>9. DOMAIN q = 1 .. n /\ q \in [1 .. n -> S]
  BY <1>8
<1> HIDE DEF q
<1>10. ASSUME NEW i \in 1 .. n, NEW j \in 1 .. n, i < j PROVE q[i] < q[j]
  <2>1. q[i] \in S /\ q[j] \in S /\ rank[q[i]] = i - 1 /\ rank[q[j]] = j - 1
    BY <1>8
  <2>2. i \in Nat /\ j \in Nat
    BY <1>1
  <2> HIDE DEF n
  <2>3. rank[q[i]] < rank[q[j]]
    BY <1>10, <2>1, <2>2
  <2>4. rank[q[i]] \in Int /\ rank[q[j]] \in Int /\ q[i] \in Int /\ q[j] \in Int
    <3>1. i - 1 \in Int /\ j - 1 \in Int
      BY <2>2
    <3> QED BY <2>1, <3>1
  <2>5. ~(rank[q[j]] < rank[q[i]]) /\ rank[q[i]] # rank[q[j]]
    BY <2>3, <2>4
  <2>6. ~(q[j] < q[i]) /\ q[i] # q[j]
    BY <1>3, <2>1, <2>5
  <2> QED BY <2>4, <2>6
<1>11. \A i, j \in 1 .. n : i # j => q[i] # q[j]
  <2>1. \A i \in 1 .. n : q[i] \in Int
    BY <1>8
  <2>2. \A i \in 1 .. n : i \in Int
    BY <1>1
  <2> HIDE DEF n
  <2> SUFFICES ASSUME NEW i \in 1 .. n, NEW j \in 1 .. n, i # j, q[i] = q[j] PROVE FALSE
    OBVIOUS
  <2>3. i < j \/ j < i
    BY <2>2
  <2> QED BY <1>10, <2>1, <2>3
<1> QED BY <1>9, <1>10, <1>11 DEF SetToSeqs, Sorted, n

\* What a sweep pushes: what it fetched and the series has not, in order.
LEMMA ToPushFacts ==
  ASSUME NEW s \in Seq(Int)
  PROVE  /\ ToPush(s) \in Seq(Int) /\ Sorted(ToPush(s))
         /\ Range(ToPush(s)) \cap Bars = {}
<1> DEFINE F == Fresh(s)
           q == ToPush(s)
           n == Cardinality(F)
<1>1. F \subseteq Int /\ F \cap Bars = {}
  BY DEF Fresh, Range
<1>2. IsFiniteSet(F)
  <2>1. DOMAIN s = 1 .. Len(s) /\ Len(s) \in Nat
    OBVIOUS
  <2>2. IsFiniteSet(DOMAIN s)
    BY <2>1, FS_Interval
  <2>3. s \in Surjection(DOMAIN s, Range(s))
    BY DEF Surjection, Range
  <2>4. IsFiniteSet(Range(s))
    BY <2>2, <2>3, FS_Surjection
  <2> QED BY <2>4, FS_Subset DEF Fresh
<1> HIDE DEF F
<1>3. \E r \in SetToSeqs(F) : Sorted(r)
  BY <1>1, <1>2, SortedExists
<1>4. q \in SetToSeqs(F) /\ Sorted(q)
  BY <1>3 DEF ToPush, Sorted, F
<1> HIDE DEF q
<1>5. q \in [1 .. n -> F] /\ n \in Nat
  BY <1>2, <1>4, FS_CardinalityType DEF SetToSeqs
<1>6. q \in Seq(Int) /\ Range(q) \subseteq F
  <2>1. q \in [1 .. n -> Int]
    BY <1>1, <1>5
  <2>2. Range(q) \subseteq F
    BY <1>5 DEF Range
  <2> HIDE DEF n
  <2> QED BY <1>5, <2>1, <2>2
<1> QED BY <1>1, <1>4, <1>6 DEF q

\* What a full series keeps is of what it had.
LEMMA KeepFacts ==
  ASSUME NEW s \in Seq(Int), NEW m \in Nat
  PROVE  Keep(s, m) \in Seq(Int) /\ Range(Keep(s, m)) \subseteq Range(s)
<1>1. CASE Len(s) <= m
  BY <1>1 DEF Keep
<1>2. CASE ~(Len(s) <= m)
  <2> DEFINE a == Len(s) - m + 1
             k == SubSeq(s, a, Len(s))
  <2>1. a \in 1 .. Len(s) + 1 /\ Len(s) \in Nat /\ Len(s) \in 0 .. Len(s)
    BY <1>2
  <2>2. Keep(s, m) = k
    BY <1>2 DEF Keep
  <2> HIDE DEF a
  <2>3. /\ k \in Seq(Int) /\ Len(k) = IF a <= Len(s) THEN Len(s) - a + 1 ELSE 0
        /\ \A i \in 1 .. Len(s) - a + 1 : k[i] = s[a + i - 1]
    BY <2>1, SubSeqProperties
  <2>4. Range(k) \subseteq Range(s)
    <3> HIDE DEF k
    <3> SUFFICES ASSUME NEW i \in DOMAIN k PROVE k[i] \in Range(s)
      BY DEF Range
    <3>0. DOMAIN k = 1 .. Len(k)
      BY <2>3
    <3>1. i \in 1 .. Len(s) - a + 1 /\ a + i - 1 \in 1 .. Len(s)
      <4>1. CASE a <= Len(s)
        BY <2>1, <2>3, <3>0, <4>1
      <4>2. CASE ~(a <= Len(s))
        BY <2>1, <2>3, <3>0, <4>2
      <4> QED BY <4>1, <4>2
    <3>2. k[i] = s[a + i - 1] /\ a + i - 1 \in DOMAIN s
      BY <2>3, <3>1
    <3> QED BY <3>2 DEF Range
  <2> QED BY <2>2, <2>3, <2>4
<1> QED BY <1>1, <1>2

LEMMA AppendRange ==
  ASSUME NEW s \in Seq(Int), NEW b \in Int
  PROVE  Append(s, b) \in Seq(Int) /\ Range(Append(s, b)) \subseteq Range(s) \cup {b}
<1> DEFINE r == Append(s, b)
<1>1. /\ r \in Seq(Int) /\ Len(r) = Len(s) + 1 /\ Len(s) \in Nat
      /\ \A i \in 1 .. Len(s) : r[i] = s[i]
      /\ r[Len(s) + 1] = b /\ DOMAIN r = 1 .. Len(r) /\ DOMAIN s = 1 .. Len(s)
  BY AppendProperties
<1> HIDE DEF r
<1>2. \A i \in 1 .. Len(r) : i \in 1 .. Len(s) \/ i = Len(s) + 1
  BY <1>1
<1>3. \A i \in DOMAIN r : r[i] \in Range(s) \cup {b}
  BY <1>1, <1>2 DEF Range
<1> QED BY <1>1, <1>3 DEF Range, r

\* A tick or a push adds its own bucket to the series at most.
LEMMA WritesFacts ==
  ASSUME book \in Seq(Int), NEW b \in Int
  PROVE  /\ Updated(book, b) \in Seq(Int) /\ Range(Updated(book, b)) \subseteq Bars \cup {b}
         /\ Pushed(book, b) \in Seq(Int) /\ Range(Pushed(book, b)) \subseteq Bars \cup {b}
<1>1. Append(book, b) \in Seq(Int) /\ Range(Append(book, b)) \subseteq Bars \cup {b}
  BY AppendRange DEF Bars
<1>2. /\ Keep(Append(book, b), MaxBars) \in Seq(Int)
      /\ Range(Keep(Append(book, b), MaxBars)) \subseteq Bars \cup {b}
  <2>1. MaxBars \in Nat
    BY CandleAssumption
  <2> QED BY <1>1, <2>1, KeepFacts
<1> QED BY <1>2 DEF Updated, Pushed, Bars

\* The first of what is left comes before the rest of it.
LEMMA TailOfSorted ==
  ASSUME NEW q \in Seq(Int), q # <<>>, Sorted(q)
  PROVE  /\ Head(q) \in Int /\ Tail(q) \in Seq(Int) /\ Sorted(Tail(q))
         /\ Range(Tail(q)) \subseteq Range(q) /\ Head(q) \in Range(q)
         /\ Head(q) \notin Range(Tail(q))
<1> DEFINE r == Tail(q)
<1>1. /\ r \in Seq(Int) /\ Len(r) = Len(q) - 1 /\ \A i \in 1 .. Len(r) : r[i] = q[i + 1]
      /\ Head(q) = q[1] /\ Len(q) \in Nat \ {0}
      /\ DOMAIN q = 1 .. Len(q) /\ DOMAIN r = 1 .. Len(r)
  BY EmptySeq, HeadTailProperties, LenProperties
<1> HIDE DEF r
<1>2. 1 \in DOMAIN q /\ \A i \in DOMAIN r : i + 1 \in DOMAIN q /\ r[i] = q[i + 1] /\ i \in Int /\ 1 < i + 1
  BY <1>1
<1>3. \A i \in DOMAIN q : q[i] \in Int
  BY <1>1
<1>4. Head(q) \notin Range(r)
  <2> SUFFICES ASSUME NEW i \in DOMAIN r, r[i] = q[1] PROVE FALSE
    BY <1>1 DEF Range
  <2>1. q[1] < q[i + 1] /\ q[1] \in Int
    BY <1>2, <1>3 DEF Sorted
  <2> QED BY <1>2, <2>1
<1>5. Sorted(r)
  <2> SUFFICES ASSUME NEW i \in DOMAIN r, NEW j \in DOMAIN r, i < j PROVE r[i] < r[j]
    BY DEF Sorted
  <2>1. i + 1 < j + 1
    BY <1>2
  <2> QED BY <1>2, <2>1 DEF Sorted
<1>6. Range(r) \subseteq Range(q)
  BY <1>2 DEF Range
<1> QED BY <1>1, <1>2, <1>3, <1>4, <1>5, <1>6 DEF Range, r

---------------------------------------------------------------------------

SweepInv ==
  /\ now \in Nat /\ cache \in Seq(Int) /\ book \in Seq(Int)
  /\ step \in [Sweepers -> {"off", "idle", "ask", "wait", "push"}]
  /\ left \in [Sweepers -> Seq(Int)] /\ raced \in [Sweepers -> BOOLEAN]
  /\ SweepsDoNotDouble

LEMMA SweepStarts == CandleInit => SweepInv
<1> SUFFICES ASSUME CandleInit PROVE SweepInv
  OBVIOUS
<1>1. Reply \in Nat
  BY CandleAssumption
<1>2. cache \in Seq(Int) /\ book \in Seq(Int) /\ now \in Nat
  <2>1. <<>> \in Seq(Int) /\ [i \in 1 .. Reply |-> i - 1] \in Seq(Int)
    BY <1>1
  <2> QED BY <1>1, <2>1 DEF CandleInit
<1>3. /\ step \in [Sweepers -> {"off", "idle", "ask", "wait", "push"}]
      /\ left \in [Sweepers -> Seq(Int)] /\ raced \in [Sweepers -> BOOLEAN]
      /\ \A t \in Sweepers : step[t] # "push"
  BY DEF CandleInit
<1> QED BY <1>2, <1>3 DEF SweepInv, SweepsDoNotDouble

\* A quote overtakes whoever is about to push.
LEMMA QuotesKeepSweeps ==
  ASSUME SweepInv, Quote \/ Generated
  PROVE  SweepInv'
<1>1. PICK b \in Int : /\ Tick(b)
                       /\ UNCHANGED <<now, step, left>>
                       /\ cache' = cache \/ cache' = Keep(Append(cache, b), MaxCache)
  BY DEF Quote, Generated, SweepInv
<1>2. cache' \in Seq(Int)
  <2>1. MaxCache \in Nat /\ cache \in Seq(Int)
    BY CandleAssumption DEF SweepInv
  <2>2. Append(cache, b) \in Seq(Int)
    BY <2>1
  <2> QED BY <1>1, <2>1, <2>2, KeepFacts
<1>3. CASE handlers = 0
  <2>1. book' = book /\ raced' = raced
    BY <1>1, <1>3 DEF Tick
  <2> QED BY <1>1, <1>2, <2>1 DEF SweepInv, SweepsDoNotDouble, Bars
<1>4. CASE handlers # 0
  <2>1. book' = Updated(book, b) /\ raced' = Overtaken(Sweepers)
    BY <1>1, <1>4 DEF Tick
  <2>2. book' \in Seq(Int)
    BY <2>1, WritesFacts DEF SweepInv
  <2>3. raced' \in [Sweepers -> BOOLEAN] /\ \A t \in Sweepers : step[t] = "push" => raced'[t]
    BY <1>1, <2>1 DEF SweepInv, Overtaken
  <2> QED BY <1>1, <1>2, <2>2, <2>3 DEF SweepInv, SweepsDoNotDouble
<1> QED BY <1>3, <1>4

LEMMA TakeKeepsSweeps ==
  ASSUME SweepInv, NEW t \in Sweepers, Take(t)
  PROVE  SweepInv'
<1>1. /\ left' = [left EXCEPT ![t] = ToPush(cache)] /\ step' = [step EXCEPT ![t] = "push"]
      /\ UNCHANGED <<now, cache, book, raced>>
  BY DEF Take
<1>2. /\ ToPush(cache) \in Seq(Int) /\ Sorted(ToPush(cache))
      /\ Range(ToPush(cache)) \cap Bars = {}
  BY ToPushFacts DEF SweepInv
<1>3. /\ left'[t] = ToPush(cache)
      /\ \A u \in Sweepers : u # t => left'[u] = left[u] /\ step'[u] = step[u]
      /\ left' \in [Sweepers -> Seq(Int)]
      /\ step' \in [Sweepers -> {"off", "idle", "ask", "wait", "push"}]
  BY <1>1, <1>2 DEF SweepInv
<1>4. SweepsDoNotDouble'
  <2> SUFFICES ASSUME NEW u \in Sweepers, step'[u] = "push", ~raced'[u]
               PROVE  /\ Bars \cap Range(left'[u]) = {}
                      /\ Sorted(left'[u])
    BY <1>1 DEF SweepsDoNotDouble, Sorted, Bars
  <2>1. CASE u = t
    BY <1>2, <1>3, <2>1
  <2>2. CASE u # t
    BY <1>1, <1>3, <2>2 DEF SweepInv, SweepsDoNotDouble, Sorted
  <2> QED BY <2>1, <2>2
<1> QED BY <1>1, <1>3, <1>4 DEF SweepInv

LEMMA PushKeepsSweeps ==
  ASSUME SweepInv, NEW t \in Sweepers, PushBar(t)
  PROVE  SweepInv'
<1>1. /\ step[t] = "push" /\ left[t] # <<>> /\ book' = Pushed(book, Head(left[t]))
      /\ left' = [left EXCEPT ![t] = Tail(left[t])] /\ raced' = Overtaken(Sweepers \ {t})
      /\ UNCHANGED <<now, cache, step>>
  BY DEF PushBar, SweepInv
<1>2. left[t] \in Seq(Int) /\ Head(left[t]) \in Int /\ Tail(left[t]) \in Seq(Int)
  BY <1>1, EmptySeq, HeadTailProperties DEF SweepInv
<1>3. book' \in Seq(Int) /\ Bars' \subseteq Bars \cup {Head(left[t])}
  BY <1>1, <1>2, WritesFacts DEF SweepInv, Bars
<1>4. /\ left'[t] = Tail(left[t]) /\ left' \in [Sweepers -> Seq(Int)]
      /\ raced' \in [Sweepers -> BOOLEAN] /\ raced'[t] = raced[t]
      /\ \A u \in Sweepers : u # t /\ step[u] = "push" => raced'[u]
  BY <1>1, <1>2 DEF SweepInv, Overtaken
<1>5. SweepsDoNotDouble'
  <2> SUFFICES ASSUME NEW u \in Sweepers, step'[u] = "push", ~raced'[u]
               PROVE  /\ Bars' \cap Range(left'[u]) = {}
                      /\ Sorted(left'[u])
    BY DEF SweepsDoNotDouble, Sorted
  <2>1. u = t /\ ~raced[t]
    BY <1>1, <1>4
  <2>2. Bars \cap Range(left[t]) = {} /\ Sorted(left[t])
    BY <1>1, <2>1 DEF SweepInv, SweepsDoNotDouble, Sorted
  <2> QED BY <1>1, <1>2, <1>3, <1>4, <2>1, <2>2, TailOfSorted
<1> QED BY <1>1, <1>3, <1>4, <1>5 DEF SweepInv

\* Nothing else writes the series, begins a push or forgets a race.
LEMMA RestKeepsSweeps ==
  ASSUME SweepInv,
         \/ History \/ Start \/ Drop \/ Reconnected \/ Clock
         \/ \E t \in Sweepers : Ask(t) \/ Finish(t) \/ Refresh(t) \/ Warm(t)
  PROVE  SweepInv'
<1>1. now' \in Nat /\ cache' \in Seq(Int)
  <2>1. CASE History
    <3>1. cache \in Seq(Int) /\ MaxCache \in Nat /\ now \in Nat /\ Reply \in Nat
      BY CandleAssumption DEF SweepInv
    <3> DEFINE r == [i \in 1 .. Reply |-> now - Reply + i - 1]
    <3>2. r \in Seq(Int)
      BY <3>1
    <3>3. cache' = Keep(cache \o r, MaxCache) /\ now' = now
      BY <2>1 DEF History
    <3> HIDE DEF r
    <3>4. cache \o r \in Seq(Int)
      BY <3>1, <3>2
    <3> QED BY <3>1, <3>3, <3>4, KeepFacts
  <2>2. CASE ~History
    BY <2>2 DEF SweepInv, Start, Drop, Reconnected, Clock, Ask, Asked, Finish, Refresh, Warm
  <2> QED BY <2>1, <2>2
<1>2. /\ book' = book /\ left' = left
      /\ step' \in [Sweepers -> {"off", "idle", "ask", "wait", "push"}]
      /\ \A t \in Sweepers : step'[t] = "push" => step[t] = "push"
  <2>1. book' = book /\ left' = left
    BY DEF History, Start, Drop, Reconnected, Clock, Ask, Asked, Finish, Refresh, Warm
  <2>2. \/ step' = step
        \/ \E t : \E x \in {"off", "idle", "ask", "wait"} : step' = [step EXCEPT ![t] = x]
    BY DEF History, Start, Drop, Reconnected, Clock, Ask, Asked, Finish, Refresh, Warm,
           Request, Done
  <2> QED BY <2>1, <2>2 DEF SweepInv
<1>3. /\ raced' \in [Sweepers -> BOOLEAN]
      /\ \A t \in Sweepers : raced'[t] = raced[t] \/ step'[t] # "push"
  <2>1. CASE \E t \in Sweepers : Finish(t)
    <3>1. PICK t \in Sweepers : Finish(t)
      BY <2>1
    <3>2. raced' = [raced EXCEPT ![t] = FALSE] /\ step'[t] # "push"
      BY <3>1 DEF Finish, Done, SweepInv
    <3> QED BY <3>2 DEF SweepInv
  <2>2. CASE ~\E t \in Sweepers : Finish(t)
    <3>1. raced' = raced
      BY <2>2 DEF History, Start, Drop, Reconnected, Clock, Ask, Asked, Refresh, Warm
    <3> QED BY <3>1 DEF SweepInv
  <2> QED BY <2>1, <2>2
<1>4. SweepsDoNotDouble'
  <2>1. \A t \in Sweepers : step'[t] = "push" /\ ~raced'[t] => step[t] = "push" /\ ~raced[t]
    BY <1>2, <1>3
  <2> QED BY <1>2, <2>1 DEF SweepInv, SweepsDoNotDouble, Bars
<1> QED BY <1>1, <1>2, <1>3, <1>4 DEF SweepInv

\* For any warmers, refreshers, series, cache and reply sizes: a sweep that is alone
\* with the series pushes bars it has not, in order and each once
\* (brokers/quotex/sync.py backfill_gaps, qxcandles_into_series).
THEOREM SweepsMergeOnce == CandleSpec => []SweepsDoNotDouble
<1>1. SweepInv /\ [CandleNext]_candleVars => SweepInv'
  <2> SUFFICES ASSUME SweepInv, [CandleNext]_candleVars PROVE SweepInv'
    OBVIOUS
  <2>1. CASE UNCHANGED candleVars
    BY <2>1 DEF candleVars, SweepInv, SweepsDoNotDouble, Bars
  <2> QED BY <2>1, QuotesKeepSweeps, TakeKeepsSweeps, PushKeepsSweeps, RestKeepsSweeps
          DEF CandleNext, Sweep
<1>2. SweepInv => SweepsDoNotDouble
  BY DEF SweepInv
<1> QED BY SweepStarts, <1>1, <1>2, PTL DEF CandleSpec

---------------------------------------------------------------------------
(* Frames, events and rejects on the wire (WireStream). *)

---------------------------------------------------------------------------
(* The venue's stream. *)

FrameParts == {"whole", "open", "rest", "mark", "load"}
WireFrames == [of : 1 .. Len(sent), part : FrameParts]
Loads == {<<>>} \cup {<<e>> : e \in 1 .. Len(sent)}

\* What the venue sent, and what of it is on its way or was dispatched: only
\* events of this connection are due.
WireShape ==
  /\ wire \in 1 .. MaxWires
  /\ sent \in Seq([kind : Kinds, wire : 1 .. MaxWires, legible : BOOLEAN])
  /\ \A e \in 1 .. Len(sent) : sent[e].wire <= wire
  /\ stream \in Seq(WireFrames) /\ parts \in Seq(WireFrames)
  /\ \A i \in 1 .. Len(stream) : sent[stream[i].of].wire = wire
  /\ half \in BOOLEAN /\ (half => stream # <<>>)
  /\ mark \in (1 .. Len(sent)) \cup {NoMark}
  /\ mark # NoMark => sent[mark].wire = wire
  /\ got = <<>>
  /\ events \in Seq([of : 1 .. Len(sent), loads : Loads])
  /\ NoSplicedWires

\* The frames of one message, in the order they were sent.
Follows(f, g) ==
  /\ g.of = f.of
  /\ \/ f.part = "mark" /\ g.part = "load"
     \/ f.part = "open" /\ g.part = "rest"

\* What precedes the first frame of the stream: a placeholder or a fragment.
Pending(f) ==
  /\ f.part = "rest" <=> parts # <<>>
  /\ parts # <<>> => parts = <<[of |-> f.of, part |-> "open"]>>
  /\ mark # NoMark <=> f.part = "load" /\ sent[f.of].kind = "binary"
  /\ mark # NoMark => mark = f.of

\* The stream is whole messages, but for what has been read of the first.
WireGrammar ==
  /\ \A i \in 1 .. Len(stream) :
       LET f == stream[i]
       IN /\ f.part \in {"mark", "load"} <=> sent[f.of].kind \in {"binary", "bare"}
          /\ f.part = "mark" => sent[f.of].kind = "binary"
          /\ f.part \in {"mark", "open"} =>
               i + 1 \in 1 .. Len(stream) /\ Follows(f, stream[i + 1])
  /\ \A i \in 1 .. Len(stream) - 1 :
       \/ /\ stream[i].of < stream[i + 1].of
          /\ stream[i + 1].part # "rest"
          /\ stream[i + 1].part = "load" => sent[stream[i + 1].of].kind = "bare"
       \/ Follows(stream[i], stream[i + 1])
  /\ \A i, j \in 1 .. Len(stream) :
       i < j => stream[i].of < stream[j].of
                \/ (j = i + 1 /\ Follows(stream[i], stream[j]))
  /\ stream # <<>> => Pending(stream[1])
  /\ stream = <<>> => parts = <<>> /\ mark = NoMark

\* Dispatched in order and before all that is due; on this connection, what is
\* not dispatched is due.
WireOrder ==
  /\ \A i \in 1 .. Len(events) : Own(events[i])
  /\ \A i, j \in 1 .. Len(events) : i < j => events[i].of < events[j].of
  /\ \A i \in 1 .. Len(events), j \in 1 .. Len(stream) : events[i].of < stream[j].of
  /\ \A e \in 1 .. Len(sent) : sent[e].wire = wire =>
       \/ \E i \in 1 .. Len(events) : events[i].of = e
       \/ \E j \in 1 .. Len(stream) : stream[j].of = e

WireInv ==
  /\ WireShape
  /\ torn \in BOOLEAN /\ spoiled \in BOOLEAN
  /\ ~torn \/ half => synced
  /\ ~torn /\ ~spoiled => WireGrammar /\ WireOrder

---------------------------------------------------------------------------

Dispatches == [of : 1 .. Len(sent), loads : Loads]

\* The elements of the sequences of WireShape.
LEMMA ShapeFacts ==
  ASSUME WireShape
  PROVE  /\ wire \in Nat /\ Len(sent) \in Nat /\ Len(stream) \in Nat
         /\ Len(parts) \in Nat /\ Len(events) \in Nat
         /\ DOMAIN sent = 1 .. Len(sent) /\ DOMAIN stream = 1 .. Len(stream)
         /\ DOMAIN events = 1 .. Len(events) /\ DOMAIN parts = 1 .. Len(parts)
         /\ \A i \in 1 .. Len(sent) :
              sent[i] \in [kind : Kinds, wire : 1 .. MaxWires, legible : BOOLEAN]
              /\ sent[i].wire \in Nat /\ sent[i].wire <= wire
         /\ \A i \in 1 .. Len(stream) :
              /\ stream[i] \in WireFrames /\ stream[i].of \in 1 .. Len(sent)
              /\ stream[i].part \in FrameParts /\ sent[stream[i].of].wire = wire
         /\ \A i \in 1 .. Len(parts) : parts[i] \in WireFrames /\ parts[i].of \in 1 .. Len(sent)
         /\ \A i \in 1 .. Len(events) :
              /\ events[i] \in Dispatches /\ events[i].of \in 1 .. Len(sent)
              /\ events[i].loads \in Loads
              /\ \A k \in DOMAIN events[i].loads : events[i].loads[k] \in 1 .. Len(sent)
<1> DEFINE M == [kind : Kinds, wire : 1 .. MaxWires, legible : BOOLEAN]
<1>1. /\ sent \in Seq(M) /\ stream \in Seq(WireFrames) /\ parts \in Seq(WireFrames)
      /\ events \in Seq(Dispatches)
  BY DEF WireShape, Dispatches
<1>2. \A m \in M : m.wire \in Nat
  BY WireAssumption
<1>3. \A f \in WireFrames : f.of \in 1 .. Len(sent) /\ f.part \in FrameParts
  BY DEF WireFrames
<1>4. \A d \in Dispatches : d.of \in 1 .. Len(sent) /\ d.loads \in Loads
  BY DEF Dispatches
<1>5. \A l \in Loads : \A k \in DOMAIN l : l[k] \in 1 .. Len(sent)
  BY DEF Loads
<1>6. wire \in Nat /\ \A i \in 1 .. Len(sent) : sent[i].wire <= wire
  BY WireAssumption DEF WireShape
<1>7. \A i \in 1 .. Len(stream) : sent[stream[i].of].wire = wire
  BY DEF WireShape
<1> HIDE DEF M
<1>8. \A i \in 1 .. Len(sent) : sent[i] \in M
  BY <1>1, ElementOfSeq
<1>9. /\ \A i \in 1 .. Len(stream) : stream[i] \in WireFrames
      /\ \A i \in 1 .. Len(parts) : parts[i] \in WireFrames
      /\ \A i \in 1 .. Len(events) : events[i] \in Dispatches
  BY <1>1, ElementOfSeq
<1>10. /\ Len(sent) \in Nat /\ Len(stream) \in Nat
       /\ Len(parts) \in Nat /\ Len(events) \in Nat
       /\ DOMAIN sent = 1 .. Len(sent) /\ DOMAIN stream = 1 .. Len(stream)
       /\ DOMAIN events = 1 .. Len(events) /\ DOMAIN parts = 1 .. Len(parts)
  BY <1>1, LenProperties
<1>11. \A i \in 1 .. Len(sent) : sent[i].wire \in Nat
  BY <1>2, <1>8
<1> QED BY <1>3, <1>4, <1>5, <1>6, <1>7, <1>8, <1>9, <1>10, <1>11 DEF M

LEMMA WireStarts == WireInit => WireInv
<1> SUFFICES ASSUME WireInit PROVE WireInv
  OBVIOUS
<1>1. WireShape
  <2> DEFINE M == [kind : Kinds, wire : 1 .. MaxWires, legible : BOOLEAN]
  <2>1. /\ <<>> \in Seq(M) /\ <<>> \in Seq(WireFrames) /\ <<>> \in Seq(Dispatches)
    BY EmptySeq
  <2>2. sent = <<>> /\ stream = <<>> /\ parts = <<>> /\ events = <<>> /\ wire = 1
        /\ half = FALSE /\ mark = NoMark /\ got = <<>>
    BY DEF WireInit
  <2>3. Len(sent) = 0 /\ Len(stream) = 0 /\ DOMAIN events = {}
    BY <2>2
  <2>4. sent \in Seq(M) /\ stream \in Seq(WireFrames) /\ parts \in Seq(WireFrames)
        /\ events \in Seq(Dispatches)
    BY <2>1, <2>2
  <2> HIDE DEF M
  <2>5. NoSplicedWires
    BY <2>3 DEF NoSplicedWires
  <2>6. (\A e \in 1 .. Len(sent) : sent[e].wire <= wire)
        /\ \A i \in 1 .. Len(stream) : sent[stream[i].of].wire = wire
    BY <2>3
  <2>7. wire \in 1 .. MaxWires
    BY <2>2, WireAssumption
  <2> QED BY <2>2, <2>4, <2>5, <2>6, <2>7, Zenon DEF WireShape, Dispatches, M
<1>2. WireGrammar
  BY DEF WireInit, WireGrammar
<1>3. WireOrder
  BY DEF WireInit, WireOrder
<1> QED BY <1>1, <1>2, <1>3 DEF WireInv, WireInit

\* What the venue adds to the stream is one message of a new event.
LEMMA FramingIsOne ==
  ASSUME NEW kind \in Kinds, NEW e, NEW frames \in Framings(kind, e)
  PROVE  \/ /\ kind = "binary"
            /\ frames = <<[of |-> e, part |-> "mark"], [of |-> e, part |-> "load"]>>
         \/ kind = "bare" /\ frames = <<[of |-> e, part |-> "load"]>>
         \/ /\ kind \notin {"binary", "bare"}
            /\ frames = <<[of |-> e, part |-> "whole"]>>
         \/ /\ kind \notin {"binary", "bare"}
            /\ frames = <<[of |-> e, part |-> "open"], [of |-> e, part |-> "rest"]>>
<1>1. CASE kind = "binary"
  BY <1>1 DEF Framings
<1>2. CASE kind = "bare"
  BY <1>2 DEF Framings
<1>3. CASE kind \notin {"binary", "bare"}
  BY <1>3 DEF Framings
<1> QED BY <1>1, <1>2, <1>3

\* Frames put behind others are found behind them.
LEMMA FramesBehind ==
  ASSUME NEW S, NEW s \in Seq(S), NEW f \in S, NEW g \in S
  PROVE  /\ s \o <<f>> \in Seq(S) /\ Len(s \o <<f>>) = Len(s) + 1
         /\ \A i \in 1 .. Len(s) : (s \o <<f>>)[i] = s[i]
         /\ (s \o <<f>>)[Len(s) + 1] = f
         /\ s \o <<f, g>> \in Seq(S) /\ Len(s \o <<f, g>>) = Len(s) + 2
         /\ \A i \in 1 .. Len(s) : (s \o <<f, g>>)[i] = s[i]
         /\ (s \o <<f, g>>)[Len(s) + 1] = f
         /\ (s \o <<f, g>>)[Len(s) + 2] = g
<1>1. <<f>> \in Seq(S) /\ Len(<<f>>) = 1 /\ <<f>>[1] = f
  OBVIOUS
<1>2. <<f, g>> \in Seq(S) /\ Len(<<f, g>>) = 2 /\ <<f, g>>[1] = f /\ <<f, g>>[2] = g
  OBVIOUS
<1>3. Len(s) \in Nat
  OBVIOUS
<1> DEFINE t == s \o <<f>>  u == s \o <<f, g>>
<1>4. /\ t \in Seq(S) /\ Len(t) = Len(s) + 1
      /\ \A i \in 1 .. Len(s) + 1 : t[i] = IF i <= Len(s) THEN s[i] ELSE <<f>>[i - Len(s)]
  BY <1>1, ConcatProperties
<1>5. /\ u \in Seq(S) /\ Len(u) = Len(s) + 2
      /\ \A i \in 1 .. Len(s) + 2 : u[i] = IF i <= Len(s) THEN s[i] ELSE <<f, g>>[i - Len(s)]
  BY <1>2, ConcatProperties
<1> HIDE DEF t, u
<1>6. (\A i \in 1 .. Len(s) : t[i] = s[i]) /\ t[Len(s) + 1] = f
  BY <1>1, <1>3, <1>4
<1>7. (\A i \in 1 .. Len(s) : u[i] = s[i]) /\ u[Len(s) + 1] = f /\ u[Len(s) + 2] = g
  BY <1>2, <1>3, <1>5
<1> QED BY <1>4, <1>5, <1>6, <1>7 DEF t, u

LEMMA SendsKeeps ==
  ASSUME WireInv, VenueSends
  PROVE  WireInv'
<1> DEFINE n == Len(sent)
           e == n + 1
           Old == [of : 1 .. n, part : FrameParts]
           New == [of : 1 .. e, part : FrameParts]
<1>0. WireShape
  BY DEF WireInv
<1>1. PICK kind \in Kinds, legible \in BOOLEAN : \E frames \in Framings(kind, e) :
        /\ sent' = Append(sent, [kind |-> kind, wire |-> wire, legible |-> legible])
        /\ stream' = stream \o frames
  BY DEF VenueSends
<1>2. PICK frames \in Framings(kind, e) :
        /\ sent' = Append(sent, [kind |-> kind, wire |-> wire, legible |-> legible])
        /\ stream' = stream \o frames
  BY <1>1
<1>3. UNCHANGED <<wire, half, parts, synced, reading, mark, got, events, torn, spoiled>>
  BY DEF VenueSends, eventVars, authVars
<1>4. /\ wire \in 1 .. MaxWires
      /\ sent \in Seq([kind : Kinds, wire : 1 .. MaxWires, legible : BOOLEAN])
      /\ n \in Nat
      /\ stream \in Seq(Old) /\ parts \in Seq(Old)
  BY DEF WireInv, WireShape, WireFrames
<1>5. /\ sent' \in Seq([kind : Kinds, wire : 1 .. MaxWires, legible : BOOLEAN])
      /\ Len(sent') = e
      /\ \A i \in 1 .. n : sent'[i] = sent[i]
      /\ sent'[e] = [kind |-> kind, wire |-> wire, legible |-> legible]
  BY <1>2, <1>4
<1>6. /\ stream \in Seq(New) /\ parts \in Seq(New) /\ Old \subseteq New
      /\ \A i \in 1 .. Len(stream) : stream[i].of \in 1 .. n
  <2>1. Old \subseteq New
    BY <1>4
  <2> HIDE DEF New, Old
  <2> QED BY <1>4, <2>1, <1>0, ShapeFacts, SeqMonotonic
<1>7. \A p \in FrameParts : [of |-> e, part |-> p] \in New
  BY <1>4
<1>8. PICK p \in FrameParts, q \in FrameParts :
        \/ /\ stream' = stream \o <<[of |-> e, part |-> p]>>
           /\ \/ kind = "bare" /\ p = "load"
              \/ kind \notin {"binary", "bare"} /\ p = "whole"
        \/ /\ stream' = stream \o <<[of |-> e, part |-> p], [of |-> e, part |-> q]>>
           /\ \/ kind = "binary" /\ p = "mark" /\ q = "load"
              \/ kind \notin {"binary", "bare"} /\ p = "open" /\ q = "rest"
  <2> HIDE DEF e
  <2>1. \/ /\ kind = "binary"
           /\ frames = <<[of |-> e, part |-> "mark"], [of |-> e, part |-> "load"]>>
        \/ kind = "bare" /\ frames = <<[of |-> e, part |-> "load"]>>
        \/ /\ kind \notin {"binary", "bare"}
           /\ frames = <<[of |-> e, part |-> "whole"]>>
        \/ /\ kind \notin {"binary", "bare"}
           /\ frames = <<[of |-> e, part |-> "open"], [of |-> e, part |-> "rest"]>>
    BY FramingIsOne
  <2> QED BY <1>2, <2>1 DEF FrameParts
<1> DEFINE f == [of |-> e, part |-> p]
           g == [of |-> e, part |-> q]
<1>9. f \in New /\ g \in New /\ f.of = e /\ g.of = e /\ f.part = p /\ g.part = q
  BY <1>7
<1> HIDE DEF f, g
<1>10. /\ stream' \in Seq(New)
       /\ \A i \in 1 .. Len(stream) : stream'[i] = stream[i]
       /\ stream'[Len(stream) + 1] = f
       /\ \/ /\ Len(stream') = Len(stream) + 1
             /\ \/ kind = "bare" /\ p = "load"
                \/ kind \notin {"binary", "bare"} /\ p = "whole"
          \/ /\ Len(stream') = Len(stream) + 2 /\ stream'[Len(stream) + 2] = g
             /\ \/ kind = "binary" /\ p = "mark" /\ q = "load"
                \/ kind \notin {"binary", "bare"} /\ p = "open" /\ q = "rest"
  <2>1. \/ /\ stream' = stream \o <<f>>
           /\ \/ kind = "bare" /\ p = "load"
              \/ kind \notin {"binary", "bare"} /\ p = "whole"
        \/ /\ stream' = stream \o <<f, g>>
           /\ \/ kind = "binary" /\ p = "mark" /\ q = "load"
              \/ kind \notin {"binary", "bare"} /\ p = "open" /\ q = "rest"
    BY <1>8 DEF f, g
  <2> HIDE DEF New
  <2>2. /\ stream \o <<f>> \in Seq(New) /\ Len(stream \o <<f>>) = Len(stream) + 1
        /\ \A i \in 1 .. Len(stream) : (stream \o <<f>>)[i] = stream[i]
        /\ (stream \o <<f>>)[Len(stream) + 1] = f
        /\ stream \o <<f, g>> \in Seq(New) /\ Len(stream \o <<f, g>>) = Len(stream) + 2
        /\ \A i \in 1 .. Len(stream) : (stream \o <<f, g>>)[i] = stream[i]
        /\ (stream \o <<f, g>>)[Len(stream) + 1] = f
        /\ (stream \o <<f, g>>)[Len(stream) + 2] = g
    BY <1>6, <1>9, FramesBehind
  <2> QED BY <2>1, <2>2
<1>11. Len(stream) \in Nat /\ stream' # <<>>
  BY <1>4, <1>10
<1> DEFINE L == Len(stream)
<1>12. /\ L \in Nat /\ n \in Nat /\ e \in Nat /\ n < e
       /\ \A i \in 1 .. L : /\ stream'[i] = stream[i] /\ stream[i].of \in 1 .. n
                             /\ stream'[i].of < e
                             /\ sent'[stream[i].of] = sent[stream[i].of]
                             /\ sent'[stream[i].of].wire = wire
       /\ \A i \in 1 .. Len(stream') : i \notin 1 .. L => stream'[i].of = e
       /\ stream'[L + 1].of = e /\ stream'[L + 1].part = p
       /\ Len(stream') \in {L + 1, L + 2}
       /\ Len(stream') = L + 2 => stream'[L + 2].of = e /\ stream'[L + 2].part = q
       /\ sent'[e].kind = kind /\ sent'[e].wire = wire
  <2>1. L \in Nat /\ n \in Nat /\ e \in Nat /\ n < e
    BY <1>4, <1>11
  <2>2. \A i \in 1 .. L : /\ stream'[i] = stream[i] /\ stream[i].of \in 1 .. n
                          /\ sent[stream[i].of].wire = wire
    BY <1>0, <1>10, ShapeFacts
  <2>3. stream'[L + 1].of = e /\ stream'[L + 1].part = p /\ Len(stream') \in {L + 1, L + 2}
        /\ (Len(stream') = L + 2 => stream'[L + 2].of = e /\ stream'[L + 2].part = q)
    BY <1>9, <1>10, <2>1
  <2>4. sent'[e].kind = kind /\ sent'[e].wire = wire
    BY <1>5
  <2> HIDE DEF L
  <2>5. \A i \in 1 .. Len(stream') : i \notin 1 .. L => i = L + 1 \/ (i = L + 2 /\ Len(stream') = L + 2)
    BY <2>1, <2>3
  <2>6. \A i \in 1 .. L : sent'[stream[i].of] = sent[stream[i].of] /\ stream'[i].of < e
    BY <1>5, <2>1, <2>2
  <2> QED BY <2>1, <2>2, <2>3, <2>4, <2>5, <2>6
<1> HIDE DEF Old, New, L
<1>13. WireShape'
  <2>1. \A i \in 1 .. Len(sent') : sent'[i].wire <= wire
    <3>1. \A i \in 1 .. n : sent[i].wire <= wire
      BY DEF WireInv, WireShape
    <3>2. sent'[e].wire = wire /\ wire <= wire
      BY <1>4, <1>5
    <3>3. \A i \in 1 .. e : i \in 1 .. n \/ i = e
      BY <1>4
    <3> HIDE DEF e, n
    <3>4. ASSUME NEW i \in 1 .. e PROVE sent'[i].wire <= wire
      <4>1. CASE i \in 1 .. n
        <5>1. sent'[i] = sent[i]
          BY <1>5, <4>1
        <5> QED BY <3>1, <4>1, <5>1
      <4>2. CASE i = e
        BY <3>2, <4>2
      <4> QED BY <3>3, <4>1, <4>2
    <3> QED BY <1>5, <3>4
  <2>2. \A i \in 1 .. Len(stream') : sent'[stream'[i].of].wire = wire
    BY <1>3, <1>12
  <2>3. /\ mark \in (1 .. Len(sent')) \cup {NoMark}
        /\ mark # NoMark => sent'[mark].wire = wire
    <3>1. mark \in (1 .. n) \cup {NoMark} /\ (mark # NoMark => sent[mark].wire = wire)
      BY DEF WireInv, WireShape
    <3>2. 1 .. n \subseteq 1 .. e
      BY <1>4
    <3> HIDE DEF e, n
    <3>3. mark # NoMark => sent'[mark] = sent[mark]
      BY <1>5, <3>1
    <3> QED BY <1>5, <3>1, <3>2, <3>3
  <2>4. events \in Seq([of : 1 .. Len(sent'), loads : Loads'])
    <3>1. [of : 1 .. n, loads : Loads] \subseteq [of : 1 .. e, loads : Loads']
      BY <1>4, <1>5 DEF Loads
    <3>2. events \in Seq([of : 1 .. n, loads : Loads])
      BY DEF WireInv, WireShape
    <3> QED BY <1>5, <3>1, <3>2, SeqMonotonic
  <2>5. NoSplicedWires'
    <3>1. \A i \in DOMAIN events : events[i].of \in 1 .. n
            /\ \A k \in DOMAIN events[i].loads : events[i].loads[k] \in 1 .. n
      BY <1>0, ShapeFacts
    <3> QED BY <1>0, <1>3, <1>5, <3>1 DEF WireShape, NoSplicedWires
  <2>6. stream' \in Seq(WireFrames') /\ parts' \in Seq(WireFrames')
    <3>1. WireFrames' = New
      BY <1>5 DEF WireFrames, New
    <3> QED BY <1>3, <1>6, <1>10, <3>1
  <2> QED BY <1>3, <1>4, <1>5, <1>11, <2>1, <2>2, <2>3, <2>4, <2>5, <2>6
          DEF WireInv, WireShape
<1>14. ASSUME ~torn, ~spoiled PROVE WireGrammar'
  <2>0. WireGrammar
    BY <1>14 DEF WireInv
  <2>1. sent'[e].kind = kind
    BY <1>5
  <2>2. ASSUME NEW i \in 1 .. Len(stream')
        PROVE  LET h == stream'[i]
               IN /\ h.part \in {"mark", "load"} <=> sent'[h.of].kind \in {"binary", "bare"}
                  /\ h.part = "mark" => sent'[h.of].kind = "binary"
                  /\ h.part \in {"mark", "open"} =>
                       i + 1 \in 1 .. Len(stream') /\ Follows(h, stream'[i + 1])
    <3>1. CASE i \in 1 .. Len(stream)
      <4>1. stream'[i] = stream[i] /\ sent'[stream[i].of] = sent[stream[i].of]
        BY <1>5, <1>6, <1>10, <3>1
      <4>2. /\ stream[i].part \in {"mark", "load"} <=> sent[stream[i].of].kind \in {"binary", "bare"}
            /\ stream[i].part = "mark" => sent[stream[i].of].kind = "binary"
            /\ stream[i].part \in {"mark", "open"} =>
                 i + 1 \in 1 .. Len(stream) /\ Follows(stream[i], stream[i + 1])
        BY <2>0, <3>1 DEF WireGrammar
      <4>3. i + 1 \in 1 .. Len(stream) => i + 1 \in 1 .. Len(stream') /\ stream'[i + 1] = stream[i + 1]
        BY <1>10, <1>11, <3>1
      <4> QED BY <4>1, <4>2, <4>3
    <3>2. CASE i \notin 1 .. Len(stream)
      BY <1>10, <1>12, <3>2 DEF Follows, L
    <3> QED BY <3>1, <3>2
  <2>3. ASSUME NEW i \in 1 .. Len(stream') - 1
        PROVE  \/ /\ stream'[i].of < stream'[i + 1].of
                  /\ stream'[i + 1].part # "rest"
                  /\ stream'[i + 1].part = "load" => sent'[stream'[i + 1].of].kind = "bare"
               \/ Follows(stream'[i], stream'[i + 1])
    <3>1. CASE i + 1 \in 1 .. Len(stream)
      <4>0. i \in 1 .. Len(stream) - 1 /\ i \in 1 .. Len(stream)
        BY <1>11, <3>1
      <4>1. stream'[i] = stream[i] /\ stream'[i + 1] = stream[i + 1] /\ i \in 1 .. Len(stream) - 1
            /\ sent'[stream[i + 1].of] = sent[stream[i + 1].of]
        BY <1>12, <3>1, <4>0 DEF L
      <4> QED BY <2>0, <4>1 DEF WireGrammar
    <3>2. CASE i = Len(stream)
      <4>1. stream'[i] = stream[i] /\ stream'[i + 1] = f /\ stream[i].of < e
        BY <1>4, <1>6, <1>10, <1>11, <3>2
      <4> QED BY <1>9, <1>10, <2>1, <4>1
    <3>3. CASE i = Len(stream) + 1
      BY <1>9, <1>10, <1>11, <3>3 DEF Follows
    <3> QED BY <1>10, <1>11, <3>1, <3>2, <3>3
  <2>4. ASSUME NEW i \in 1 .. Len(stream'), NEW j \in 1 .. Len(stream'), i < j
        PROVE  stream'[i].of < stream'[j].of
                 \/ (j = i + 1 /\ Follows(stream'[i], stream'[j]))
    <3>1. CASE j \in 1 .. Len(stream)
      <4>1. i \in 1 .. Len(stream) /\ stream'[i] = stream[i] /\ stream'[j] = stream[j]
        BY <1>10, <1>11, <2>4, <3>1
      <4> QED BY <2>0, <2>4, <3>1, <4>1 DEF WireGrammar
    <3>2. CASE j \notin 1 .. Len(stream) /\ i \in 1 .. Len(stream)
      BY <1>12, <3>2 DEF L
    <3>3. CASE j \notin 1 .. Len(stream) /\ i \notin 1 .. Len(stream)
      BY <1>9, <1>10, <1>11, <2>4, <3>3 DEF Follows
    <3> QED BY <3>1, <3>2, <3>3
  <2>5. Pending(stream[1])'
    <3>1. CASE Len(stream) = 0
      <4>1. stream'[1] = f /\ parts = <<>> /\ mark = NoMark
        BY <1>10, <2>0, <3>1, <1>0, ShapeFacts DEF WireGrammar
      <4> QED BY <1>3, <1>9, <1>10, <2>1, <4>1 DEF Pending
    <3>2. CASE Len(stream) # 0
      <4>1. 1 \in 1 .. Len(stream)
        BY <1>11, <3>2
      <4>2. stream'[1] = stream[1] /\ sent'[stream[1].of] = sent[stream[1].of] /\ Pending(stream[1])
        BY <1>5, <1>6, <1>10, <2>0, <4>1 DEF WireGrammar
      <4> QED BY <1>3, <4>2 DEF Pending
    <3> QED BY <3>1, <3>2
  <2> QED BY <1>11, <2>2, <2>3, <2>4, <2>5 DEF WireGrammar
<1>15. ASSUME ~torn, ~spoiled PROVE WireOrder'
  <2>0. WireOrder
    BY <1>15 DEF WireInv
  <2>1. \A i \in 1 .. Len(events) : events[i].of \in 1 .. n /\ sent'[events[i].of] = sent[events[i].of]
    BY <1>0, <1>5, ShapeFacts
  <2>2. \A i \in 1 .. Len(events) : Own(events[i])'
    BY <1>3, <2>0, <2>1 DEF WireOrder, Own
  <2>3. \A i \in 1 .. Len(events), j \in 1 .. Len(stream') : events[i].of < stream'[j].of
    <3>1. \A i \in 1 .. Len(events), j \in 1 .. Len(stream) : events[i].of < stream[j].of
      BY <2>0 DEF WireOrder
    <3>2. ASSUME NEW i \in 1 .. Len(events), NEW j \in 1 .. Len(stream') PROVE events[i].of < stream'[j].of
      <4>1. CASE j \in 1 .. Len(stream)
        <5>1. stream'[j] = stream[j]
          BY <1>12, <4>1 DEF L
        <5> QED BY <3>1, <4>1, <5>1
      <4>2. CASE j \notin 1 .. Len(stream)
        <5>1. stream'[j].of = e
          BY <1>12, <4>2 DEF L
        <5>2. events[i].of \in 1 .. n /\ n \in Nat /\ e \in Nat /\ n < e
          BY <1>12, <2>1
        <5> HIDE DEF n, e
        <5>3. events[i].of < e
          BY <5>2
        <5> QED BY <5>1, <5>3
      <4> QED BY <4>1, <4>2
    <3> QED BY <3>2
  <2>4. ASSUME NEW k \in 1 .. Len(sent'), sent'[k].wire = wire
        PROVE  \/ \E i \in 1 .. Len(events) : events[i].of = k
               \/ \E j \in 1 .. Len(stream') : stream'[j].of = k
    <3>1. CASE k = e
      BY <1>9, <1>10, <1>11, <3>1
    <3>2. CASE k # e
      <4>1. k \in 1 .. n /\ sent[k].wire = wire
        BY <1>4, <1>5, <2>4, <3>2
      <4>2. \A j \in 1 .. Len(stream) : j \in 1 .. Len(stream') /\ stream'[j] = stream[j]
        BY <1>12 DEF L
      <4> QED BY <2>0, <4>1, <4>2 DEF WireOrder
    <3> QED BY <3>1, <3>2
  <2> QED BY <1>3, <2>0, <2>2, <2>3, <2>4 DEF WireOrder
<1> QED BY <1>3, <1>13, <1>14, <1>15 DEF WireInv

\* The two ways the first frame is dispatched, and the event it makes.
Completed(f, d) ==
  \/ f.part = "load" /\ mark # NoMark /\ d = [of |-> mark, loads |-> <<f.of>>]
  \/ /\ \/ f.part = "load" /\ mark = NoMark
        \/ f.part = "whole"
        \/ f.part = "rest" /\ parts # <<>>
     /\ d = [of |-> f.of, loads |-> <<>>]

\* A payload is kept as a fragment or as a placeholder, is lost, or completes
\* an event.
LEMMA PayloadSteps ==
  ASSUME WireShape, ReadPayload, NEW f, f = stream[1]
  PROVE  /\ stream # <<>> /\ stream' = Tail(stream) /\ half' = FALSE
         /\ wire' = wire /\ sent' = sent /\ synced' = synced /\ torn' = torn
         /\ got' = <<>> /\ login' = login /\ early' = early
         /\ \/ /\ f.part = "open" /\ parts' = Append(parts, f)
               /\ mark' = mark /\ events' = events /\ spoiled' = spoiled
               /\ UNCHANGED authVars
            \/ /\ f.part = "load" /\ parts' = <<>> /\ spoiled' = TRUE
               /\ mark' = mark /\ events' = events /\ UNCHANGED authVars
            \/ /\ f.part = "mark" /\ parts' = <<>> /\ spoiled' = spoiled
               /\ mark' = f.of /\ events' = events /\ UNCHANGED authVars
            \/ /\ f.part = "rest" /\ parts = <<>> /\ parts' = <<>> /\ spoiled' = spoiled
               /\ mark' = mark /\ events' = events /\ UNCHANGED authVars
            \/ \E d : /\ Completed(f, d) /\ parts' = <<>> /\ spoiled' = spoiled
                      /\ mark' = (IF f.part = "load" THEN NoMark ELSE mark)
                      /\ events' = Append(events, d) /\ Noted(sent[d.of].kind)
<1>1. /\ half /\ half' = FALSE /\ stream' = Tail(stream)
      /\ wire' = wire /\ sent' = sent /\ synced' = synced /\ torn' = torn
  BY DEF ReadPayload
<1>2. stream # <<>> /\ stream \in Seq(WireFrames) /\ got = <<>>
  BY <1>1 DEF WireShape
<1>3. Head(stream) = f /\ f.part \in FrameParts
  <2>1. Len(stream) \in Nat /\ Len(stream) # 0
    BY <1>2, EmptySeq
  <2>2. 1 \in 1 .. Len(stream)
    BY <2>1
  <2> QED BY <1>2, <2>2, ShapeFacts
<1>4. IF f.part = "open"
      THEN parts' = Append(parts, f) /\ UNCHANGED <<eventVars, authVars, spoiled>>
      ELSE /\ parts' = <<>>
           /\ IF f.part = "load" THEN Attach(f)
              ELSE Text(f, f.part = "rest" => parts # <<>>)
  BY <1>3 DEF ReadPayload
<1>5. CASE f.part = "open"
  BY <1>1, <1>2, <1>4, <1>5 DEF eventVars, authVars
<1>6. CASE f.part = "load"
  <2>1. parts' = <<>> /\ Attach(f)
    BY <1>4, <1>6
  <2>2. CASE ~sent[f.of].legible
    BY <1>1, <1>2, <1>6, <2>1, <2>2 DEF Attach, Silent, authVars
  <2>3. CASE sent[f.of].legible /\ mark # NoMark
    <3> DEFINE d == [of |-> mark, loads |-> <<f.of>>]
    <3>1. Append(got, f.of) = <<f.of>>
      BY <1>2
    <3>2. Dispatch(mark, Append(got, f.of)) /\ mark' = NoMark /\ got' = <<>>
          /\ spoiled' = spoiled
      BY <2>1, <2>3 DEF Attach
    <3>3. events' = Append(events, d) /\ Noted(sent[d.of].kind) /\ login' = login
          /\ early' = early
      BY <3>1, <3>2 DEF Dispatch
    <3>4. Completed(f, d)
      BY <1>6, <2>3 DEF Completed
    <3> HIDE DEF d
    <3> QED BY <1>1, <1>2, <1>6, <2>1, <3>2, <3>3, <3>4
  <2>4. CASE sent[f.of].legible /\ mark = NoMark
    <3> DEFINE d == [of |-> f.of, loads |-> <<>>]
    <3>1. events' = Append(events, d) /\ Noted(sent[d.of].kind) /\ login' = login
          /\ early' = early /\ mark' = mark /\ got' = got /\ spoiled' = spoiled
      BY <2>1, <2>4 DEF Attach, Dispatch
    <3>2. Completed(f, d)
      BY <1>6, <2>4 DEF Completed
    <3> HIDE DEF d
    <3> QED BY <1>1, <1>2, <1>6, <2>1, <2>4, <3>1, <3>2
  <2> QED BY <2>2, <2>3, <2>4
<1>7. CASE f.part \notin {"open", "load"}
  <2>1. parts' = <<>> /\ Text(f, f.part = "rest" => parts # <<>>)
    BY <1>4, <1>7
  <2>2. CASE f.part = "mark"
    BY <1>1, <1>2, <2>1, <2>2 DEF Text, Silent, authVars
  <2>3. CASE f.part # "mark" /\ (f.part = "rest" => parts # <<>>)
    <3> DEFINE d == [of |-> f.of, loads |-> <<>>]
    <3>1. events' = Append(events, d) /\ Noted(sent[d.of].kind) /\ login' = login
          /\ early' = early /\ mark' = mark /\ got' = got /\ spoiled' = spoiled
      BY <2>1, <2>3 DEF Text, Dispatch
    <3>2. Completed(f, d)
      BY <1>3, <1>7, <2>3 DEF Completed, FrameParts
    <3> HIDE DEF d
    <3> QED BY <1>1, <1>2, <1>7, <2>1, <2>3, <3>1, <3>2
  <2>4. CASE f.part # "mark" /\ ~(f.part = "rest" => parts # <<>>)
    BY <1>1, <1>2, <2>1, <2>4 DEF Text, Silent, authVars
  <2> QED BY <2>2, <2>3, <2>4
<1> QED BY <1>5, <1>6, <1>7

LEMMA PayloadKeepsShape ==
  ASSUME WireShape, ReadPayload
  PROVE  WireShape'
<1> DEFINE f == stream[1]
<1>1. /\ stream # <<>> /\ stream' = Tail(stream) /\ half' = FALSE
      /\ wire' = wire /\ sent' = sent /\ got' = <<>>
      /\ \/ f.part = "open" /\ parts' = Append(parts, f)
         \/ parts' = <<>>
      /\ \/ events' = events /\ mark' \in {mark, f.of}
         \/ /\ mark' \in {mark, NoMark}
            /\ \E d : Completed(f, d) /\ events' = Append(events, d)
  BY PayloadSteps
<1>2. stream \in Seq(WireFrames) /\ parts \in Seq(WireFrames) /\ events \in Seq(Dispatches)
  BY DEF WireShape, Dispatches
<1>3. 1 \in 1 .. Len(stream)
  BY <1>1, <1>2, EmptySeq
<1>4. f \in WireFrames /\ f.of \in 1 .. Len(sent) /\ sent[f.of].wire = wire
  BY <1>3, ShapeFacts
<1> HIDE DEF f
<1>5. WireFrames' = WireFrames /\ Dispatches' = Dispatches
  BY <1>1 DEF WireFrames, Dispatches, Loads
<1>6. stream' \in Seq(WireFrames) /\ parts' \in Seq(WireFrames)
  <2>1. Tail(stream) \in Seq(WireFrames)
    BY <1>1, <1>2, HeadTailProperties
  <2>2. Append(parts, f) \in Seq(WireFrames)
    BY <1>2, <1>4, AppendProperties
  <2>3. <<>> \in Seq(WireFrames)
    BY EmptySeq
  <2> QED BY <1>1, <2>1, <2>2, <2>3
<1>7. \A i \in 1 .. Len(stream') : sent[stream'[i].of].wire = wire
  <2>1. Len(stream') = Len(stream) - 1 /\ Len(stream) \in Nat
        /\ \A i \in 1 .. Len(stream') : stream'[i] = stream[i + 1]
    BY <1>1, <1>2, HeadTailProperties, LenProperties
  <2>2. \A i \in 1 .. Len(stream') : i + 1 \in 1 .. Len(stream)
    BY <2>1
  <2> QED BY <2>1, <2>2, ShapeFacts
<1>8. mark' \in (1 .. Len(sent)) \cup {NoMark} /\ (mark' # NoMark => sent[mark'].wire = wire)
  BY <1>1, <1>4 DEF WireShape
<1>9. events' \in Seq(Dispatches) /\ NoSplicedWires'
  <2>1. CASE events' = events
    BY <1>1, <1>2, <2>1 DEF WireShape, NoSplicedWires
  <2>2. ASSUME NEW d, Completed(f, d), events' = Append(events, d)
        PROVE  events' \in Seq(Dispatches) /\ NoSplicedWires'
    <3>1. d \in Dispatches /\ sent[d.of].wire = wire
          /\ \A k \in DOMAIN d.loads : sent[d.loads[k]].wire = wire
      <4>1. CASE mark # NoMark /\ d = [of |-> mark, loads |-> <<f.of>>]
        <5>1. mark \in 1 .. Len(sent) /\ sent[mark].wire = wire
          BY <4>1 DEF WireShape
        <5>2. d.of = mark /\ d.loads = <<f.of>> /\ DOMAIN d.loads = {1} /\ d.loads[1] = f.of
          BY <4>1
        <5>3. <<f.of>> \in Loads
          BY <1>4 DEF Loads
        <5> QED BY <1>4, <4>1, <5>1, <5>2, <5>3 DEF Dispatches
      <4>2. CASE d = [of |-> f.of, loads |-> <<>>]
        BY <1>4, <4>2 DEF Dispatches, Loads
      <4> QED BY <2>2, <4>1, <4>2 DEF Completed
    <3>2. /\ events' \in Seq(Dispatches) /\ Len(events') = Len(events) + 1
          /\ \A i \in 1 .. Len(events) : events'[i] = events[i]
          /\ events'[Len(events) + 1] = d
      BY <1>2, <2>2, <3>1, AppendProperties
    <3>3. DOMAIN events' = 1 .. Len(events) + 1 /\ Len(events) \in Nat
          /\ DOMAIN events = 1 .. Len(events)
      BY <1>2, <3>2, LenProperties
    <3>4. \A i \in DOMAIN events' : i \in DOMAIN events \/ i = Len(events) + 1
      BY <3>3
    <3>5. NoSplicedWires'
      <4>1. NoSplicedWires /\ sent' = sent
        BY <1>1 DEF WireShape
      <4>2. ASSUME NEW i \in DOMAIN events'
            PROVE  \A k \in DOMAIN events'[i].loads :
                     sent'[events'[i].loads[k]].wire = sent'[events'[i].of].wire
        <5>1. CASE i \in DOMAIN events
          <6>1. events'[i] = events[i]
            BY <3>2, <3>3, <5>1
          <6> QED BY <4>1, <5>1, <6>1 DEF NoSplicedWires
        <5>2. CASE i = Len(events) + 1
          <6>1. events'[i] = d
            BY <3>2, <5>2
          <6> QED BY <3>1, <4>1, <6>1
        <5> QED BY <3>4, <5>1, <5>2
      <4> QED BY <4>2 DEF NoSplicedWires
    <3> QED BY <3>2, <3>5
  <2> QED BY <1>1, <2>1, <2>2
<1> QED BY <1>1, <1>5, <1>6, <1>7, <1>8, <1>9 DEF WireShape, Dispatches

\* The shorter stream, element by element.
LEMMA TailElements ==
  ASSUME WireShape, stream # <<>>, stream' = Tail(stream)
  PROVE  /\ Len(stream) \in Nat \ {0} /\ Len(stream') = Len(stream) - 1
         /\ \A i \in 1 .. Len(stream') : i + 1 \in 1 .. Len(stream) /\ stream'[i] = stream[i + 1]
         /\ \A i \in 1 .. Len(stream) : i # 1 => i - 1 \in 1 .. Len(stream')
         /\ stream' # <<>> <=> Len(stream) # 1
<1>1. stream \in Seq(WireFrames)
  BY DEF WireShape
<1>2. Len(stream) \in Nat /\ Len(stream) # 0
  BY <1>1, EmptySeq, ShapeFacts
<1>3. /\ Tail(stream) \in Seq(WireFrames) /\ Len(Tail(stream)) = Len(stream) - 1
      /\ \A i \in 1 .. Len(Tail(stream)) : Tail(stream)[i] = stream[i + 1]
  BY <1>1, HeadTailProperties
<1>4. Tail(stream) # <<>> <=> Len(Tail(stream)) # 0
  BY <1>3, EmptySeq
<1> QED BY <1>2, <1>3, <1>4

\* In the grammar, a payload begins a message whose other half is next, or
\* completes the event of the first frame with just its own attachment.
LEMMA HeadCases ==
  ASSUME WireShape, WireGrammar, ReadPayload, ~spoiled', NEW f, f = stream[1]
  PROVE  /\ ~spoiled
         /\ \/ /\ events' = events /\ 2 \in 1 .. Len(stream) /\ Follows(f, stream[2])
               /\ \/ /\ f.part = "open" /\ parts' = <<f>> /\ mark' = NoMark
                  \/ /\ f.part = "mark" /\ parts' = <<>> /\ mark' = f.of
                     /\ sent[f.of].kind = "binary"
            \/ /\ f.part \notin {"open", "mark"} /\ parts' = <<>> /\ mark' = NoMark
               /\ \E d \in Dispatches : d.of = f.of /\ Own(d) /\ events' = Append(events, d)
<1>1. stream # <<>> /\ 1 \in 1 .. Len(stream) /\ f \in WireFrames
      /\ f.of \in 1 .. Len(sent) /\ f.of # NoMark
  <2>1. stream # <<>> /\ stream \in Seq(WireFrames)
    BY PayloadSteps DEF WireShape
  <2>2. 1 \in 1 .. Len(stream)
    BY <2>1, EmptySeq, ShapeFacts
  <2> QED BY <2>1, <2>2, ShapeFacts, WireAssumption
<1>2. Pending(f)
  BY <1>1 DEF WireGrammar
<1>3. /\ f.part \in {"mark", "load"} <=> sent[f.of].kind \in {"binary", "bare"}
      /\ f.part = "mark" => sent[f.of].kind = "binary"
      /\ f.part \in {"mark", "open"} => 2 \in 1 .. Len(stream) /\ Follows(f, stream[2])
  BY <1>1 DEF WireGrammar
<1>4. parts \in Seq(WireFrames)
  BY DEF WireShape
<1>5. CASE /\ f.part = "open" /\ parts' = Append(parts, f)
           /\ mark' = mark /\ events' = events /\ spoiled' = spoiled
  <2>1. parts = <<>> /\ mark = NoMark
    BY <1>2, <1>5 DEF Pending
  <2>2. Append(parts, f) = <<f>>
    BY <2>1
  <2> QED BY <1>3, <1>5, <2>1, <2>2
<1>6. CASE /\ f.part = "mark" /\ parts' = <<>> /\ spoiled' = spoiled
           /\ mark' = f.of /\ events' = events
  BY <1>3, <1>6
<1>7. CASE f.part = "rest" /\ parts = <<>>
  BY <1>2, <1>7 DEF Pending
<1>8. ASSUME NEW d, Completed(f, d), parts' = <<>>, spoiled' = spoiled,
             mark' = (IF f.part = "load" THEN NoMark ELSE mark),
             events' = Append(events, d)
      PROVE  /\ f.part \notin {"open", "mark"} /\ mark' = NoMark
             /\ d \in Dispatches /\ d.of = f.of /\ Own(d)
  <2>1. f.part \notin {"open", "mark"} /\ mark' = NoMark
    BY <1>2, <1>8 DEF Pending, Completed
  <2>2. CASE f.part = "load" /\ mark # NoMark /\ d = [of |-> mark, loads |-> <<f.of>>]
    <3>1. mark = f.of /\ sent[f.of].kind = "binary" /\ <<f.of>> \in Loads
      BY <1>1, <1>2, <2>2 DEF Pending, Loads
    <3> QED BY <1>1, <2>1, <2>2, <3>1 DEF Dispatches, Own
  <2>3. CASE ~(f.part = "load" /\ mark # NoMark)
    <3>1. d = [of |-> f.of, loads |-> <<>>] /\ <<>> \in Loads
      BY <1>8, <2>3 DEF Completed, Loads
    <3>2. sent[f.of].kind # "binary"
      BY <1>2, <1>3, <2>1, <2>3 DEF Pending
    <3>3. d.of = f.of /\ d.loads = <<>> /\ d \in Dispatches
      BY <1>1, <3>1 DEF Dispatches
    <3>4. sent[d.of].kind # "binary"
      BY <3>2, <3>3
    <3>5. Own(d)
      BY <3>3, <3>4, Zenon DEF Own
    <3> QED BY <2>1, <3>3, <3>5
  <2> QED BY <1>8, <2>2, <2>3 DEF Completed
<1> QED BY <1>5, <1>6, <1>7, <1>8, PayloadSteps

LEMMA PayloadKeepsGrammar ==
  ASSUME WireShape, WireGrammar, ReadPayload, ~spoiled'
  PROVE  WireGrammar'
<1> DEFINE f == stream[1]
<1>1. /\ stream # <<>> /\ stream' = Tail(stream) /\ sent' = sent
  BY PayloadSteps
<1>2. /\ Len(stream) \in Nat \ {0} /\ Len(stream') = Len(stream) - 1
      /\ \A i \in 1 .. Len(stream') : i + 1 \in 1 .. Len(stream) /\ stream'[i] = stream[i + 1]
      /\ stream' # <<>> <=> Len(stream) # 1
  BY <1>1, TailElements
<1>3. ASSUME NEW i \in 1 .. Len(stream')
      PROVE  LET h == stream'[i]
             IN /\ h.part \in {"mark", "load"} <=> sent'[h.of].kind \in {"binary", "bare"}
                /\ h.part = "mark" => sent'[h.of].kind = "binary"
                /\ h.part \in {"mark", "open"} =>
                     i + 1 \in 1 .. Len(stream') /\ Follows(h, stream'[i + 1])
  <2> DEFINE k == i + 1
  <2>1. k \in 1 .. Len(stream) /\ stream'[i] = stream[k]
    BY <1>2
  <2>2. /\ stream[k].part \in {"mark", "load"} <=> sent[stream[k].of].kind \in {"binary", "bare"}
        /\ stream[k].part = "mark" => sent[stream[k].of].kind = "binary"
        /\ stream[k].part \in {"mark", "open"} =>
             k + 1 \in 1 .. Len(stream) /\ Follows(stream[k], stream[k + 1])
    BY <2>1 DEF WireGrammar
  <2>3. k + 1 \in 1 .. Len(stream) => i + 1 \in 1 .. Len(stream') /\ stream'[i + 1] = stream[k + 1]
    BY <1>2
  <2> QED BY <1>1, <2>1, <2>2, <2>3
<1>4. ASSUME NEW i \in 1 .. Len(stream') - 1
      PROVE  \/ /\ stream'[i].of < stream'[i + 1].of
                /\ stream'[i + 1].part # "rest"
                /\ stream'[i + 1].part = "load" => sent'[stream'[i + 1].of].kind = "bare"
             \/ Follows(stream'[i], stream'[i + 1])
  <2> DEFINE k == i + 1
  <2>1. k \in 1 .. Len(stream) - 1 /\ stream'[i] = stream[k] /\ stream'[i + 1] = stream[k + 1]
    BY <1>2
  <2> QED BY <1>1, <2>1 DEF WireGrammar
<1>5. ASSUME NEW i \in 1 .. Len(stream'), NEW j \in 1 .. Len(stream'), i < j
      PROVE  stream'[i].of < stream'[j].of
               \/ (j = i + 1 /\ Follows(stream'[i], stream'[j]))
  <2>1. /\ i + 1 \in 1 .. Len(stream) /\ stream'[i] = stream[i + 1]
        /\ j + 1 \in 1 .. Len(stream) /\ stream'[j] = stream[j + 1] /\ i + 1 < j + 1
    BY <1>2, <1>5
  <2>2. stream[i + 1].of < stream[j + 1].of
          \/ (j + 1 = (i + 1) + 1 /\ Follows(stream[i + 1], stream[j + 1]))
    BY <2>1 DEF WireGrammar
  <2>3. j + 1 = (i + 1) + 1 => j = i + 1
    OBVIOUS
  <2> QED BY <2>1, <2>2, <2>3
<1>6. f \in WireFrames /\ f.of \in 1 .. Len(sent) /\ f.of # NoMark
  <2>1. 1 \in 1 .. Len(stream)
    BY <1>2
  <2> QED BY <2>1, ShapeFacts, WireAssumption
<1>7. ASSUME stream' # <<>>
      PROVE  Pending(stream[1])'
  <2> DEFINE g == stream[2]
  <2>1. stream'[1] = g /\ 1 \in 1 .. Len(stream) - 1
    <3>1. 1 \in 1 .. Len(stream')
      BY <1>2, <1>7
    <3> QED BY <1>2, <3>1
  <2>2. \/ g.part # "rest" /\ (g.part = "load" => sent[g.of].kind = "bare")
        \/ Follows(f, g)
    BY <2>1 DEF WireGrammar
  <2> HIDE DEF g
  <2>3. CASE f.part = "open" /\ parts' = <<f>> /\ mark' = NoMark /\ Follows(f, g)
    <3>1. f = [of |-> f.of, part |-> "open"] /\ g.of = f.of /\ g.part = "rest"
      BY <1>6, <2>3 DEF Follows, WireFrames
    <3> HIDE DEF f
    <3>2. parts' # <<>>
      BY <2>3
    <3>3. parts' = <<[of |-> g.of, part |-> "open"]>>
      BY <2>3, <3>1
    <3> QED BY <1>1, <2>1, <2>3, <3>1, <3>2, <3>3 DEF Pending
  <2>4. CASE f.part = "mark" /\ parts' = <<>> /\ mark' = f.of /\ Follows(f, g)
             /\ sent[f.of].kind = "binary"
    BY <1>1, <1>6, <2>1, <2>4 DEF Pending, Follows
  <2>5. CASE f.part \notin {"open", "mark"} /\ parts' = <<>> /\ mark' = NoMark
    BY <1>1, <2>1, <2>2, <2>5 DEF Pending, Follows
  <2> QED BY <2>3, <2>4, <2>5, HeadCases DEF g
<1>8. ASSUME stream' = <<>> PROVE parts' = <<>> /\ mark' = NoMark
  <2>1. Len(stream) = 1
    BY <1>2, <1>8
  <2> QED BY <2>1, HeadCases
<1> QED BY <1>3, <1>4, <1>5, <1>7, <1>8 DEF WireGrammar

LEMMA PayloadKeepsOrder ==
  ASSUME WireShape, WireGrammar, WireOrder, ReadPayload, ~spoiled'
  PROVE  WireOrder'
<1> DEFINE f == stream[1]
<1>1. /\ stream # <<>> /\ stream' = Tail(stream) /\ sent' = sent /\ wire' = wire
  BY PayloadSteps
<1>2. /\ Len(stream) \in Nat \ {0} /\ Len(stream') = Len(stream) - 1
      /\ \A i \in 1 .. Len(stream') : i + 1 \in 1 .. Len(stream) /\ stream'[i] = stream[i + 1]
      /\ \A i \in 1 .. Len(stream) : i # 1 => i - 1 \in 1 .. Len(stream')
  BY <1>1, TailElements
<1>3. \A j \in 1 .. Len(stream) : j # 1 => stream'[j - 1] = stream[j]
  BY <1>2
<1>4. 1 \in 1 .. Len(stream)
  BY <1>2
<1>5. CASE events' = events /\ 2 \in 1 .. Len(stream) /\ Follows(f, stream[2])
  <2>1. stream'[1] = stream[2] /\ 1 \in 1 .. Len(stream') /\ stream[2].of = f.of
    BY <1>2, <1>3, <1>5 DEF Follows
  <2>2. \A i \in 1 .. Len(events) : Own(events[i])'
    BY <1>1, <1>5 DEF WireOrder, Own
  <2>3. \A i \in 1 .. Len(events), j \in 1 .. Len(stream') : events[i].of < stream'[j].of
    BY <1>2 DEF WireOrder
  <2>4. ASSUME NEW e \in 1 .. Len(sent), sent[e].wire = wire
        PROVE  \/ \E i \in 1 .. Len(events) : events[i].of = e
               \/ \E j \in 1 .. Len(stream') : stream'[j].of = e
    <3>1. ASSUME NEW j \in 1 .. Len(stream), stream[j].of = e
          PROVE  \E k \in 1 .. Len(stream') : stream'[k].of = e
      <4>1. CASE j = 1
        BY <2>1, <3>1, <4>1
      <4>2. CASE j # 1
        BY <1>2, <1>3, <3>1, <4>2
      <4> QED BY <4>1, <4>2
    <3> QED BY <2>4, <3>1 DEF WireOrder
  <2> QED BY <1>1, <1>5, <2>2, <2>3, <2>4 DEF WireOrder
<1>6. ASSUME f.part \notin {"open", "mark"},
             NEW d \in Dispatches, d.of = f.of, Own(d), events' = Append(events, d)
      PROVE  WireOrder'
  <2> DEFINE n == Len(events)
  <2>1. events \in Seq(Dispatches)
    BY DEF WireShape, Dispatches
  <2>2. /\ n \in Nat /\ Len(events') = n + 1
        /\ \A i \in 1 .. n : events'[i] = events[i]
        /\ events'[n + 1] = d
    <3> HIDE DEF f
    <3> QED BY <1>6, <2>1, AppendProperties, LenProperties
  <2>3. \A i \in 1 .. Len(events') : i \in 1 .. n \/ i = n + 1
    BY <2>2
  <2> HIDE DEF n
  <2>4. \A i \in 1 .. Len(events') : Own(events[i])'
    <3>1. \A i \in 1 .. n : Own(events[i])
      BY DEF WireOrder, n
    <3> QED BY <1>1, <1>6, <2>2, <2>3, <3>1 DEF Own
  <2>5. ASSUME NEW i \in 1 .. Len(events'), NEW j \in 1 .. Len(events'), i < j
        PROVE  events'[i].of < events'[j].of
    <3>1. i \in 1 .. n
      BY <2>2, <2>5
    <3>2. CASE j \in 1 .. n
      BY <2>2, <2>5, <3>1, <3>2 DEF WireOrder, n
    <3>3. CASE j = n + 1
      BY <1>4, <1>6, <2>2, <3>1, <3>3 DEF WireOrder, n
    <3> QED BY <2>3, <3>2, <3>3
  <2>6. ASSUME NEW i \in 1 .. Len(events'), NEW j \in 1 .. Len(stream')
        PROVE  events'[i].of < stream'[j].of
    <3>1. CASE i \in 1 .. n
      BY <1>2, <2>2, <3>1 DEF WireOrder, n
    <3>2. CASE i = n + 1
      <4>1. j + 1 \in 1 .. Len(stream) /\ 1 < j + 1 /\ stream'[j] = stream[j + 1]
        BY <1>2
      <4>2. ~Follows(f, stream[j + 1])
        BY <1>6 DEF Follows
      <4>3. f.of < stream[j + 1].of
        BY <1>4, <4>1, <4>2 DEF WireGrammar
      <4> QED BY <1>6, <2>2, <3>2, <4>1, <4>3
    <3> QED BY <2>3, <3>1, <3>2
  <2>7. ASSUME NEW e \in 1 .. Len(sent), sent[e].wire = wire
        PROVE  \/ \E i \in 1 .. Len(events') : events'[i].of = e
               \/ \E j \in 1 .. Len(stream') : stream'[j].of = e
    <3>1. \A i \in 1 .. n : i \in 1 .. Len(events')
      BY <2>2
    <3>2. ASSUME NEW i \in 1 .. n, events[i].of = e
          PROVE  \E k \in 1 .. Len(events') : events'[k].of = e
      BY <2>2, <3>1, <3>2
    <3>3. ASSUME NEW j \in 1 .. Len(stream), stream[j].of = e
          PROVE  \/ \E k \in 1 .. Len(events') : events'[k].of = e
                 \/ \E k \in 1 .. Len(stream') : stream'[k].of = e
      <4>1. CASE j = 1
        <5>1. n + 1 \in 1 .. Len(events')
          BY <2>2
        <5> QED BY <1>6, <2>2, <3>3, <4>1, <5>1
      <4>2. CASE j # 1
        BY <1>2, <1>3, <3>3, <4>2
      <4> QED BY <4>1, <4>2
    <3> QED BY <2>7, <3>2, <3>3 DEF WireOrder, n
  <2> QED BY <1>1, <2>4, <2>5, <2>6, <2>7 DEF WireOrder
<1> QED BY <1>5, <1>6, HeadCases

\* authorize() on the connecting thread.
Authorizes == AuthorizeBegins \/ AuthorizeRaises \/ AuthorizeLooks
              \/ AuthorizeReturns \/ AuthorizeWaits

\* It touches nothing but the flags.
LEMMA AuthorizeLeaves ==
  ASSUME Authorizes
  PROVE  UNCHANGED <<wire, sent, frameVars, eventVars, torn, spoiled>>
BY DEF Authorizes, AuthorizeBegins, AuthorizeRaises, AuthorizeLooks, AuthorizeReturns,
       AuthorizeWaits, Polls

\* Every reachable state: the shape, and the grammar and the order as long as
\* nothing was torn or spoiled.
LEMMA WireInvariance == WireSpec => []WireInv
<1>1. WireInit => WireInv
  BY WireStarts
<1>2. ASSUME WireInv, [WireNext]_wireVars PROVE WireInv'
  <2>0. WireShape
    BY <1>2 DEF WireInv
  <2>1. CASE VenueSends
    BY <1>2, <2>1, SendsKeeps
  <2>2. CASE ReadPayload
    <3>1. WireShape'
      BY <2>0, <2>2, PayloadKeepsShape
    <3>2. /\ synced' = synced /\ torn' = torn /\ half' = FALSE
          /\ spoiled' = spoiled \/ spoiled' = TRUE
      <4> DEFINE f == stream[1]
      <4>1. f = stream[1]
        OBVIOUS
      <4> QED BY <2>0, <2>2, <4>1, PayloadSteps
    <3>3. ASSUME ~torn', ~spoiled' PROVE WireGrammar' /\ WireOrder'
      <4>1. WireGrammar /\ WireOrder
        BY <1>2, <3>2, <3>3 DEF WireInv
      <4>2. ~spoiled'
        BY <3>3
      <4>3. WireGrammar'
        BY <2>0, <2>2, <4>1, <4>2, PayloadKeepsGrammar
      <4>4. WireOrder'
        BY <2>0, <2>2, <4>1, <4>2, PayloadKeepsOrder
      <4> QED BY <4>3, <4>4
    <3> QED BY <1>2, <3>1, <3>2, <3>3 DEF WireInv
  <2>3. CASE ReadHeader \/ Authorizes
    <3>1. /\ wire' = wire /\ sent' = sent /\ stream' = stream /\ parts' = parts
          /\ mark' = mark /\ got' = got /\ events' = events /\ synced' = synced
          /\ torn' = torn /\ spoiled' = spoiled
      BY <2>3, AuthorizeLeaves DEF ReadHeader, frameVars, eventVars
    <3>2. half' \in BOOLEAN /\ (half' => stream' # <<>>)
      <4>1. CASE ReadHeader
        BY <4>1 DEF ReadHeader
      <4>2. CASE Authorizes
        BY <2>0, <4>2, AuthorizeLeaves DEF frameVars, WireShape
      <4> QED BY <2>3, <4>1, <4>2
    <3>3. WireShape'
      BY <2>0, <3>1, <3>2 DEF WireShape, WireFrames, Loads, NoSplicedWires
    <3>4. WireGrammar => WireGrammar'
      BY <3>1 DEF WireGrammar, Pending
    <3>5. WireOrder => WireOrder'
      BY <3>1 DEF WireOrder, Own
    <3>6. half' => synced
      BY <1>2, <2>3, AuthorizeLeaves DEF ReadHeader, frameVars, WireInv
    <3> QED BY <1>2, <3>1, <3>3, <3>4, <3>5, <3>6 DEF WireInv
  <2>4. CASE ReadTimesOut
    <3>1. /\ wire' = wire /\ sent' = sent /\ stream' = stream /\ parts' = <<>>
          /\ mark' = mark /\ got' = got /\ events' = events /\ half' = FALSE
          /\ torn' = TRUE /\ spoiled' = spoiled
      BY <2>4 DEF ReadTimesOut, eventVars, authVars
    <3>2. <<>> \in Seq(WireFrames)
      BY EmptySeq
    <3>3. WireShape'
      BY <2>0, <3>1, <3>2 DEF WireShape, WireFrames, Loads, NoSplicedWires
    <3> QED BY <1>2, <3>1, <3>3 DEF WireInv
  <2>5. CASE Misread
    <3>1. /\ wire' = wire /\ sent' = sent /\ parts' = parts /\ half' = half
          /\ mark' = mark /\ got' = got /\ events' = events
          /\ synced' = synced /\ ~synced
          /\ torn' = torn /\ spoiled' = spoiled
          /\ (stream' = stream \/ (stream # <<>> /\ stream' = Tail(stream)))
      BY <2>5 DEF Misread, eventVars, authVars
    <3>2. torn'
      BY <1>2, <3>1 DEF WireInv
    <3>3. half = FALSE
      BY <1>2, <3>1 DEF WireInv
    <3>4. stream' \in Seq(WireFrames) /\ \A i \in 1 .. Len(stream') : sent[stream'[i].of].wire = wire
      <4>1. CASE stream' = stream
        BY <2>0, <4>1 DEF WireShape
      <4>2. CASE stream # <<>> /\ stream' = Tail(stream)
        <5>1. stream \in Seq(WireFrames)
          BY <2>0 DEF WireShape
        <5>2. stream' \in Seq(WireFrames)
          BY <4>2, <5>1, HeadTailProperties
        <5>3. \A i \in 1 .. Len(stream') : i + 1 \in 1 .. Len(stream) /\ stream'[i] = stream[i + 1]
          BY <2>0, <4>2, TailElements
        <5> QED BY <2>0, <5>2, <5>3, ShapeFacts
      <4> QED BY <3>1, <4>1, <4>2
    <3>5. WireShape'
      BY <2>0, <3>1, <3>3, <3>4 DEF WireShape, WireFrames, Loads, NoSplicedWires
    <3> QED BY <1>2, <3>1, <3>2, <3>5 DEF WireInv
  <2>6. CASE Reconnect
    <3>1. /\ wire' = wire + 1 /\ wire < MaxWires /\ sent' = sent /\ stream' = <<>>
          /\ parts' = <<>> /\ half' = FALSE /\ mark' = NoMark /\ got' = <<>>
          /\ events' = events /\ synced' = TRUE /\ torn' = torn /\ spoiled' = spoiled
      BY <2>6 DEF Reconnect
    <3>2. wire \in 1 .. MaxWires /\ wire' \in 1 .. MaxWires /\ wire \in Nat /\ MaxWires \in Nat
      BY <2>0, <3>1, WireAssumption DEF WireShape
    <3>3. \A e \in 1 .. Len(sent) : sent[e].wire <= wire' /\ sent[e].wire # wire'
      BY <2>0, <3>1, <3>2, ShapeFacts
    <3>4. <<>> \in Seq(WireFrames) /\ Len(<<>>) = 0
      BY EmptySeq
    <3>5. WireShape'
      <4>1. stream' \in Seq(WireFrames') /\ parts' \in Seq(WireFrames')
        BY <3>1, <3>4 DEF WireFrames
      <4>2. \A i \in 1 .. Len(stream') : sent'[stream'[i].of].wire = wire'
        BY <3>1, <3>4
      <4>3. /\ events' \in Seq([of : 1 .. Len(sent'), loads : Loads'])
            /\ mark' \in (1 .. Len(sent')) \cup {NoMark}
            /\ mark' # NoMark => sent'[mark'].wire = wire'
            /\ sent' \in Seq([kind : Kinds, wire : 1 .. MaxWires, legible : BOOLEAN])
            /\ \A e \in 1 .. Len(sent') : sent'[e].wire <= wire'
        BY <2>0, <3>1, <3>2, <3>3 DEF WireShape, Loads
      <4>4. NoSplicedWires'
        BY <2>0, <3>1 DEF WireShape, NoSplicedWires
      <4> QED BY <2>0, <3>1, <3>2, <4>1, <4>2, <4>3, <4>4 DEF WireShape
    <3>6. WireGrammar'
      BY <3>1, <3>4 DEF WireGrammar
    <3>7. WireOrder => WireOrder'
      BY <3>1, <3>3, <3>4 DEF WireOrder, Own
    <3> QED BY <1>2, <3>1, <3>5, <3>6, <3>7 DEF WireInv
  <2>7. CASE UNCHANGED wireVars
    <3>1. /\ wire' = wire /\ sent' = sent /\ stream' = stream /\ parts' = parts
          /\ mark' = mark /\ got' = got /\ events' = events /\ synced' = synced
          /\ torn' = torn /\ spoiled' = spoiled /\ half' = half
      BY <2>7 DEF wireVars, frameVars, eventVars
    <3>2. WireShape'
      BY <2>0, <3>1 DEF WireShape, WireFrames, Loads, NoSplicedWires
    <3>3. WireGrammar => WireGrammar'
      BY <3>1 DEF WireGrammar, Pending
    <3>4. WireOrder => WireOrder'
      BY <3>1 DEF WireOrder, Own
    <3> QED BY <1>2, <3>1, <3>2, <3>3, <3>4 DEF WireInv
  <2> QED BY <1>2, <2>1, <2>2, <2>3, <2>4, <2>5, <2>6, <2>7 DEF WireNext, Authorizes
<1> QED BY <1>1, <1>2, PTL DEF WireSpec

LEMMA OrderedWhenWhole ==
  ASSUME WireShape, WireGrammar, WireOrder
  PROVE  InOrder
<1>1. /\ DOMAIN events = 1 .. Len(events) /\ DOMAIN sent = 1 .. Len(sent)
      /\ DOMAIN stream = 1 .. Len(stream) /\ DOMAIN parts = 1 .. Len(parts)
  BY ShapeFacts
<1>2. \A i \in 1 .. Len(events) : events[i].of \in 1 .. Len(sent)
  BY ShapeFacts
\* What is due is in the stream: the fragment and the placeholder belong to
\* its first frame.
<1>3. \A e \in 1 .. Len(sent) : e \in Due <=> \E j \in 1 .. Len(stream) : stream[j].of = e
  <2> TAKE e \in 1 .. Len(sent)
  <2>1. CASE stream = <<>>
    <3>1. parts = <<>> /\ mark = NoMark
      BY <2>1 DEF WireGrammar
    <3>2. e # NoMark
      BY ShapeFacts, WireAssumption
    <3> QED BY <1>1, <2>1, <3>1, <3>2 DEF Due
  <2>2. CASE stream # <<>>
    <3>1. 1 \in 1 .. Len(stream) /\ Pending(stream[1])
      <4>1. Len(stream) \in Nat /\ Len(stream) # 0
        BY <2>2, EmptySeq, ShapeFacts DEF WireShape
      <4> QED BY <2>2, <4>1 DEF WireGrammar
    <3>2. \A i \in 1 .. Len(parts) : parts[i].of = stream[1].of
      BY <3>1 DEF Pending
    <3>3. e # NoMark
      BY ShapeFacts, WireAssumption
    <3>4. mark = e => stream[1].of = e
      BY <3>1, <3>3 DEF Pending
    <3> QED BY <1>1, <3>1, <3>2, <3>4 DEF Due
  <2> QED BY <2>1, <2>2
<1>4. ASSUME NEW e \in 1 .. Len(sent), sent[e].wire = wire
      PROVE  e \in Dispatched <=> e \notin Due
  <2>1. e \in Dispatched <=> \E i \in 1 .. Len(events) : events[i].of = e
    BY <1>1 DEF Dispatched
  <2>2. \A i \in 1 .. Len(events), j \in 1 .. Len(stream) : events[i].of < stream[j].of
    BY DEF WireOrder
  <2>3. \A i \in 1 .. Len(events), j \in 1 .. Len(stream) : ~(events[i].of = e /\ stream[j].of = e)
    BY <1>2, <2>2
  <2> QED BY <1>3, <1>4, <2>1, <2>3 DEF WireOrder
<1> QED BY <1>1, <1>4 DEF InOrder, WireOrder

\* For any kinds of events and any number of them and of connections: what the
\* api sees is what the venue sent, in order and whole, unless a read timed out
\* inside a message or an attachment was illegible, and even then no event gets
\* an attachment of another connection (network/websocket.py recv_message,
\* brokers/quotex/client.py _on_binary).
THEOREM StreamIsFaithful == WireSpec => []Faithful
<1>1. WireInv => Faithful
  BY OrderedWhenWhole DEF WireInv, WireShape, Faithful
<1> QED BY <1>1, WireInvariance, PTL

\* Once the session frame has gone to a wire that was not authorized before,
\* a rejection heard before anything else stands: nothing authorized the wire
\* before it, and authorize() has cleared the flag already.
FirstHeard ==
  login # "dialling" /\ ~early =>
    /\ first = "none" => ~authorized
    /\ first = "reject" => faulted

\* For any events and connections, however the reader and authorize() take
\* turns: a session whose frame is answered with a rejection is not looked
\* past, unless data that came before the frame had authorized the wire
\* (brokers/quotex/client.py _got_event, authorize).
THEOREM RejectsAreHeard == WireSpec => RejectHeard
<1>1. WireInit => FirstHeard
  BY DEF WireInit, FirstHeard
<1>2. ASSUME WireShape, FirstHeard, [WireNext]_wireVars PROVE FirstHeard'
  <2>1. ASSUME NEW kind \in Kinds, Noted(kind), login' = login, early' = early
        PROVE  FirstHeard'
    BY <1>2, <2>1, WireAssumption DEF FirstHeard, Noted
  <2>2. CASE ReadPayload
    <3> DEFINE f == stream[1]
    <3>1. f = stream[1]
      OBVIOUS
    <3>2. /\ login' = login /\ early' = early
          /\ \/ UNCHANGED authVars
             \/ \E d : Completed(f, d) /\ Noted(sent[d.of].kind)
      BY <1>2, <2>2, <3>1, PayloadSteps
    <3>3. ASSUME NEW d, Completed(f, d), Noted(sent[d.of].kind)
          PROVE  FirstHeard'
      <4>1. f.of \in 1 .. Len(sent)
        <5>1. stream # <<>> /\ stream \in Seq(WireFrames)
          BY <1>2, <2>2, <3>1, PayloadSteps DEF WireShape
        <5>2. 1 \in 1 .. Len(stream)
          BY <1>2, <5>1, EmptySeq, ShapeFacts
        <5> QED BY <1>2, <5>2, ShapeFacts
      <4>2. d.of \in 1 .. Len(sent)
        BY <1>2, <3>3, <4>1 DEF Completed, WireShape
      <4>3. sent[d.of].kind \in Kinds
        BY <1>2, <4>2, ShapeFacts
      <4> QED BY <2>1, <3>2, <3>3, <4>3
    <3> QED BY <1>2, <3>2, <3>3 DEF FirstHeard, authVars
  <2>3. CASE VenueSends \/ ReadHeader \/ ReadTimesOut \/ Misread \/ UNCHANGED wireVars
    BY <1>2, <2>3 DEF VenueSends, ReadHeader, ReadTimesOut, Misread, wireVars, authVars,
                      FirstHeard
  <2>4. CASE Reconnect
    BY <2>4 DEF Reconnect, FirstHeard
  <2>5. CASE AuthorizeBegins
    BY <2>5 DEF AuthorizeBegins, FirstHeard
  <2>6. CASE AuthorizeRaises \/ AuthorizeLooks \/ AuthorizeReturns \/ AuthorizeWaits
    BY <1>2, <2>6 DEF AuthorizeRaises, AuthorizeLooks, AuthorizeReturns, AuthorizeWaits,
                      Polls, FirstHeard
  <2> QED BY <1>2, <2>2, <2>3, <2>4, <2>5, <2>6 DEF WireNext
<1>3. WireInv => WireShape
  BY DEF WireInv
<1>4. ASSUME WireShape, FirstHeard, [WireNext]_wireVars PROVE [RejectRaised]_wireVars
  <2> SUFFICES ASSUME WireNext, login = "waiting", login' = "looked"
               PROVE  first # "reject" \/ early
    BY <1>4 DEF RejectRaised
  <2>1. CASE AuthorizeLooks
    BY <1>4, <2>1 DEF AuthorizeLooks, FirstHeard
  <2>2. CASE ReadPayload
    <3> DEFINE f == stream[1]
    <3>1. f = stream[1]
      OBVIOUS
    <3> QED BY <1>4, <2>2, <3>1, PayloadSteps
  <2>3. CASE VenueSends \/ ReadHeader \/ ReadTimesOut \/ Misread
    BY <2>3 DEF VenueSends, ReadHeader, ReadTimesOut, Misread, authVars
  <2>4. CASE Reconnect \/ AuthorizeBegins \/ AuthorizeRaises \/ AuthorizeReturns
             \/ AuthorizeWaits
    BY <2>4 DEF Reconnect, AuthorizeBegins, AuthorizeRaises, AuthorizeReturns, AuthorizeWaits
  <2> QED BY <2>1, <2>2, <2>3, <2>4 DEF WireNext
<1> QED BY <1>1, <1>2, <1>3, <1>4, WireInvariance, PTL DEF WireSpec, RejectHeard

---------------------------------------------------------------------------
(* The account the book belongs to (AccountSeat). *)

\* While it boots, an engine has one session, on the wire and in the api, and
\* what the venue pushed is that account's.
BootsOnOne ==
  bootStage \notin {"down", "up"} =>
    /\ wireOf \in Holders /\ bracket = "none"
    /\ apiSeat.user \in {Nobody, wireOf}
    /\ pushed.user \in {Nobody, wireOf} /\ pushed.cash \in {Nobody, wireOf}
    /\ bootStage = "read" => cash \in {Nobody, wireOf}
    /\ bootStage = "restored" => onHold \/ owner.user = wireOf

\* An engine that is not held has pinned its owner; the file is his.
Bound ==
  bootStage \in {"restored", "up"} /\ ~onHold =>
    /\ owner \in Owners /\ cash \in {Nobody, owner.user}
    /\ bookFile # NoFile => bookFile.owner = owner

SeatInv ==
  /\ SeatTypeOK /\ BootsOnOne /\ Bound
  /\ told \in {Nobody, pushed.user}
  /\ bracket # "none" => bootStage = "up" /\ ~onHold
  /\ bookFile # NoFile => bookFile.cash \in {Nobody, bookFile.owner.user}

---------------------------------------------------------------------------

LEMMA SeatStarts == SeatInit => SeatInv
<1> SUFFICES ASSUME SeatInit PROVE SeatInv
  OBVIOUS
<1>1. SeatTypeOK
  <2>1. /\ apiSeat \in [of : Holders \cup {Nobody}, user : Holders \cup {Nobody}, demo : BOOLEAN]
        /\ pushed \in [user : Holders \cup {Nobody}, cash : Holders \cup {Nobody}]
    BY DEF SeatInit
  <2>2. bootStage \in Stages /\ seats \in 0 .. MaxSeats
    BY SeatAssumption DEF SeatInit, Stages
  <2> QED BY <2>1, <2>2 DEF SeatInit, SeatTypeOK
<1>2. BootsOnOne /\ Bound
  BY DEF SeatInit, BootsOnOne, Bound
<1> QED BY <1>1, <1>2 DEF SeatInit, SeatInv

\* Nobody is no account, so no pinned owner is the unpinned one, and a book
\* is a file.
LEMMA OwnersFacts ==
  /\ NoOwner \notin Owners /\ NoFile \notin SavedBook
  /\ \A o \in Owners : o.user \in Holders /\ o.demo \in BOOLEAN
  /\ \A b \in SavedBook : b.owner \in Owners /\ b.cash \in Holders \cup {Nobody}
                          /\ b.owner.user \in Holders
BY SeatAssumption DEF NoOwner, Owners, SavedBook

\* What is known of the account is the user id that counts.
LEMMA ScopeFacts ==
  ASSUME SeatTypeOK
  PROVE  /\ Known => Scope \in Owners /\ Scope.user = Uid /\ Uid \in Holders
         /\ Scope.demo = apiSeat.demo
         /\ pushed.user # Nobody => Uid = pushed.user
         /\ pushed.user = Nobody => Uid = apiSeat.user
<1>1. /\ apiSeat.user \in Holders \cup {Nobody} /\ apiSeat.demo \in BOOLEAN
      /\ pushed.user \in Holders \cup {Nobody}
  BY DEF SeatTypeOK
<1>2. Uid \in Holders \cup {Nobody}
  BY <1>1 DEF Uid
<1>3. Known => Uid \in Holders
  BY <1>2 DEF Known
<1> QED BY <1>1, <1>3 DEF Scope, Owners, Uid

\* A snapshot of an engine that is not held is its owner's, or holds it.
LEMMA SaveBookKeeps ==
  ASSUME SeatInv, bootStage \in {"restored", "up"}, ~onHold,
         NEW pending \in BOOLEAN, SaveBook(pending)
  PROVE  /\ onHold' \in BOOLEAN /\ bookFile' \in SavedBook \cup {NoFile}
         /\ bookFile' # NoFile => bookFile'.owner = owner
              /\ bookFile'.cash \in {Nobody, bookFile'.owner.user}
         /\ ScopeHolds => owner = Scope /\ onHold' = FALSE
         /\ ~ScopeHolds => onHold' = TRUE
<1>1. /\ owner \in Owners /\ cash \in {Nobody, owner.user} /\ cash \in Holders \cup {Nobody}
      /\ bookFile # NoFile => bookFile.owner = owner
           /\ bookFile.cash \in {Nobody, bookFile.owner.user}
      /\ bookFile \in SavedBook \cup {NoFile}
  BY DEF SeatInv, Bound, SeatTypeOK
<1>2. CASE ScopeHolds
  <2>1. owner = Scope
    BY <1>1, <1>2, OwnersFacts DEF ScopeHolds
  <2>2. bookFile' = [owner |-> owner, cash |-> cash, pending |-> pending] /\ onHold' = onHold
    BY <1>2, <2>1 DEF SaveBook
  <2>3. bookFile' \in SavedBook /\ bookFile'.owner = owner /\ bookFile'.cash = cash
    BY <1>1, <2>2 DEF SavedBook
  <2>4. onHold' = FALSE
    BY <2>2
  <2> QED BY <1>1, <1>2, <2>1, <2>3, <2>4
<1>3. CASE ~ScopeHolds
  BY <1>1, <1>3 DEF SaveBook
<1> QED BY <1>2, <1>3

---------------------------------------------------------------------------

LEMMA VenueKeepsSeat ==
  ASSUME SeatInv, VenueData \/ (\E named \in BOOLEAN : Push(named)) \/ Starve \/ Drain
  PROVE  SeatInv'
<1>0. SeatTypeOK /\ SeatTypeOK!1
  BY DEF SeatInv, SeatTypeOK
<1>1. /\ UNCHANGED <<bootStage, wireOf, seating, bookVars, orderVars>>
      /\ dataSeen' \in BOOLEAN /\ feeds' \in {"flows", "drains", "starved"}
  BY <1>0 DEF VenueData, Push, Starve, Drain, SeatTypeOK, wireState, apiVars
<1>2. \/ UNCHANGED <<apiSeat, pushed, told>>
      \/ /\ wireOf \in Holders
         /\ pushed'.user \in {Nobody, wireOf} /\ pushed'.cash = wireOf /\ told' = pushed'.user
         /\ pushed' \in [user : Holders \cup {Nobody}, cash : Holders \cup {Nobody}]
         /\ apiSeat' \in [of : Holders \cup {Nobody}, user : Holders \cup {Nobody}, demo : BOOLEAN]
         /\ apiSeat'.user \in {apiSeat.user, wireOf}
  <2>1. ASSUME NEW named \in BOOLEAN, Push(named)
        PROVE  /\ wireOf \in Holders
               /\ pushed'.user \in {Nobody, wireOf} /\ pushed'.cash = wireOf /\ told' = pushed'.user
               /\ pushed' \in [user : Holders \cup {Nobody}, cash : Holders \cup {Nobody}]
               /\ apiSeat' \in [of : Holders \cup {Nobody}, user : Holders \cup {Nobody}, demo : BOOLEAN]
               /\ apiSeat'.user \in {apiSeat.user, wireOf}
    <3>1. wireOf \in Holders
      BY <1>0, <2>1 DEF Push, Speaks, SeatTypeOK
    <3>2. pushed' = [user |-> IF named THEN wireOf ELSE Nobody, cash |-> wireOf] /\ told' = pushed'.user
      BY <2>1 DEF Push
    <3>3. apiSeat' = [apiSeat EXCEPT !.user = IF named /\ apiSeat.user = Nobody THEN wireOf ELSE apiSeat.user]
      BY <1>0, <2>1 DEF Push, SeatTypeOK
    <3> QED BY <1>0, <3>1, <3>2, <3>3 DEF SeatTypeOK
  <2> QED BY <2>1 DEF VenueData, Starve, Drain, wireState, apiVars
<1>3. SeatTypeOK'
  BY <1>0, <1>1, <1>2 DEF SeatTypeOK, seating, bookVars, orderVars
<1>4. BootsOnOne' /\ Bound'
  BY <1>1, <1>2 DEF SeatInv, BootsOnOne, Bound, bookVars, orderVars
<1> QED BY <1>1, <1>2, <1>3, <1>4 DEF SeatInv, bookVars, orderVars

\* Boot up to the reading of the cash.
LEMMA BootKeepsSeat ==
  ASSUME SeatInv,
         \/ \E h \in Holders, demo \in BOOLEAN : LiveApi(h, demo)
         \/ VerifyData \/ EnsurePurse \/ ReproveData \/ ReadCash
  PROVE  SeatInv'
<1>1. SeatTypeOK /\ BootsOnOne /\ Bound
  BY DEF SeatInv
<1>2. ASSUME NEW h \in Holders, NEW demo \in BOOLEAN, LiveApi(h, demo) PROVE SeatInv'
  <2>1. PICK user \in {Nobody, h} : apiSeat' = [of |-> h, user |-> user, demo |-> demo]
    BY <1>2 DEF LiveApi
  <2>2. /\ wireOf' = h /\ told' = Nobody /\ dataSeen' = FALSE
        /\ feeds' \in {"flows", "starved"}
        /\ pushed' = [user |-> Nobody, cash |-> Nobody]
        /\ bootStage' = "verify" /\ reseat' \in {"idle", "none"} /\ seats' = 0
        /\ owner' = NoOwner /\ onHold' = FALSE /\ cash' = Nobody /\ bracket' = "none"
        /\ sentTo' = NoOwner /\ bookFile' = bookFile
    BY <1>2 DEF LiveApi, Opened
  <2>3. SeatTypeOK'
    <3>1. /\ apiSeat' \in [of : Holders \cup {Nobody}, user : Holders \cup {Nobody}, demo : BOOLEAN]
          /\ pushed' \in [user : Holders \cup {Nobody}, cash : Holders \cup {Nobody}]
      BY <2>1, <2>2
    <3>2. bootStage' \in Stages /\ seats' \in 0 .. MaxSeats
      BY <2>2, SeatAssumption DEF Stages
    <3> QED BY <1>1, <2>2, <3>1, <3>2 DEF SeatTypeOK
  <2>4. BootsOnOne'
    BY <2>1, <2>2 DEF BootsOnOne
  <2>5. Bound'
    BY <2>2 DEF Bound
  <2> QED BY <2>2, <2>3, <2>4, <2>5 DEF SeatInv
<1>3. CASE VerifyData \/ ReproveData
  <2>1. /\ bootStage \in {"verify", "reprove"} /\ bracket = "none"
        /\ UNCHANGED <<apiSeat, dataSeen, pushed, feeds, told, reseat, seats,
                       owner, onHold, cash, bookFile, sentTo>>
        /\ bracket' = "none"
        /\ \/ bootStage' \in {"purse", "warm"} /\ wireOf' = wireOf
           \/ bootStage' = "down" /\ wireOf' = Nobody
    BY <1>1, <1>3 DEF VerifyData, ReproveData, Proven, Ends, apiVars, seating, bookVars, BootsOnOne
  <2>2. SeatTypeOK'
    BY <1>1, <2>1 DEF SeatTypeOK, Stages
  <2>3. BootsOnOne' /\ Bound'
    BY <1>1, <2>1 DEF BootsOnOne, Bound
  <2> QED BY <2>1, <2>2, <2>3 DEF SeatInv
<1>4. CASE EnsurePurse \/ ReadCash
  <2>1. /\ bootStage \in {"purse", "warm"} /\ bootStage' \in {"reprove", "read"}
        /\ UNCHANGED <<apiSeat, pushed, wireOf, feeds, told, reseat, seats,
                       owner, onHold, bookFile, bracket, sentTo>>
        /\ dataSeen' \in {FALSE, dataSeen}
        /\ cash' \in {cash, pushed.cash} /\ (bootStage' = "read" => cash' = pushed.cash)
    BY <1>4 DEF EnsurePurse, ReadCash, apiVars, wireState, seating, bookVars, orderVars
  <2>2. SeatTypeOK'
    <3>1. cash' \in Holders \cup {Nobody} /\ dataSeen' \in BOOLEAN /\ bootStage' \in Stages
      BY <1>1, <2>1 DEF SeatTypeOK, Stages
    <3> QED BY <1>1, <2>1, <3>1 DEF SeatTypeOK
  <2>3. BootsOnOne' /\ Bound'
    BY <1>1, <2>1 DEF BootsOnOne, Bound
  <2>4. bootStage # "up"
    BY <2>1
  <2> QED BY <2>1, <2>2, <2>3, <2>4 DEF SeatInv
<1> QED BY <1>2, <1>3, <1>4

\* The owner is pinned to the one account there is, and only his book serves.
LEMMA RestoreKeepsSeat ==
  ASSUME SeatInv, Restore
  PROVE  SeatInv'
<1>1. SeatTypeOK /\ BootsOnOne /\ Bound
  BY DEF SeatInv
<1>2. /\ bootStage = "read" /\ bootStage' = "restored"
      /\ owner' = IF Known THEN Scope ELSE owner
      /\ UNCHANGED <<apiSeat, dataSeen, pushed, wireOf, feeds, told, reseat, seats,
                     bookFile, bracket, sentTo>>
  BY DEF Restore, apiVars, wireState, seating, orderVars
<1>3. /\ wireOf \in Holders /\ apiSeat.user \in {Nobody, wireOf} /\ bracket = "none"
      /\ pushed.user \in {Nobody, wireOf} /\ pushed.cash \in {Nobody, wireOf}
      /\ cash \in {Nobody, wireOf}
  BY <1>1, <1>2 DEF BootsOnOne
<1>4. /\ cash' \in {cash, pushed.cash} /\ onHold' \in BOOLEAN
      /\ ~onHold' => Known /\ (bookFile # NoFile => bookFile.owner = Scope)
  <2>1. bookFile \in SavedBook \cup {NoFile}
    BY <1>1 DEF SeatTypeOK
  <2>2. bookFile # NoFile => bookFile.pending \in BOOLEAN
    BY <2>1 DEF SavedBook
  <2>3. CASE Known /\ bookFile # NoFile /\ bookFile.owner = Scope
    <3>1. \/ cash' = pushed.cash /\ onHold' \in {bookFile.pending, TRUE}
          \/ cash' = cash /\ onHold' = TRUE
      BY <2>3 DEF Restore
    <3> QED BY <2>2, <2>3, <3>1
  <2>4. CASE ~(Known /\ bookFile # NoFile /\ bookFile.owner = Scope)
    <3>1. cash' = cash /\ onHold' = (~Known \/ bookFile # NoFile)
      BY <2>4 DEF Restore
    <3> QED BY <3>1
  <2> QED BY <2>3, <2>4
<1>5. Known => Scope \in Owners /\ Scope.user = wireOf
  BY <1>1, <1>3, ScopeFacts, SeatAssumption
<1>6. SeatTypeOK'
  <2>1. owner' \in Owners \cup {NoOwner}
    BY <1>1, <1>2, <1>5 DEF SeatTypeOK
  <2>2. cash' \in Holders \cup {Nobody}
    BY <1>3, <1>4
  <2> QED BY <1>1, <1>2, <1>4, <2>1, <2>2 DEF SeatTypeOK, Stages
<1>7. BootsOnOne' /\ Bound'
  BY <1>2, <1>3, <1>4, <1>5 DEF BootsOnOne, Bound
<1> QED BY <1>1, <1>2, <1>3, <1>6, <1>7 DEF SeatInv

\* The steps that write the checkpoint.
LEMMA CommitKeepsSeat ==
  ASSUME SeatInv, FirstCommit \/ BeginOrder \/ CommitOrder \/ ShutSeat
  PROVE  SeatInv'
<1>1. /\ SeatTypeOK /\ BootsOnOne /\ Bound
      /\ bracket # "none" => bootStage = "up" /\ ~onHold
      /\ bookFile # NoFile => bookFile.cash \in {Nobody, bookFile.owner.user}
      /\ told \in {Nobody, pushed.user}
  BY DEF SeatInv
<1>2. /\ bootStage \in {"restored", "up"}
      /\ UNCHANGED <<apiSeat, dataSeen, pushed, feeds, told, reseat, seats, owner, cash, sentTo>>
      /\ \/ bootStage' = "up" /\ wireOf' = wireOf
         \/ bootStage' = "down" /\ wireOf' = Nobody /\ bracket' = "none"
      /\ bracket' = "none" \/ (bracket' = "begun" /\ bootStage' = "up" /\ ScopeHolds /\ ~onHold)
  <2>1. CASE FirstCommit
    BY <1>1, <2>1 DEF FirstCommit, apiVars, wireState, seating, orderVars, BootsOnOne
  <2>2. CASE BeginOrder
    <3>1. bracket' = "none" \/ (bracket' = "begun" /\ ScopeHolds)
      BY <2>2 DEF BeginOrder
    <3> QED BY <2>2, <3>1 DEF BeginOrder, apiVars, wireState, seating
  <2>3. CASE CommitOrder
    BY <1>1, <2>3 DEF CommitOrder, apiVars, wireState, seating
  <2>4. CASE ShutSeat
    BY <2>4 DEF ShutSeat, Ends, apiVars, seating
  <2> QED BY <2>1, <2>2, <2>3, <2>4
<1>3. \/ onHold /\ onHold' = onHold /\ bookFile' = bookFile
      \/ ~onHold /\ \E pending \in BOOLEAN : SaveBook(pending)
  BY <1>1 DEF FirstCommit, BeginOrder, CommitOrder, ShutSeat
<1>4. /\ onHold' \in BOOLEAN /\ bookFile' \in SavedBook \cup {NoFile}
      /\ bookFile' # NoFile => bookFile'.cash \in {Nobody, bookFile'.owner.user}
      /\ ~onHold' => ~onHold /\ (bookFile' # NoFile => bookFile'.owner = owner)
      /\ ScopeHolds /\ ~onHold => ~onHold'
  <2>1. CASE onHold /\ onHold' = onHold /\ bookFile' = bookFile
    BY <1>1, <2>1 DEF SeatTypeOK
  <2>2. CASE ~onHold /\ \E pending \in BOOLEAN : SaveBook(pending)
    BY <1>2, <2>2, SaveBookKeeps
  <2> QED BY <1>3, <2>1, <2>2
<1>5. SeatTypeOK'
  BY <1>1, <1>2, <1>4 DEF SeatTypeOK, Stages
<1>6. BootsOnOne'
  BY <1>2 DEF BootsOnOne
<1>7. Bound'
  BY <1>1, <1>2, <1>4 DEF Bound
<1> QED BY <1>1, <1>2, <1>4, <1>5, <1>6, <1>7 DEF SeatInv

\* What leaves the checkpoint alone once the engine is up: orders, sessions
\* that come later, an end, and the operator at rest.
LEMMA RunKeepsSeat ==
  ASSUME SeatInv,
         \/ SendOrder \/ (\E h \in Holders : SetSsid(h)) \/ CloseWire \/ OpenWire \/ Redial
         \/ (\E h \in Holders, demo \in BOOLEAN : Relink(h, demo)) \/ ProcessDies
         \/ OperatorReview
  PROVE  SeatInv'
<1>1. SeatTypeOK /\ BootsOnOne /\ Bound
  BY DEF SeatInv
<1>2. ASSUME SendOrder PROVE SeatInv'
  <2>1. /\ bracket = "begun" /\ bootStage = "up"
        /\ UNCHANGED <<bootStage, apiSeat, dataSeen, pushed, wireOf, feeds, told, reseat, seats,
                       owner, cash, bookFile>>
        /\ \/ bracket' = "sent" /\ sentTo' = [user |-> wireOf, demo |-> apiSeat.demo]
              /\ onHold' = onHold /\ wireOf # Nobody
           \/ bracket' = "none" /\ onHold' = TRUE /\ sentTo' = sentTo
    BY <1>2 DEF SendOrder, apiVars, wireState, seating, SeatInv
  <2>2. /\ apiSeat.demo \in BOOLEAN /\ wireOf \in Holders \cup {Nobody}
        /\ sentTo \in Owners \cup {NoOwner}
    BY <1>1 DEF SeatTypeOK
  <2>3. SeatTypeOK'
    <3>1. sentTo' \in Owners \cup {NoOwner} /\ bracket' \in {"none", "begun", "sent"}
          /\ onHold' \in BOOLEAN
      <4>1. wireOf # Nobody => [user |-> wireOf, demo |-> apiSeat.demo] \in Owners
        BY <2>2 DEF Owners
      <4>2. onHold \in BOOLEAN
        BY <1>1 DEF SeatTypeOK
      <4> HIDE DEF SendOrder
      <4> QED BY <2>1, <2>2, <4>1, <4>2
    <3> QED BY <1>1, <2>1, <3>1 DEF SeatTypeOK
  <2>4. BootsOnOne' /\ Bound'
    BY <1>1, <2>1 DEF BootsOnOne, Bound
  <2> QED BY <2>1, <2>3, <2>4 DEF SeatInv
<1>3. CASE ProcessDies
  <2>1. /\ bootStage' = "down" /\ wireOf' = Nobody /\ bracket' = "none"
        /\ UNCHANGED <<apiSeat, dataSeen, pushed, feeds, told, reseat, seats, owner, onHold,
                       cash, bookFile, sentTo>>
    BY <1>3 DEF ProcessDies, Ends, apiVars, seating, bookVars
  <2>2. SeatTypeOK'
    BY <1>1, <2>1 DEF SeatTypeOK, Stages
  <2> QED BY <2>1, <2>2 DEF SeatInv, BootsOnOne, Bound
<1>4. CASE OperatorReview
  <2>1. /\ bootStage = "down" /\ bookFile \in SavedBook
        /\ UNCHANGED <<bootStage, apiSeat, dataSeen, pushed, wireOf, feeds, told, reseat, seats,
                       owner, onHold, cash, bracket, sentTo>>
        /\ bookFile' \in {[bookFile EXCEPT !.pending = FALSE], NoFile}
    BY <1>1, <1>4 DEF OperatorReview, apiVars, wireState, seating, orderVars, SeatTypeOK
  <2>2. /\ bookFile' \in SavedBook \cup {NoFile}
        /\ bookFile' # NoFile => bookFile'.owner = bookFile.owner /\ bookFile'.cash = bookFile.cash
    BY <2>1 DEF SavedBook
  <2>3. SeatTypeOK'
    BY <1>1, <2>1, <2>2 DEF SeatTypeOK
  <2>4. bookFile # NoFile
    BY <2>1, OwnersFacts
  <2> QED BY <2>1, <2>2, <2>3, <2>4 DEF SeatInv, BootsOnOne, Bound
<1>5. ASSUME \/ (\E h \in Holders : SetSsid(h)) \/ CloseWire \/ OpenWire \/ Redial
             \/ (\E h \in Holders, demo \in BOOLEAN : Relink(h, demo))
      PROVE  SeatInv'
  <2>1. /\ bootStage = "up"
        /\ UNCHANGED <<bootStage, owner, onHold, cash, bookFile, bracket, sentTo>>
    BY <1>5 DEF SetSsid, CloseWire, OpenWire, Redial, Relink, bookVars, orderVars
  <2>2. BootsOnOne' /\ Bound'
    BY <1>1, <2>1 DEF BootsOnOne, Bound
  <2> DEFINE Fits == /\ wireOf' \in Holders \cup {Nobody} /\ feeds' \in {"flows", "drains", "starved"}
               /\ dataSeen' \in BOOLEAN
               /\ told' \in {Nobody, told} /\ (told' = Nobody \/ pushed' = pushed)
               /\ pushed' \in {pushed, [user |-> Nobody, cash |-> Nobody]}
               /\ reseat' \in {"none", "idle", "close", "dial"} /\ seats' \in 0 .. MaxSeats
               /\ apiSeat' \in [of : Holders \cup {Nobody}, user : Holders \cup {Nobody}, demo : BOOLEAN]
  <2>3. Fits
    <3>0. seats \in 0 .. MaxSeats /\ MaxSeats \in Nat
          /\ (seats < MaxSeats => seats + 1 \in 0 .. MaxSeats)
      BY <1>1, SeatAssumption DEF SeatTypeOK
    <3>1. ASSUME NEW h \in Holders, SetSsid(h) PROVE Fits
      BY <1>1, <3>0, <3>1 DEF SetSsid, SeatTypeOK, wireState
    <3>2. ASSUME NEW h \in Holders, NEW demo \in BOOLEAN, Relink(h, demo) PROVE Fits
      BY <1>1, <3>0, <3>2 DEF Relink, Opened, SeatTypeOK
    <3>3. CASE CloseWire \/ OpenWire \/ Redial
      BY <1>1, <3>3 DEF CloseWire, OpenWire, Redial, Opened, SeatTypeOK, wireState, apiVars, seating
    <3> QED BY <1>5, <3>1, <3>2, <3>3
  <2>4. SeatTypeOK'
    BY <1>1, <2>1, <2>3, SeatAssumption DEF SeatTypeOK
  <2>5. told' \in {Nobody, pushed'.user}
    BY <2>3 DEF SeatInv
  <2> QED BY <2>1, <2>2, <2>4, <2>5 DEF SeatInv
<1> QED BY <1>2, <1>3, <1>4, <1>5

LEMMA SeatInvariance == SeatSpec => []SeatInv
<1>1. SeatInv /\ [SeatNext]_seatVars => SeatInv'
  <2> SUFFICES ASSUME SeatInv, [SeatNext]_seatVars PROVE SeatInv'
    OBVIOUS
  <2>1. CASE UNCHANGED seatVars
    BY <2>1 DEF seatVars, apiVars, wireState, seating, bookVars, orderVars, SeatInv,
                SeatTypeOK, BootsOnOne, Bound
  <2> QED BY <2>1, VenueKeepsSeat, BootKeepsSeat, RestoreKeepsSeat, CommitKeepsSeat, RunKeepsSeat
          DEF SeatNext
<1> QED BY SeatStarts, <1>1, PTL DEF SeatSpec

\* For any accounts and any number of sessions: a checkpoint never changes
\* hands, its cash is its owner's, and nothing is begun once the venue has
\* named another account on the wire (Continuity._scope and _write, _boot).
THEOREM AccountIsHeld == SeatSpec => AccountHeld
<1>1. SeatInv /\ SeatInv' /\ [SeatNext]_seatVars => [KeepsOwner /\ BeginsOnOwn]_seatVars
  <2> SUFFICES ASSUME SeatInv, SeatInv', SeatNext PROVE KeepsOwner /\ BeginsOnOwn
    OBVIOUS
  <2>1. CASE FirstCommit \/ BeginOrder \/ CommitOrder \/ ShutSeat
    <3>1. /\ ~onHold /\ bookFile # NoFile => bookFile.owner = owner
          /\ bookFile # NoFile => bookFile.cash \in {Nobody, bookFile.owner.user}
      BY <2>1 DEF SeatInv, Bound, FirstCommit, BeginOrder, CommitOrder, ShutSeat
    <3>2. \/ bookFile' = bookFile
          \/ ~onHold /\ bootStage \in {"restored", "up"} /\ \E pending \in BOOLEAN : SaveBook(pending)
      BY <2>1 DEF SeatInv, FirstCommit, BeginOrder, CommitOrder, ShutSeat
    <3>3. KeepsOwner
      <4>1. CASE bookFile' = bookFile
        BY <3>1, <4>1 DEF KeepsOwner
      <4>2. ASSUME NEW pending \in BOOLEAN, SaveBook(pending), ~onHold, bootStage \in {"restored", "up"}
            PROVE  KeepsOwner
        BY <3>1, <4>2, SaveBookKeeps DEF KeepsOwner
      <4> QED BY <3>2, <4>1, <4>2
    <3>4. ASSUME bracket = "none", bracket' = "begun" PROVE told \in {Nobody, owner.user}
      <4>1. /\ BeginOrder /\ ScopeHolds /\ ~onHold /\ bootStage = "up"
        BY <2>1, <3>4 DEF FirstCommit, BeginOrder, CommitOrder, ShutSeat, orderVars, Ends
      <4>2. owner \in Owners /\ told \in {Nobody, pushed.user}
        BY <4>1 DEF SeatInv, Bound
      <4>3. owner = Scope /\ SeatTypeOK
        BY <4>1, <4>2, OwnersFacts DEF ScopeHolds, SeatInv
      <4> QED BY <4>1, <4>2, <4>3, ScopeFacts DEF ScopeHolds
    <3> QED BY <3>3, <3>4 DEF BeginsOnOwn
  <2>2. CASE OperatorReview
    <3>1. /\ bookFile \in SavedBook /\ bracket' = bracket
          /\ bookFile' \in {[bookFile EXCEPT !.pending = FALSE], NoFile}
      BY <2>2 DEF OperatorReview, SeatInv, SeatTypeOK, orderVars
    <3>2. bookFile' # NoFile => bookFile'.owner = bookFile.owner
      BY <3>1 DEF SavedBook
    <3> QED BY <3>1, <3>2 DEF KeepsOwner, BeginsOnOwn, SeatInv
  <2>3. CASE ~(FirstCommit \/ BeginOrder \/ CommitOrder \/ ShutSeat \/ OperatorReview)
    <3>1. bookFile' = bookFile /\ (bracket' = "begun" => bracket = "begun")
      BY <2>3 DEF SeatNext, VenueData, Push, Starve, Drain, LiveApi, Relink, VerifyData, Proven,
                  EnsurePurse, ReproveData, ReadCash, Restore, SendOrder, SetSsid, CloseWire,
                  OpenWire, Redial, ProcessDies, bookVars, orderVars, Ends
    <3> QED BY <3>1 DEF KeepsOwner, BeginsOnOwn, SeatInv
  <2> QED BY <2>1, <2>2, <2>3
<1> QED BY SeatInvariance, <1>1, PTL DEF AccountHeld, SeatSpec

=============================================================================
