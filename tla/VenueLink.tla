----------------------------- MODULE VenueLink -----------------------------
(***************************************************************************)
(* The wire to the venue and everyone who heals it: QuotexSocket with its  *)
(* reader and its pumper (brokers/quotex/client.py), QuotexAPI.connect and *)
(* close (brokers/quotex/api.py), ReconnectSupervisor.sweep                *)
(* (network/supervisor.py) on the engine thread, and _reseat_session       *)
(* (cli.py) on the serving thread.                                         *)
(*                                                                         *)
(* Each QuotexSocket object is a wire identity; an identity nobody holds   *)
(* any more stands for the next object.  api.connect() takes no lock, so   *)
(* the two callers interleave with each other and with the threads of      *)
(* every socket still alive.  The engine is armed: its loop keeps sweeping.*)
(***************************************************************************)
EXTENDS Integers, FiniteSets

CONSTANTS
  Wires,         \* QuotexSocket objects alive at a time
  NoWire,        \* api.socket is None
  Hosts,         \* the urls api.connect() tries in turn
  MaxHeals,      \* QuotexSocket.reconnect_max
  MaxAttempts,   \* ReconnectSupervisor.max_attempts
  MaxFaults,     \* bound: connections the network or the venue kills
  MaxReseats     \* bound: sessions paired while the engine runs

ASSUME LinkAssumption ==
  /\ NoWire \notin Wires /\ Wires # {}
  /\ Hosts \in Nat \ {0} /\ MaxHeals \in Nat \ {0} /\ MaxAttempts \in Nat \ {0}
  /\ MaxFaults \in Nat /\ MaxReseats \in Nat

VARIABLES
  link,      \* the sockets: threads, flags, and the connection each one has
  service,   \* api.socket
  session,   \* api.session: the session new sockets are built with
  dead,      \* sessions the venue no longer accepts
  at,        \* where each caller is in api.connect(); "idle": outside
  mine,      \* the socket each caller is connecting
  host,      \* the url each caller is trying
  seen,      \* supervisor._seen_up
  attempts,  \* supervisor._attempts
  givenUp,   \* supervisor._given_up
  resting,   \* now < supervisor._next_try
  faults,    \* history: connections killed so far
  reseats,   \* history: sessions paired so far
  overlap    \* history: two api.connect() calls were in progress at once

callVars  == <<at, mine, host>>
sweepVars == <<seen, attempts, givenUp, resting>>
pastVars  == <<faults, reseats, overlap>>
vars == <<link, service, session, dead, callVars, sweepVars, pastVars>>

\* The engine thread (supervisor.sweep) and the serving thread (re-seat).
Callers  == {"loop", "main"}
Sessions == 0 .. MaxReseats
HealSteps == {"idle", "wait", "dial", "shake", "auth", "hook"}
CallSteps == {"idle", "close", "forget", "dial", "shake", "auth", "adopt",
              "replay"}

\* A socket: _running; the connection (none, up, cut but unnoticed, closed);
\* _connected; was_connected; the pumper; a reader on this connection; the
\* reconnect loop, its attempts and its lock; its session; the subscriptions
\* reached this connection.
Sockets == [run : BOOLEAN, net : {"none", "up", "cut", "closed"},
            shown : BOOLEAN, was : BOOLEAN, beat : BOOLEAN, reads : BOOLEAN,
            heal : HealSteps, tries : 0 .. MaxHeals, sess : Sessions,
            fed : BOOLEAN]

Unused == [run |-> FALSE, net |-> "none", shown |-> FALSE, was |-> FALSE,
           beat |-> FALSE, reads |-> FALSE, heal |-> "idle", tries |-> 0,
           sess |-> 0, fed |-> FALSE]

\* No thread and no variable holds this socket.
Retired(w) == /\ ~link[w].run /\ ~link[w].reads /\ link[w].heal = "idle"
              /\ service # w /\ \A c \in Callers : mine[c] # w

\* QuotexSocket.connected: flagged, with a connection not seen to be closed.
Shown(w) == link[w].shown /\ link[w].net \in {"up", "cut"}

\* QuotexAPI.connected.
Connected == service # NoWire /\ Shown(service)

\* A reader that still delivers frames into the api's one dispatcher.
Dispatching(w) == link[w].reads /\ link[w].net = "up"

---------------------------------------------------------------------------
(* QuotexAPI.connect, called by sweep and by the re-seat. *)

Become(c, step) == at' = [at EXCEPT ![c] = step]

\* Entering connect(): a socket in place is closed first.
Enter(c) ==
  /\ Become(c, IF service # NoWire THEN "close" ELSE "dial")
  /\ host' = [host EXCEPT ![c] = 1]
  /\ overlap' = (overlap \/ \E d \in Callers \ {c} : at[d] # "idle")
  /\ UNCHANGED mine

\* QuotexSocket.disconnect: threads told to stop, connection closed if there
\* is one; a reconnect attempt between two connections is not stopped here.
Disconnected(w) ==
  [link[w] EXCEPT !.run = FALSE, !.shown = FALSE, !.reads = FALSE,
                  !.net = IF @ = "none" THEN @ ELSE "closed"]

\* Seeded fault: the old socket is dropped without being disconnected.
DropOld(c) ==
  /\ at[c] = "close"
  /\ Become(c, "forget")
  /\ UNCHANGED <<link, service, session, dead, mine, host, sweepVars, pastVars>>

\* close(): disconnect, unless another caller dropped the socket meanwhile.
CloseOld(c) ==
  /\ at[c] = "close"
  /\ Become(c, "forget")
  /\ IF service = NoWire THEN UNCHANGED link
     ELSE link' = [link EXCEPT ![service] = Disconnected(service)]
  /\ UNCHANGED <<service, session, dead, mine, host, sweepVars, pastVars>>

\* ... and its finally clause, up to four seconds of joins later.
Forget(c) ==
  /\ at[c] = "forget"
  /\ service' = NoWire
  /\ Become(c, "dial")
  /\ UNCHANGED <<link, session, dead, mine, host, sweepVars, pastVars>>

\* A socket on the session of this moment; the connection is opened and the
\* reader started, or the host does not answer.
Dial(c) ==
  /\ at[c] = "dial" /\ mine[c] = NoWire
  /\ \E w \in Wires : Retired(w)
  /\ LET w == CHOOSE w \in Wires : Retired(w)
     IN /\ mine' = [mine EXCEPT ![c] = w]
        /\ link' = [link EXCEPT ![w] =
             [Unused EXCEPT !.run = TRUE, !.net = "up", !.reads = TRUE,
                            !.sess = session]]
        /\ Become(c, "shake")
  /\ UNCHANGED <<service, session, dead, host, sweepVars, pastVars>>

\* Seeded fault: a failed connect is not counted against the cap.
RaisedUncounted(c) ==
  /\ Become(c, "idle")
  /\ mine' = [mine EXCEPT ![c] = NoWire]
  /\ IF c = "loop" THEN resting' = TRUE /\ UNCHANGED <<seen, attempts, givenUp>>
     ELSE UNCHANGED sweepVars

\* connect() raises.  The supervisor counts, rests, and may give up; the
\* re-seat reports the error.
Raised(c) ==
  /\ Become(c, "idle")
  /\ mine' = [mine EXCEPT ![c] = NoWire]
  /\ IF c = "loop"
     THEN /\ attempts' = attempts + 1 /\ resting' = TRUE
          /\ givenUp' = (attempts + 1 >= MaxAttempts)
          /\ UNCHANGED seen
     ELSE UNCHANGED sweepVars

\* The attempt on this host is over: the next host, or none is left.
Failed(c) ==
  IF host[c] < Hosts
  THEN /\ host' = [host EXCEPT ![c] = @ + 1]
       /\ mine' = [mine EXCEPT ![c] = NoWire]
       /\ Become(c, "dial")
       /\ UNCHANGED sweepVars
  ELSE Raised(c) /\ UNCHANGED host

DialFails(c) ==
  /\ at[c] = "dial" /\ mine[c] = NoWire
  /\ Failed(c)
  /\ UNCHANGED <<link, service, session, dead, pastVars>>

\* The engine.io open frame arrived: the namespace is requested and the flag
\* set before the session is authorized.
Shake(c) ==
  /\ at[c] = "shake" /\ link[mine[c]].net = "up"
  /\ link' = [link EXCEPT ![mine[c]].shown = TRUE]
  /\ Become(c, "auth")
  /\ UNCHANGED <<service, session, dead, mine, host, sweepVars, pastVars>>

\* The reader died, nothing answered in time, or the send failed.
ShakeFails(c) ==
  /\ at[c] = "shake"
  /\ link' = [link EXCEPT ![mine[c]] = Disconnected(mine[c])]
  /\ Failed(c)
  /\ UNCHANGED <<service, session, dead, pastVars>>

\* authorize() returns: acknowledged, or quiet for its whole window, even if
\* the connection died and the reader heals it behind this call.
Authorize(c) ==
  /\ at[c] = "auth"
  /\ link' = [link EXCEPT ![mine[c]].was = TRUE, ![mine[c]].beat = TRUE]
  /\ Become(c, "adopt")
  /\ UNCHANGED <<service, session, dead, mine, host, sweepVars, pastVars>>

\* BrokerAuthError: final, no other host is asked.
Rejected(c) ==
  /\ at[c] = "auth" /\ link[mine[c]].sess \in dead
  /\ link' = [link EXCEPT ![mine[c]] = Disconnected(mine[c])]
  /\ Raised(c)
  /\ UNCHANGED <<service, session, dead, host, pastVars>>

\* The wire died before the authorization frame or during the wait.
AuthFails(c) ==
  /\ at[c] = "auth" /\ link[mine[c]].net # "up"
  /\ link' = [link EXCEPT ![mine[c]] = Disconnected(mine[c])]
  /\ Failed(c)
  /\ UNCHANGED <<service, session, dead, pastVars>>

Adopt(c) ==
  /\ at[c] = "adopt"
  /\ service' = mine[c]
  /\ mine' = [mine EXCEPT ![c] = NoWire]
  /\ Become(c, "replay")
  /\ UNCHANGED <<link, session, dead, host, sweepVars, pastVars>>

\* The session bootstrap and every subscription, sent to the socket that is
\* in service now; a send that fails is logged and skipped.
Replayed == IF service = NoWire THEN link
            ELSE [link EXCEPT ![service].fed = @ \/ link[service].net = "up"]

Replay(c) ==
  /\ at[c] = "replay"
  /\ link' = Replayed
  /\ Become(c, "idle")
  /\ IF c = "loop"
     THEN attempts' = 0 /\ resting' = FALSE /\ UNCHANGED <<seen, givenUp>>
     ELSE UNCHANGED sweepVars
  /\ UNCHANGED <<service, session, dead, mine, host, pastVars>>

---------------------------------------------------------------------------
(* ReconnectSupervisor.sweep, once a lap of the engine loop. *)

\* Up: everything is forgotten; the engine's resubscribe hook asks for the
\* instruments only.
SweepUp ==
  /\ at["loop"] = "idle" /\ Connected
  /\ ~seen \/ attempts # 0 \/ givenUp \/ resting
  /\ seen' = TRUE
  /\ attempts' = 0 /\ givenUp' = FALSE /\ resting' = FALSE
  /\ UNCHANGED <<link, service, session, dead, callVars, pastVars>>

\* Down, seen up before, not given up and past the backoff: connect().
SweepDown ==
  /\ at["loop"] = "idle" /\ ~Connected /\ seen /\ ~givenUp /\ ~resting
  /\ Enter("loop")
  /\ UNCHANGED <<link, service, session, dead, sweepVars, faults, reseats>>

BackoffOver ==
  /\ resting /\ resting' = FALSE
  /\ UNCHANGED <<link, service, session, dead, callVars, seen, attempts,
                 givenUp, pastVars>>

\* _reseat_session: set_ssid, then connect() on this thread.
Reseat ==
  /\ at["main"] = "idle" /\ reseats < MaxReseats
  /\ reseats' = reseats + 1
  /\ session' = reseats + 1
  /\ Enter("main")
  /\ UNCHANGED <<link, service, dead, sweepVars, faults>>

---------------------------------------------------------------------------
(* The threads of a socket. *)

\* The namespace answer: it latches was_connected, maybe before connect() or
\* the reconnect is done.
NamespaceUp(w) ==
  /\ Dispatching(w) /\ link[w].run
  /\ \/ link[w].heal = "auth"
     \/ link[w].heal = "idle" /\ \E c \in Callers : mine[c] = w /\ at[c] = "auth"
  /\ link' = [link EXCEPT ![w].shown = TRUE, ![w].was = TRUE]
  /\ UNCHANGED <<service, session, dead, callVars, sweepVars, pastVars>>

\* The reader's receive fails: it clears the flag, and if the wire was live
\* and nobody heals it yet, reconnects it.
ReaderHeals(w) ==
  /\ link[w].reads /\ link[w].net \in {"cut", "closed"}
  /\ link' = [link EXCEPT ![w].reads = FALSE, ![w].shown = FALSE,
       ![w].net = "closed",
       ![w].heal = IF link[w].run /\ link[w].was /\ @ = "idle" THEN "wait"
                   ELSE @]
  /\ UNCHANGED <<service, session, dead, callVars, sweepVars, pastVars>>

\* A send had already marked the connection closed, or the socket was told
\* to stop: the reader leaves without a word.
ReaderLeaves(w) ==
  /\ link[w].reads /\ (link[w].net = "closed" \/ ~link[w].run)
  /\ link' = [link EXCEPT ![w].reads = FALSE]
  /\ UNCHANGED <<service, session, dead, callVars, sweepVars, pastVars>>

\* A send on a cut connection fails and marks it closed.
SendFails(w) ==
  /\ link[w].net = "cut" /\ link[w].shown
  /\ link' = [link EXCEPT ![w].net = "closed"]
  /\ UNCHANGED <<service, session, dead, callVars, sweepVars, pastVars>>

\* The pumper's probe or heartbeat fails, or its probe goes unanswered.
PumperHeals(w) ==
  /\ link[w].beat /\ link[w].run /\ link[w].heal = "idle"
  /\ link[w].net # "up"
  /\ link' = [link EXCEPT ![w].heal = "wait"]
  /\ UNCHANGED <<service, session, dead, callVars, sweepVars, pastVars>>

\* The budget is spent: the socket is dead.
HealOver(w) ==
  /\ link[w].heal = "wait" /\ (~link[w].run \/ link[w].tries = MaxHeals)
  /\ link' = [link EXCEPT ![w].heal = "idle", ![w].tries = 0, ![w].run = FALSE]
  /\ UNCHANGED <<service, session, dead, callVars, sweepVars, pastVars>>

\* After the backoff: the old connection is retired before the dial.
HealBegin(w) ==
  /\ link[w].heal = "wait" /\ link[w].run /\ link[w].tries < MaxHeals
  /\ link' = [link EXCEPT ![w].heal = "dial", ![w].tries = @ + 1,
                          ![w].net = "none", ![w].reads = FALSE]
  /\ UNCHANGED <<service, session, dead, callVars, sweepVars, pastVars>>

\* A new connection under a new generation: readers of older ones leave, and
\* a reader started on a stopped socket leaves at once.
HealDial(w) ==
  /\ link[w].heal = "dial"
  /\ \/ link' = [link EXCEPT ![w].heal = "shake", ![w].net = "up",
                   ![w].shown = FALSE, ![w].reads = link[w].run,
                   ![w].fed = FALSE]
     \/ link' = [link EXCEPT ![w].heal = "wait"]
  /\ UNCHANGED <<service, session, dead, callVars, sweepVars, pastVars>>

HealShake(w) ==
  /\ link[w].heal = "shake"
  /\ \/ /\ link[w].run /\ Dispatching(w)
        /\ link' = [link EXCEPT ![w].heal = "auth"]
     \/ link' = [link EXCEPT ![w].heal = IF link[w].run THEN "wait" ELSE "idle"]
  /\ UNCHANGED <<service, session, dead, callVars, sweepVars, pastVars>>

\* authorize(5.0), then the flag; a rejection stops the socket for good.
HealAuth(w) ==
  /\ link[w].heal = "auth"
  /\ \/ link' = [link EXCEPT ![w].heal = "hook", ![w].shown = TRUE,
                             ![w].was = TRUE]
     \/ /\ link[w].net # "up"
        /\ link' = [link EXCEPT ![w].heal = "wait", ![w].net = "closed"]
     \/ /\ link[w].sess \in dead
        /\ link' = [link EXCEPT ![w].heal = "idle", ![w].tries = 0,
                                ![w].run = FALSE]
  /\ UNCHANGED <<service, session, dead, callVars, sweepVars, pastVars>>

\* Seeded fault: a reconnect does not call the api's hook.
HealHookSkipped(w) ==
  /\ link[w].heal = "hook"
  /\ link' = [link EXCEPT ![w].heal = "idle", ![w].tries = 0]
  /\ UNCHANGED <<service, session, dead, callVars, sweepVars, pastVars>>

\* The api's _on_reconnected replays into the socket in service, then the
\* reconnect lock is released.
HealHook(w) ==
  /\ link[w].heal = "hook"
  /\ link' = [Replayed EXCEPT ![w].heal = "idle", ![w].tries = 0]
  /\ UNCHANGED <<service, session, dead, callVars, sweepVars, pastVars>>

---------------------------------------------------------------------------
(* The network and the venue. *)

Cut(w) ==
  /\ faults < MaxFaults /\ link[w].net = "up"
  /\ faults' = faults + 1
  /\ link' = [link EXCEPT ![w].net = "cut"]
  /\ UNCHANGED <<service, session, dead, callVars, sweepVars, reseats, overlap>>

SessionDies ==
  /\ \E s \in 0 .. session : s \notin dead /\ dead' = dead \cup {s}
  /\ UNCHANGED <<link, service, session, callVars, sweepVars, pastVars>>

---------------------------------------------------------------------------

\* Boot has connected, verified the data and subscribed; no sweep has run.
Init ==
  /\ LET w == CHOOSE w \in Wires : TRUE
     IN /\ service = w
       /\ link = [v \in Wires |-> IF v # w THEN Unused ELSE
            [Unused EXCEPT !.run = TRUE, !.net = "up", !.shown = TRUE,
                           !.was = TRUE, !.beat = TRUE, !.reads = TRUE,
                           !.fed = TRUE]]
  /\ session = 0 /\ dead = {}
  /\ at = [c \in Callers |-> "idle"] /\ mine = [c \in Callers |-> NoWire]
  /\ host = [c \in Callers |-> 1]
  /\ seen = FALSE /\ attempts = 0 /\ givenUp = FALSE /\ resting = FALSE
  /\ faults = 0 /\ reseats = 0 /\ overlap = FALSE

Connecting(c) == CloseOld(c) \/ Forget(c) \/ Dial(c) \/ DialFails(c) \/ Shake(c)
                 \/ ShakeFails(c) \/ Authorize(c) \/ Rejected(c) \/ AuthFails(c)
                 \/ Adopt(c) \/ Replay(c)
Sweeping == SweepUp \/ SweepDown \/ BackoffOver
Reading(w) == ReaderHeals(w) \/ ReaderLeaves(w)
Healing(w) == HealOver(w) \/ HealBegin(w) \/ HealDial(w) \/ HealShake(w)
              \/ HealAuth(w) \/ HealHook(w)

Next == (\E c \in Callers : Connecting(c)) \/ Sweeping \/ Reseat
        \/ (\E w \in Wires : NamespaceUp(w) \/ Reading(w) \/ SendFails(w)
                             \/ PumperHeals(w) \/ Healing(w) \/ Cut(w))
        \/ SessionDies

Spec == Init /\ [][Next]_vars

\* Every thread keeps running: a caller inside connect(), the engine loop and
\* its clock, and each socket's reader, pumper and reconnect loop.
Fairness ==
  /\ \A c \in Callers : WF_vars(Connecting(c))
  /\ WF_vars(SweepUp) /\ WF_vars(SweepDown) /\ WF_vars(BackoffOver)
  /\ \A w \in Wires : WF_vars(Reading(w)) /\ WF_vars(PumperHeals(w))
                      /\ WF_vars(Healing(w))

FairSpec == Spec /\ Fairness

---------------------------------------------------------------------------
(* Properties. *)

\* Types; in particular no reconnect loop outruns its budget.
TypeOK ==
  /\ link \in [Wires -> Sockets]
  /\ service \in Wires \cup {NoWire} /\ session \in Sessions
  /\ dead \subseteq Sessions
  /\ at \in [Callers -> CallSteps] /\ mine \in [Callers -> Wires \cup {NoWire}]
  /\ host \in [Callers -> 1 .. Hosts]
  /\ seen \in BOOLEAN /\ attempts \in Nat /\ givenUp \in BOOLEAN /\ resting \in BOOLEAN
  /\ faults \in 0 .. MaxFaults /\ reseats \in 0 .. MaxReseats
  /\ overlap \in BOOLEAN

\* Nobody is connecting or reconnecting.
Quiet == /\ \A c \in Callers : at[c] = "idle"
         /\ \A w \in Wires : link[w].heal = "idle"

\* One socket at most feeds the api's dispatcher.
OneReader == \A v, w \in Wires : Dispatching(v) /\ Dispatching(w) => v = w

\* The wire in service runs on the session that was set last.
Seated == Connected /\ Quiet => link[service].sess = session

\* Drops, rejections, both reconnect loops, host fallback and re-seats never
\* leave a second reader or a wire on an older session, unless two connect()
\* calls of the two threads were in progress at once.
OneOwner == overlap \/ (OneReader /\ Seated)

\* Whoever reconnected, a running wire that is shown as connected has its
\* subscriptions: no path to "connected" leaves the stream silent.
StreamRestored ==
  Connected /\ Quiet /\ link[service].run /\ link[service].net = "up"
    => link[service].fed

\* Frames of the subscribed assets reach the api.
Flowing == service # NoWire /\ Dispatching(service) /\ link[service].fed

\* However drops, silences, failed dials, both reconnect loops and a re-seat
\* interleave, the stream comes back, or the supervisor has given up loudly,
\* or the session needs a human.  A supervisor that never saw the link up
\* stands by.
LinkHeals == []<>(Flowing \/ givenUp \/ session \in dead \/ ~seen)

\* What api.py says of connect(): a double connect replaces the old wire and
\* leaves no ghost socket behind.
OneWire == Quiet => OneReader

\* What client.py says of authorize(): a session the venue rejected is raised
\* and never masquerades as a live login.  A rejection stops the socket, so a
\* stopped socket is not shown as connected.
NoMasquerade == Connected => link[service].run

===========================================================================
