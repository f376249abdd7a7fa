------------------------------ MODULE MCDesk ------------------------------
(***************************************************************************)
(* Eight parts that share no state, side by side: the venue's byte stream, *)
(* the event bus, the tape, the correlation clusters, the web terminal,    *)
(* the desktop, a pairing with Chrome and the account an engine trades on. *)
(* What one does cannot change what another can do, so in a behaviour only *)
(* one moves.                                                              *)
(***************************************************************************)
EXTENDS WireStream, EventBus, Clusters, AccountSeat, DeskWorks, TLC

CONSTANTS once1, USD, EUR, s1, old, new

Get(page) == [method |-> "GET", path |-> page, body |-> "none", cmd |-> "incomplete"]

\* A page, the two long answers, a command of two calls, and a body that no
\* handler reads.
Asked ==
  {Get("/"), Get("/api/events"), Get("/api/state"),
   [method |-> "POST", path |-> "/api/command", body |-> "object", cmd |-> "watch"],
   [Get("other") EXCEPT !.method = "PUT", !.body = "object"]}

\* The prompts, a contradiction of flags, a headless run on a password, and a
\* browser terminal with a bad and a good port.
Prompted ==
  [cmd |-> "gui", port |-> "ok", flag |-> "none", yes |-> FALSE, tty |-> TRUE,
   purse |-> "none", env |-> NoSession, login |-> FALSE]

GivenStarts ==
  {Prompted, [Prompted EXCEPT !.env = s1], [Prompted EXCEPT !.flag = "both"],
   [Prompted EXCEPT !.cmd = "run", !.flag = "real", !.yes = TRUE, !.tty = FALSE, !.login = TRUE],
   [Prompted EXCEPT !.cmd = "web", !.port = "bad"],
   [Prompted EXCEPT !.cmd = "web", !.purse = "real", !.tty = FALSE]}

\* A profile with the cookie of an earlier login and a stranger's under a
\* better name.
Held ==
  {{[name |-> 2, value |-> old, venue |-> TRUE],
    [name |-> 1, value |-> old, venue |-> FALSE]}}

VARIABLE mover

OnceTopics == once1 :> "tick"

Quotes == (1 :> USD) @@ (2 :> USD) @@ (3 :> EUR)

Init ==
  /\ WireInit /\ BusInit /\ TapeInit /\ ClusterInit
  /\ WebInit /\ DesktopInit /\ BrowserInit /\ SeatInit
  /\ mover \in {"wire", "bus", "tape", "clusters", "web", "desktop", "pairing", "account"}
  /\ mover # "desktop" => given = Prompted /\ saved.ssid = NoSession
  /\ mover # "pairing" => tokens = [tab \in Tabs |-> NoToken]

Next ==
  /\ UNCHANGED mover
  /\ \/ /\ mover = "wire" /\ WireNext
        /\ UNCHANGED <<busVars, tapeVars, clusterVars, webVars, deskVars, browserVars, seatVars>>
     \/ /\ mover = "bus" /\ BusNext
        /\ UNCHANGED <<wireVars, tapeVars, clusterVars, webVars, deskVars, browserVars, seatVars>>
     \/ /\ mover = "tape" /\ TapeNext
        /\ UNCHANGED <<wireVars, busVars, clusterVars, webVars, deskVars, browserVars, seatVars>>
     \/ /\ mover = "clusters" /\ ClusterNext
        /\ UNCHANGED <<wireVars, busVars, tapeVars, webVars, deskVars, browserVars, seatVars>>
     \/ /\ mover = "web" /\ WebNext
        /\ UNCHANGED <<wireVars, busVars, tapeVars, clusterVars, deskVars, browserVars, seatVars>>
     \/ /\ mover = "desktop" /\ DesktopNext
        /\ UNCHANGED <<wireVars, busVars, tapeVars, clusterVars, webVars, browserVars, seatVars>>
     \/ /\ mover = "pairing" /\ BrowserNext
        /\ UNCHANGED <<wireVars, busVars, tapeVars, clusterVars, webVars, deskVars, seatVars>>
     \/ /\ mover = "account" /\ SeatNext
        /\ UNCHANGED <<wireVars, busVars, tapeVars, clusterVars, webVars, deskVars, browserVars>>

Spec ==
  /\ Init
  /\ [][Next]_<<wireVars, busVars, tapeVars, clusterVars, webVars, deskVars,
              browserVars, seatVars, mover>>

===========================================================================
