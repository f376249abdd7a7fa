------------------------------ MODULE Desktop ------------------------------
(***************************************************************************)
(* The desktop and the headless command (cli.py, gui/app.py, panels.py,    *)
(* session_gate.py, pairing.py): from the choice of a purse to an engine   *)
(* in service, the pairing window when no session will do, and the LINK    *)
(* pane that puts another venue session under an engine that may be live.  *)
(*                                                                         *)
(* Tk runs one callback at a time; a pairing worker's report is posted to  *)
(* it and dropped with its window.  The engine's loop runs beside both and *)
(* trades through oms.broker.  The browser terminal is Terminal and        *)
(* WebDesk: here it ends where _run_web begins.                            *)
(***************************************************************************)
EXTENDS Integers, Sequences

CONSTANTS
  Sessions,     \* venue sessions
  NoSession,    \* the empty ssid, and the empty jar
  NoWork,       \* no pairing worker
  Given,        \* command lines and settings to start from
  MaxLinks,     \* bound on the connections a process makes
  MaxOpen       \* bound on the open contracts of each

Purses == {"practice", "real"}
Unchosen == "none"

\* flag: --demo, --real or both; tty: stdin is a terminal; purse: the
\* configured one; env: QX_SSID; login: user name and password are configured.
Starts ==
  [cmd : {"gui", "web", "run"}, port : {"ok", "bad"},
   flag : Purses \cup {Unchosen, "both"}, yes : BOOLEAN, tty : BOOLEAN,
   purse : Purses \cup {Unchosen}, env : Sessions \cup {NoSession},
   login : BOOLEAN]

ASSUME DesktopAssumption ==
  /\ Given \subseteq Starts /\ NoSession \notin Sessions

VARIABLES
  given,     \* how the process was started
  stage,     \* where its main thread is
  exit,      \* its exit status
  cfg,       \* cfg.broker: ssid and demo_account
  saved,     \* qx_session.json: ssid and its jar of cookies
  allowed,   \* the live confirmation was given
  radio,     \* the purse picked in the window on the screen
  pairing,   \* the window's _pairing
  worker,    \* the thread of run_pairing, by the purse it closes over
  due,       \* its report, posted to Tk
  pick,      \* history: the purse of the last choice made
  wires,     \* the connections made, each with its broker
  blind,     \* engine.degraded
  seat,      \* engine.broker, and with it what shutdown closes
  oms,       \* oms.broker
  feed,      \* the connection the feed and the supervisor were built on
  watched,   \* supervisor._seen_up
  linking,   \* the step of _connect that comes next, its session and purse
  loop,      \* the engine loop: "off", "idle" (disarmed) or "live"
  settings   \* is the configuration valid: in memory and on file

askVars    == <<given, cfg, saved, allowed>>
windowVars == <<radio, pairing, worker, due, pick>>
engineVars == <<wires, blind, seat, oms, feed, watched, linking, loop>>
deskVars   == <<stage, exit, askVars, windowVars, engineVars, settings>>

---------------------------------------------------------------------------
(* The command line. *)

Running == -1
SafetyHold == 78
Traceback == 1

End(status) == stage' = "ended" /\ exit' = status

\* Both purses, or a port no socket takes, is a usage error before anything
\* is asked.
ReadArguments ==
  /\ stage = "arguments"
  /\ IF given.flag = "both" \/ (given.cmd = "web" /\ given.port = "bad")
       THEN End(2) ELSE stage' = "purse" /\ UNCHANGED exit
  /\ UNCHANGED <<askVars, windowVars, engineVars, settings>>

\* What _resolve_purse may come to: flags, configuration, then the prompt.
\* End of file or any other answer is no choice.
PursesResolved ==
  CASE given.flag \in Purses -> {given.flag}
    [] given.flag \notin Purses /\ cfg.purse # Unchosen -> {cfg.purse}
    [] OTHER -> IF given.tty THEN Purses \cup {Unchosen} ELSE {Unchosen}

ResolvePurse ==
  /\ stage = "purse"
  /\ \E p \in PursesResolved :
       /\ cfg' = [cfg EXCEPT !.purse = IF p = Unchosen THEN @ ELSE p]
       /\ pick' = p
       /\ IF p = Unchosen THEN End(SafetyHold)
                          ELSE stage' = "confirm" /\ UNCHANGED exit
  /\ UNCHANGED <<given, saved, allowed, radio, pairing, worker, due, engineVars, settings>>

\* _confirm_live: --yes, the typed sentence, another one, or no answer.
ConfirmLive ==
  /\ stage = "confirm"
  /\ \/ /\ allowed' = TRUE /\ UNCHANGED exit
        /\ stage' = IF given.cmd = "web" THEN "browser" ELSE "build"
     \/ /\ ~given.yes /\ UNCHANGED allowed
        /\ \E status \in {1, SafetyHold} : End(status)
  /\ UNCHANGED <<given, cfg, saved, windowVars, engineVars, settings>>

\* Ctrl+C and SIGTERM: a headless run stops what it has and ends well.
Interrupt ==
  /\ stage \in {"purse", "confirm", "build", "headless"}
  /\ End(IF given.cmd = "run" THEN 0 ELSE 130)
  /\ wires' = IF stage = "headless" THEN [wires EXCEPT ![seat].up = FALSE] ELSE wires
  /\ loop' = "off"
  /\ UNCHANGED <<askVars, windowVars, blind, seat, oms, feed, watched, linking, settings>>

---------------------------------------------------------------------------
(* Building the engine. *)

\* _resolve_session: the jar comes with the saved session only, for nothing
\* sets cfg.broker.cookies here.
SessionResolved ==
  CASE cfg.ssid # NoSession -> [ssid |-> cfg.ssid, jar |-> NoSession]
    [] cfg.ssid = NoSession /\ given.env # NoSession ->
         [ssid |-> given.env, jar |-> NoSession]
    [] OTHER -> saved

Wire(session, p, tuned, open) ==
  [ssid |-> session.ssid, jar |-> session.jar, purse |-> p, tuned |-> tuned,
   up |-> TRUE, open |-> open, pick |-> pick]

\* _live_api and boot in one step, no one else is awake: without a session and
\* without a password there is nothing to connect; the venue or the state
\* files may refuse, a feed without candles only blinds the engine.
BuildEngine(session, open) ==
  /\ stage = "build" /\ Len(wires) < MaxLinks
  /\ wires' = Append(wires, Wire(session, cfg.purse, TRUE, open))
  /\ blind' \in BOOLEAN
  /\ seat' = Len(wires) + 1 /\ oms' = Len(wires) + 1 /\ feed' = Len(wires) + 1
  /\ stage' = IF given.cmd = "gui" THEN "app" ELSE "headless"
  /\ radio' = Unchosen /\ pairing' = FALSE
  /\ UNCHANGED <<exit, askVars, worker, due, pick, watched, linking, loop, settings>>

BuildOn ==
  \E open \in 0 .. MaxOpen :
    \/ SessionResolved.ssid # NoSession /\ BuildEngine(SessionResolved, open)
    \/ /\ SessionResolved.ssid = NoSession /\ given.login
       /\ \E s \in Sessions : BuildEngine([ssid |-> s, jar |-> s], open)

\* _session_trouble: the desktop opens its pairing window with the purse that
\* is configured; a headless run holds, or lets the venue's error through.
BuildTrouble(missing) ==
  /\ stage = "build"
  /\ missing => SessionResolved.ssid = NoSession /\ ~given.login
  /\ ~missing => SessionResolved.ssid # NoSession \/ given.login
  /\ IF given.cmd = "gui"
       THEN /\ stage' = "gate" /\ radio' = cfg.purse /\ pairing' = FALSE
            /\ UNCHANGED exit
       ELSE /\ End(IF missing THEN SafetyHold ELSE Traceback)
            /\ UNCHANGED <<radio, pairing>>
  /\ UNCHANGED <<askVars, worker, due, pick, engineVars, settings>>

\* The state files refuse: no pairing helps.
StateTrouble ==
  /\ stage = "build" /\ (SessionResolved.ssid # NoSession \/ given.login)
  /\ End(IF given.cmd = "gui" THEN Traceback ELSE SafetyHold)
  /\ UNCHANGED <<askVars, windowVars, engineVars, settings>>

\* cmd_run: a blind engine is never armed; arm may raise.
HeadlessArms ==
  /\ stage = "headless" /\ loop = "off"
  /\ \/ /\ ~blind /\ loop' = "live" /\ UNCHANGED <<stage, exit, wires>>
     \/ /\ End(SafetyHold) /\ UNCHANGED loop
        /\ wires' = [wires EXCEPT ![seat].up = FALSE]
  /\ UNCHANGED <<askVars, windowVars, blind, seat, oms, feed, watched, linking, settings>>

\* The kill of a headless engine is seen within five seconds.
HeadlessHolds ==
  /\ stage = "headless" /\ loop = "live"
  /\ End(SafetyHold) /\ loop' = "off"
  /\ wires' = [wires EXCEPT ![seat].up = FALSE]
  /\ UNCHANGED <<askVars, windowVars, blind, seat, oms, feed, watched, linking, settings>>

---------------------------------------------------------------------------
(* Pairing: the window of the gate and the LINK pane work alike. *)

Panes == {"gate", "app"}

Idle == stage \in Panes /\ linking.at = "none"

PickRadio(p) ==
  /\ Idle /\ radio' = p
  /\ UNCHANGED <<stage, exit, askVars, pairing, worker, due, pick, engineVars, settings>>

\* _login: refused while a pairing runs, without a purse, or by pairing_form.
ClickLogin ==
  /\ Idle /\ ~pairing /\ radio \in Purses
  /\ pairing' = TRUE /\ worker' = radio /\ pick' = radio
  /\ UNCHANGED <<stage, exit, askVars, radio, due, engineVars, settings>>

\* pair_session on the worker thread: a session is saved and reported, or a
\* failure, or a session that could not be saved, which is one as well.
WorkerReports ==
  /\ worker # NoWork /\ worker' = NoWork
  /\ \/ \E s \in Sessions :
          /\ saved' = [ssid |-> s, jar |-> s]
          /\ due' = IF stage \in Panes THEN Append(due, [ssid |-> s, purse |-> worker]) ELSE due
     \/ /\ UNCHANGED saved
        /\ due' = IF stage \in Panes
                    THEN Append(due, [ssid |-> NoSession, purse |-> worker]) ELSE due
  /\ UNCHANGED <<stage, exit, given, cfg, allowed, radio, pairing, pick, engineVars, settings>>

\* _done: the window passes session and purse on and is destroyed.
GateDone ==
  /\ stage = "gate" /\ due # <<>> /\ Head(due).ssid # NoSession
  /\ pairing' = FALSE /\ due' = <<>> /\ stage' = "build"
  /\ cfg' = Head(due)
  /\ UNCHANGED <<exit, given, saved, allowed, radio, worker, pick, engineVars, settings>>

\* _failed and _login_failed.
PairingFailed ==
  /\ Idle /\ due # <<>> /\ Head(due).ssid = NoSession
  /\ pairing' = FALSE /\ due' = Tail(due)
  /\ UNCHANGED <<stage, exit, askVars, radio, worker, pick, engineVars, settings>>

QuitGate ==
  /\ stage = "gate" /\ End(1) /\ due' = <<>>
  /\ UNCHANGED <<askVars, radio, pairing, worker, pick, engineVars, settings>>

---------------------------------------------------------------------------
(* The desktop: its LINK pane, its engine and its settings. *)

Link(s, p) == linking' = [at |-> "api", ssid |-> s, purse |-> p]

\* CONNECT with a pasted session.
ClickConnect(s) ==
  /\ stage = "app" /\ Idle /\ ~pairing /\ radio \in Purses
  /\ pick' = radio /\ Link(s, radio)
  /\ UNCHANGED <<stage, exit, askVars, radio, pairing, worker, due,
                 wires, blind, seat, oms, feed, watched, loop, settings>>

\* Seeded fault: the purse picked in the pane by the time Chrome answers.
LoginDoneRadio ==
  /\ stage = "app" /\ Idle /\ due # <<>> /\ Head(due).ssid # NoSession
  /\ pairing' = FALSE /\ due' = Tail(due)
  /\ Link(Head(due).ssid, radio)
  /\ UNCHANGED <<stage, exit, askVars, radio, worker, pick,
                 wires, blind, seat, oms, feed, watched, loop, settings>>

\* _login_done: the purse is the one the attempt began with.
LoginDone ==
  /\ stage = "app" /\ Idle /\ due # <<>> /\ Head(due).ssid # NoSession
  /\ pairing' = FALSE /\ due' = Tail(due)
  /\ Link(Head(due).ssid, Head(due).purse)
  /\ UNCHANGED <<stage, exit, askVars, radio, worker, pick,
                 wires, blind, seat, oms, feed, watched, loop, settings>>

LinkStep(from, to) ==
  linking.at = from /\ linking' = [linking EXCEPT !.at = to]

linkKept == <<stage, exit, askVars, windowVars, blind, feed, watched, loop, settings>>

\* _connect, statement by statement while the loop runs.  Any of them may
\* raise: the handler shows the reason and undoes nothing.
LinkApi ==
  /\ Len(wires) < MaxLinks
  /\ \/ /\ LinkStep("api", "close")
        /\ wires' = Append(wires,
             Wire([ssid |-> linking.ssid, jar |-> NoSession], linking.purse, FALSE, 0))
     \/ LinkStep("api", "none") /\ UNCHANGED wires
  /\ UNCHANGED <<linkKept, seat, oms>>

LinkClose ==
  /\ LinkStep("close", "seat")
  /\ wires' = [wires EXCEPT ![seat].up = FALSE]
  /\ UNCHANGED <<linkKept, seat, oms>>

LinkSeat ==
  /\ LinkStep("seat", "open") /\ seat' = Len(wires)
  /\ UNCHANGED <<linkKept, wires, oms>>

\* The new broker adopts what the venue reports as open.
LinkOpen ==
  /\ \/ /\ LinkStep("open", "oms")
        /\ \E open \in 0 .. MaxOpen : wires' = [wires EXCEPT ![seat].open = open]
     \/ LinkStep("open", "none") /\ UNCHANGED wires
  /\ UNCHANGED <<linkKept, seat, oms>>

LinkOms ==
  /\ LinkStep("oms", "none") /\ oms' = seat
  /\ UNCHANGED <<linkKept, wires, seat>>

\* _command: arm may be refused; disarm leaves the loop running, kill ends it.
Command(to) ==
  /\ stage = "app" /\ Idle
  /\ loop' = IF to = "idle" /\ loop = "off" THEN "off" ELSE to
  /\ UNCHANGED <<stage, exit, askVars, windowVars, wires, blind, seat, oms,
                 feed, watched, linking, settings>>

\* An order and a settlement of the loop, on the connection the OMS has.
LoopOrders ==
  /\ loop = "live" /\ wires[oms].up /\ wires[oms].open < MaxOpen
  /\ wires' = [wires EXCEPT ![oms].open = @ + 1]
  /\ UNCHANGED <<stage, exit, askVars, windowVars, blind, seat, oms, feed,
                 watched, linking, loop, settings>>

LoopSettles ==
  /\ loop # "off" /\ wires[oms].open > 0
  /\ wires' = [wires EXCEPT ![oms].open = @ - 1]
  /\ UNCHANGED <<stage, exit, askVars, windowVars, blind, seat, oms, feed,
                 watched, linking, loop, settings>>

\* The loop's sweep: the supervisor reconnects what it has seen up, be it
\* closed on purpose; the try may fail.
SupervisorSweeps ==
  /\ loop # "off" /\ (wires[feed].up \/ watched)
  /\ watched' = TRUE
  /\ wires' = [wires EXCEPT ![feed].up = TRUE]
  /\ UNCHANGED <<stage, exit, askVars, windowVars, blind, seat, oms, feed,
                 linking, loop, settings>>

\* _save_config: fields are assigned as they convert; the file is written
\* only when all of them did and the whole validates, and a write that fails
\* has already emptied it.
SaveConfig ==
  /\ stage = "app" /\ Idle
  /\ \/ \E live \in {"valid", "invalid"} : settings' = [settings EXCEPT !.live = live]
     \/ \E file \in {"valid", "torn"} :
          settings' = [live |-> "valid", file |-> file]
  /\ UNCHANGED <<stage, exit, askVars, windowVars, engineVars>>

\* The window is closed: shutdown joins the loop and closes engine.broker.
CloseApp ==
  /\ stage = "app" /\ Idle /\ End(0) /\ loop' = "off" /\ due' = <<>>
  /\ wires' = [wires EXCEPT ![seat].up = FALSE]
  /\ UNCHANGED <<askVars, radio, pairing, worker, pick, blind, seat, oms, feed,
                 watched, linking, settings>>

---------------------------------------------------------------------------

DesktopInit ==
  /\ given \in Given /\ stage = "arguments" /\ exit = Running
  /\ cfg = [ssid |-> NoSession, purse |-> given.purse]
  /\ saved \in {[ssid |-> s, jar |-> s] : s \in Sessions \cup {NoSession}}
  /\ allowed = FALSE /\ radio = Unchosen /\ pairing = FALSE
  /\ worker = NoWork /\ due = <<>> /\ pick = Unchosen
  /\ wires = <<>> /\ blind = FALSE /\ seat = 0 /\ oms = 0 /\ feed = 0 /\ watched = FALSE
  /\ linking = [at |-> "none", ssid |-> NoSession, purse |-> Unchosen]
  /\ loop = "off" /\ settings = [live |-> "valid", file |-> "valid"]

DesktopNext ==
  \/ ReadArguments \/ ResolvePurse \/ ConfirmLive \/ Interrupt
  \/ BuildOn \/ (\E missing \in BOOLEAN : BuildTrouble(missing)) \/ StateTrouble
  \/ HeadlessArms \/ HeadlessHolds
  \/ (\E p \in Purses : PickRadio(p)) \/ ClickLogin \/ WorkerReports
  \/ GateDone \/ PairingFailed \/ QuitGate
  \/ (\E s \in Sessions : ClickConnect(s)) \/ LoginDone
  \/ LinkApi \/ LinkClose \/ LinkSeat \/ LinkOpen \/ LinkOms
  \/ (\E to \in {"off", "idle", "live"} : Command(to))
  \/ LoopOrders \/ LoopSettles \/ SupervisorSweeps \/ SaveConfig \/ CloseApp

DesktopSpec == DesktopInit /\ [][DesktopNext]_deskVars

---------------------------------------------------------------------------
(* Properties. *)

DesktopTypeOK ==
  /\ given \in Starts /\ exit \in Int 
  /\ {allowed, blind, watched} \subseteq BOOLEAN
  /\ stage \in {"arguments", "purse", "confirm", "build", "gate", "app", "headless",
                "browser", "ended"}
  /\ cfg \in [ssid : Sessions \cup {NoSession}, purse : Purses \cup {Unchosen}]
  /\ saved \in [ssid : Sessions \cup {NoSession}, jar : Sessions \cup {NoSession}]
  /\ radio \in Purses \cup {Unchosen} /\ pick \in Purses \cup {Unchosen}
  /\ pairing \in BOOLEAN /\ worker \in Purses \cup {NoWork}
  /\ due \in Seq([ssid : Sessions \cup {NoSession}, purse : Purses])
  /\ wires \in Seq([ssid : Sessions, jar : Sessions \cup {NoSession},
                    purse : Purses, tuned : BOOLEAN, up : BOOLEAN,
                    open : 0 .. MaxOpen, pick : Purses])
  /\ seat \in 0 .. Len(wires) /\ oms \in 0 .. Len(wires) /\ feed \in 0 .. Len(wires)
  /\ linking \in [at : {"none", "api", "close", "seat", "open", "oms"},
                  ssid : Sessions \cup {NoSession}, purse : Purses \cup {Unchosen}]
  /\ loop \in {"off", "idle", "live"}
  /\ settings \in [live : {"valid", "invalid"}, file : {"valid", "torn"}]

\* A window has one pairing at a time: the worker or its one report.
OnePairing ==
  /\ Len(due) <= 1 /\ (due # <<>> => worker = NoWork)
  /\ stage \in Panes /\ (worker # NoWork \/ due # <<>>) => pairing

\* A connection has the purse the operator chose last, on the command line or
\* with the click (_login, _connect) whose session it carries, whatever was
\* picked in the window while Chrome was open.
WiresAsPicked == \A i \in 1..Len(wires) : wires[i].purse = wires[i].pick

\* Nothing is connected before the confirmation (_confirm_live), and a
\* headless engine without candles is never armed (cmd_run).
NothingUnasked ==
  /\ wires # <<>> => allowed
  /\ given.cmd = "run" /\ loop = "live" => ~blind

\* What is connected is engine.broker's, the one the supervisor watches, or
\* the successor _connect is about to install; and nothing before the engine
\* was built or after shutdown, but for a watched connection that is not
\* engine.broker's.
WiresAccounted ==
  \A i \in 1..Len(wires) :
    wires[i].up =>
      \/ stage \in {"app", "headless"} /\ i \in {seat, feed}
      \/ stage = "app" /\ i = Len(wires) /\ linking.at \in {"close", "seat"}
      \/ stage = "ended" /\ i = feed /\ feed # seat

\* What the desktop and the headless command promise.
DesktopServes == OnePairing /\ WiresAsPicked /\ NothingUnasked /\ WiresAccounted

\* The OMS trades and settles on the engine's connection, and no other holds
\* contracts: TLC refutes it (README), _connect asks neither whether the engine
\* is live nor whether contracts are open, and a step that raises leaves oms
\* on the closed connection.
BookKept ==
  stage = "app" /\ linking.at = "none" =>
    /\ oms = seat
    /\ \A i \in 1..Len(wires) : wires[i].open > 0 => i = seat

\* A re-pair replaces the wire and forks no second one (api.py, connect): TLC
\* refutes it (README), the supervisor revives the connection _connect closed.
OneWireUp ==
  linking.at = "none" =>
    \A i, j \in 1..Len(wires) : wires[i].up /\ wires[j].up => i = j

\* The feed and the supervisor are on the engine's connection: TLC refutes it
\* (README), _connect replaces the broker only.
FeedFollows == stage = "app" /\ linking.at = "none" => feed = seat

\* A connection carries the jar its session was paired with and the configured
\* pacing: TLC refutes it (README), for the gate and for _connect.
WiresAlike == \A i \in 1..Len(wires) : wires[i].jar = wires[i].ssid /\ wires[i].tuned

\* What runs is valid configuration: TLC refutes it (README), _save_config
\* assigns before it validates.
SettingsValid == settings.live = "valid"

===========================================================================
