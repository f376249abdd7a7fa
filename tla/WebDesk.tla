------------------------------ MODULE WebDesk ------------------------------
(***************************************************************************)
(* The browser terminal's server (web/server.py): a handler thread per     *)
(* connection routes requests, runs commands on the engine in service and  *)
(* writes the event stream; threads of the engine broadcast to the queues  *)
(* of the open streams.                                                    *)
(*                                                                         *)
(* hub.engine is replaced by the serving thread of cli.py (Terminal) while *)
(* handlers run, under no lock.  Payloads, wording and HTTP headers other  *)
(* than Content-Length are left out.                                       *)
(***************************************************************************)
EXTENDS Integers, Sequences, FiniteSets

CONSTANTS
  Conns,        \* connections: a handler thread each
  Threads,      \* threads that publish on the bus
  Services,     \* engines that can come into service
  Sent,         \* the requests that clients send
  Unpaired,     \* hub.engine is None
  Offered,      \* BOOLEAN: hub.pairing is set
  QueueLimit,   \* 500: maxsize of a stream's queue
  KeepLines,    \* 400: log lines kept
  StateReads,   \* how often state() reads hub.engine
  LastCast      \* bound on the broadcasts

VARIABLES
  hub,          \* hub.engine
  logs,         \* _log_lines: the broadcasts they came with
  listed,       \* _SUBSCRIBERS: the connections whose queues are on the list
  queue,        \* the queue of each
  streamed,     \* history: the last broadcast of a thread each stream has written
  casts,        \* broadcasts under way
  issued,       \* history: the broadcasts so far
  at,           \* where the handler of each connection is
  request,      \* the request it handles
  using,        \* the engine its command runs on
  calls,        \* calls its command has left
  made,         \* history: the calls this request has made
  shown,        \* the engines its state answer was read from
  code,         \* the status of its last answer
  stray,        \* what is on the wire and belongs to no message
  away          \* connections whose client has hung up

hubVars == <<logs, listed, queue, streamed, casts, issued>>
jobVars == <<request, using, calls, made, shown, code>>
webVars == <<hub, hubVars, at, jobVars, stray, away>>

---------------------------------------------------------------------------
(* Requests. *)

Pages == {"/", "/static/present", "/static/absent", "/static/..", "/api/state",
          "/api/logs", "/api/candles", "/api/events", "/api/pair/status",
          "/api/strategies", "/api/montecarlo", "/api/calendar"}

\* The engine calls of each command, in order.  alerts only reads, and one that
\* is incomplete (no asset, no position, an unknown strategy) makes none.
CallsOf ==
  [arm |-> <<"arm">>, disarm |-> <<"disarm">>, kill |-> <<"kill">>,
   clear_kill |-> <<"clear_kill">>, trade |-> <<"inject_signal">>,
   watch |-> <<"adopt_asset", "candles_for">>,
   close |-> <<"close_position", "note", "alert">>,
   news |-> <<"flag_news">>, lockdown |-> <<"engage_lockdown", "save">>,
   unlock |-> <<"clear_lockdown", "save">>,
   strategy |-> <<"enable", "save", "note">>, incomplete |-> <<>>]

Commands == DOMAIN CallsOf

Calls ==
  {"arm", "disarm", "kill", "clear_kill", "inject_signal", "adopt_asset",
   "candles_for", "close_position", "note", "alert", "flag_news",
   "engage_lockdown", "clear_lockdown", "save", "enable"}

\* Notes, alerts, flags and save_operator_state never raise.
MayFail == {"arm", "disarm", "kill", "clear_kill", "inject_signal",
            "adopt_asset", "candles_for", "close_position"}

Requests ==
  [method : {"GET", "HEAD", "OPTIONS", "PUT"}, path : Pages \cup {"other"},
   body : {"none", "object"}, cmd : {"incomplete"}]
  \cup
  [method : {"POST"}, path : {"/api/command", "/api/pair/start", "/api/pair/cancel", "other"},
   body : {"none", "object", "bad_length", "bad_json", "no_object"}, cmd : Commands]

ASSUME WebAssumption == Sent \subseteq Requests /\ Unpaired \notin Services

\* Only _post reads a body, and not one whose length it cannot read.
Unread(r) ==
  r.body # "none" /\ (r.method # "POST" \/ r.body = "bad_length")

\* 204 is answered with a body, which a client that knows its HTTP leaves.
Leftover(r) ==
  (IF Unread(r) THEN {"request"} ELSE {})
  \cup (IF r.method = "OPTIONS" THEN {"response"} ELSE {})

PostCode(r) ==
  CASE r.body \in {"bad_length", "bad_json", "no_object"} -> 400
    [] r.path = "/api/command" -> 200
    [] r.path \in {"/api/pair/start", "/api/pair/cancel"} ->
         IF Offered THEN 200 ELSE 409
    [] OTHER -> 404

\* montecarlo, candles: a number no integer holds is not caught.
GetCodes(r) ==
  CASE r.path = "/static/.." -> {403}
    [] r.path \in {"/static/absent", "other"} -> {404}
    [] r.path \in {"/api/montecarlo", "/api/candles"} -> {200, 500}
    [] OTHER -> {200}

Codes(r) ==
  CASE r.method \in {"GET", "HEAD"} -> GetCodes(r)
    [] r.method = "POST" -> {PostCode(r)}
    [] r.method = "OPTIONS" -> {204}
    [] OTHER -> {405}

IsGet(r, page) == r.method \in {"GET", "HEAD"} /\ r.path = page

IsCommand(r) ==
  /\ r.method = "POST" /\ r.path = "/api/command"
  /\ r.body \in {"none", "object"}

---------------------------------------------------------------------------
(* The hub: events of the bus go to the streams' queues. *)

Cast == [id : Nat, by : Threads]

LastLines(lines) ==
  IF Len(lines) > KeepLines THEN SubSeq(lines, Len(lines) - KeepLines + 1, Len(lines))
                            ELSE lines

\* broadcast: a copy of the list under its lock, the puts after it.  A log
\* record is kept first.
Broadcast(t, isLog) ==
  /\ issued < LastCast
  /\ \A x \in casts : x.by # t
  /\ issued' = issued + 1
  /\ casts' = casts \cup {[id |-> issued + 1, by |-> t, rest |-> listed]}
  /\ logs' = IF isLog THEN LastLines(Append(logs, issued + 1)) ELSE logs
  /\ UNCHANGED <<hub, listed, queue, streamed, at, jobVars, stray, away>>

\* put_nowait: what a full queue cannot take is lost, and nobody is told.
Put(x, c) ==
  /\ x \in casts /\ c \in x.rest
  /\ casts' = (casts \ {x}) \cup {[x EXCEPT !.rest = @ \ {c}]}
  /\ queue' = [queue EXCEPT ![c] =
       IF Len(@) < QueueLimit THEN Append(@, [id |-> x.id, by |-> x.by]) ELSE @]
  /\ UNCHANGED <<hub, logs, listed, streamed, issued, at, jobVars, stray, away>>

CastEnds(x) ==
  /\ x \in casts /\ x.rest = {}
  /\ casts' = casts \ {x}
  /\ UNCHANGED <<hub, logs, listed, queue, streamed, issued, at, jobVars, stray, away>>

\* The serving thread puts another engine in service; there is no way back to
\* none.
Adopt(e) ==
  /\ hub' = e
  /\ UNCHANGED <<hubVars, at, jobVars, stray, away>>

---------------------------------------------------------------------------
(* A handler: one request at a time on a connection that is kept alive. *)

Goto(c, where) == at' = [at EXCEPT ![c] = where]

\* What is left of an earlier body is read as the request line: 400, closed.
MisreadBody(c) ==
  /\ at[c] = "idle" /\ "request" \in stray[c]
  /\ Goto(c, "closed") /\ code' = [code EXCEPT ![c] = 400]
  /\ UNCHANGED <<hub, hubVars, request, using, calls, made, shown, stray, away>>

\* _route: three kinds of requests take more than one step.
Begins(r) ==
  CASE IsGet(r, "/api/events") -> "opening"
    [] IsGet(r, "/api/state") -> "state"
    [] IsCommand(r) -> "command"
    [] OTHER -> "answer"

Route(c, r) ==
  /\ at[c] = "idle" /\ c \notin away /\ "request" \notin stray[c]
  /\ request' = [request EXCEPT ![c] = r]
  /\ made' = [made EXCEPT ![c] = <<>>] /\ shown' = [shown EXCEPT ![c] = <<>>]
  /\ Goto(c, Begins(r))
  /\ UNCHANGED <<hub, hubVars, using, calls, code, stray, away>>

\* _send; a client that hung up is passed over and the connection ends.
Reply(c, status) ==
  /\ code' = [code EXCEPT ![c] = status]
  /\ stray' = [stray EXCEPT ![c] = @ \cup Leftover(request[c])]
  /\ Goto(c, IF c \in away THEN "closed" ELSE "idle")

Answer(c) ==
  /\ at[c] = "answer"
  /\ \E status \in Codes(request[c]) : Reply(c, status)
  /\ UNCHANGED <<hub, hubVars, request, using, calls, made, shown, away>>

\* state: without an engine the pairing page; with one, read after read of
\* hub.engine.
ReadState(c) ==
  /\ at[c] = "state"
  /\ IF hub = Unpaired \/ Len(shown[c]) = StateReads
       THEN Reply(c, 200) /\ UNCHANGED shown
       ELSE /\ shown' = [shown EXCEPT ![c] = Append(@, hub)]
            /\ UNCHANGED <<at, code, stray>>
  /\ UNCHANGED <<hub, hubVars, request, using, calls, made, away>>

\* command: the engine is read once.
TakeCommand(c) ==
  /\ at[c] = "command"
  /\ IF hub = Unpaired
       THEN Reply(c, 200) /\ UNCHANGED <<using, calls>>
       ELSE /\ using' = [using EXCEPT ![c] = hub]
            /\ calls' = [calls EXCEPT ![c] = CallsOf[request[c].cmd]]
            /\ Goto(c, "running") /\ UNCHANGED <<code, stray>>
  /\ UNCHANGED <<hub, hubVars, request, made, shown, away>>

\* A call that raises, or that the engine refuses, ends the command.
MakeCall(c) ==
  /\ at[c] = "running" /\ calls[c] # <<>>
  /\ made' = [made EXCEPT ![c] = Append(@, [engine |-> using[c], call |-> Head(calls[c])])]
  /\ \/ /\ calls' = [calls EXCEPT ![c] = Tail(@)]
        /\ UNCHANGED <<at, code, stray>>
     \/ /\ Head(calls[c]) \in MayFail
        /\ calls' = [calls EXCEPT ![c] = <<>>] /\ Reply(c, 200)
  /\ UNCHANGED <<hub, hubVars, request, using, shown, away>>

CommandDone(c) ==
  /\ at[c] = "running" /\ calls[c] = <<>> /\ Reply(c, 200)
  /\ UNCHANGED <<hub, hubVars, request, using, calls, made, shown, away>>

---------------------------------------------------------------------------
(* The event stream. *)

\* _sse: the queue is on the list before the headers are written.
OpenStream(c) ==
  /\ at[c] = "opening" /\ Goto(c, "headers")
  /\ listed' = listed \cup {c}
  /\ UNCHANGED <<hub, logs, queue, streamed, casts, issued, jobVars, stray, away>>

\* The headers are written before the try that takes the queue off again.
SendHeaders(c) ==
  /\ at[c] = "headers"
  /\ Goto(c, IF c \in away THEN "lost" ELSE "stream")
  /\ UNCHANGED <<hub, hubVars, jobVars, stray, away>>

StreamOut(c) ==
  /\ at[c] = "stream" /\ c \notin away /\ queue[c] # <<>>
  /\ queue' = [queue EXCEPT ![c] = Tail(@)]
  /\ streamed' = [streamed EXCEPT ![c][Head(queue[c]).by] = Head(queue[c]).id]
  /\ UNCHANGED <<hub, logs, listed, casts, issued, at, jobVars, stray, away>>

\* The next event or keep-alive finds the client gone.
StreamEnds(c) ==
  /\ at[c] = "stream" /\ c \in away /\ Goto(c, "closed")
  /\ listed' = listed \ {c}
  /\ UNCHANGED <<hub, logs, queue, streamed, casts, issued, jobVars, stray, away>>

HangUp(c) ==
  /\ c \notin away /\ away' = away \cup {c}
  /\ at' = IF at[c] = "idle" THEN [at EXCEPT ![c] = "closed"] ELSE at
  /\ UNCHANGED <<hub, hubVars, jobVars, stray>>

---------------------------------------------------------------------------

WebInit ==
  /\ hub = Unpaired /\ logs = <<>> /\ listed = {} /\ casts = {} /\ issued = 0
  /\ queue = [c \in Conns |-> <<>>]
  /\ streamed = [c \in Conns |-> [t \in Threads |-> 0]]
  /\ at = [c \in Conns |-> "idle"]
  /\ request \in [Conns -> {r \in Sent : IsGet(r, "/")}]
  /\ using = [c \in Conns |-> Unpaired] /\ calls = [c \in Conns |-> <<>>]
  /\ made = [c \in Conns |-> <<>>] /\ shown = [c \in Conns |-> <<>>]
  /\ code = [c \in Conns |-> 200] /\ stray = [c \in Conns |-> {}] /\ away = {}

Handle(c) ==
  \/ MisreadBody(c) \/ (\E r \in Sent : Route(c, r)) \/ Answer(c)
  \/ ReadState(c) \/ TakeCommand(c) \/ MakeCall(c) \/ CommandDone(c)
  \/ OpenStream(c) \/ SendHeaders(c) \/ StreamOut(c) \/ StreamEnds(c)

WebNext ==
  \/ \E t \in Threads, isLog \in BOOLEAN : Broadcast(t, isLog)
  \/ \E x \in casts : CastEnds(x) \/ \E c \in Conns : Put(x, c)
  \/ \E e \in Services : Adopt(e)
  \/ \E c \in Conns : Handle(c) \/ HangUp(c)

WebSpec == WebInit /\ [][WebNext]_webVars

---------------------------------------------------------------------------
(* Properties. *)

WebTypeOK ==
  /\ hub \in Services \cup {Unpaired}
  /\ logs \in Seq(Nat) /\ issued \in Nat
  /\ listed \subseteq Conns /\ away \subseteq Conns
  /\ queue \in [Conns -> Seq(Cast)] /\ streamed \in [Conns -> [Threads -> Nat]]
  /\ casts \subseteq [id : Nat, by : Threads, rest : SUBSET Conns]
  /\ at \in [Conns -> {"idle", "answer", "state", "command", "running",
                       "opening", "headers", "stream", "lost", "closed"}]
  /\ request \in [Conns -> Requests]
  /\ using \in [Conns -> Services \cup {Unpaired}] /\ calls \in [Conns -> Seq(Calls)]
  /\ made \in [Conns -> Seq([engine : Services \cup {Unpaired}, call : Calls])]
  /\ shown \in [Conns -> Seq(Services)]
  /\ code \in [Conns -> Nat] /\ stray \in [Conns -> SUBSET {"request", "response"}]

\* What was written and what waits in a queue (queue.Queue and broadcast) is in
\* the order its thread broadcast it, nothing twice.
StreamsInOrder ==
  \A c \in Conns :
    /\ \A i \in 1..Len(queue[c]) : queue[c][i].id > streamed[c][queue[c][i].by]
    /\ \A i, j \in 1..Len(queue[c]) :
         i < j /\ queue[c][i].by = queue[c][j].by => queue[c][i].id < queue[c][j].id

\* A stream that is being written gets every broadcast, and a queue stays on
\* the list (_SUBSCRIBERS) after its connection only when the client hung up
\* before the headers.
StreamsListed ==
  \A c \in Conns :
    /\ at[c] \in {"headers", "stream"} => c \in listed
    /\ c \in listed => at[c] \in {"headers", "stream", "lost"}

\* The calls made are the first of the command, the ones left are the rest.
UnderWay(whole, begun, left) ==
  /\ Len(begun) + Len(left) = Len(whole)
  /\ \A i \in 1..Len(begun) : begun[i].call = whole[i]
  /\ \A i \in 1..Len(left) : left[i] = whole[Len(begun) + i]

\* A command makes its calls in order, all of them on the engine it read when
\* it began, and a terminal with no engine makes none.
CommandsWhole ==
  \A c \in Conns :
    /\ \A i \in 1..Len(made[c]) : made[c][i].engine = using[c] /\ using[c] # Unpaired
    /\ made[c] # <<>> => IsCommand(request[c])
    /\ at[c] = "running" => UnderWay(CallsOf[request[c].cmd], made[c], calls[c])

\* What the console promises of its streams and its commands.
ConsoleServes == StreamsInOrder /\ StreamsListed /\ CommandsWhole

\* A stream's queue goes with its connection: TLC refutes it (README), a client
\* that hangs up before the headers leaves its queue on the list for good.
StreamsEnd == \A c \in listed : at[c] # "lost"

\* A state answer describes one engine: TLC refutes it (README), the engine can
\* be replaced between two reads of hub.engine.
OneEngineShown ==
  \A c \in Conns : \A i, j \in 1..Len(shown[c]) : shown[c][i] = shown[c][j]

\* A command reaches the engine in service: TLC refutes it (README), a kill can
\* reach the engine that an adoption has just retired, and be answered ok.
CommandsReachService ==
  [][\A c \in Conns : made'[c] # made[c] /\ made'[c] # <<>> => using[c] = hub]_webVars

\* A connection that is kept alive stays in step: TLC refutes it (README), a
\* body that is not read and the body of a 204 stay on the wire.
KeepAliveInStep == \A c \in Conns : at[c] = "idle" => stray[c] = {}

===========================================================================
