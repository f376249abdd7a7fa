------------------------------ MODULE Terminal ------------------------------
(***************************************************************************)
(* The browser terminal around the engine (cli.py, web/pairing.py, the     *)
(* lease of statestore.py): an operator pairs a venue session in Chrome, a *)
(* worker thread per attempt hands the cookie over, and the serving thread *)
(* boots an engine on it or re-seats the one in service.                   *)
(*                                                                         *)
(* Three kinds of threads: request handlers (Start, Cancel) run under the  *)
(* controller's lock; workers take that lock for single steps only; the    *)
(* serving thread shares the configuration and the queue with the workers  *)
(* under no lock at all.  An attempt also stands for the cookie it brings, *)
(* ssid and jar together.                                                  *)
(***************************************************************************)
EXTENDS Integers, Sequences

CONSTANTS
  Attempts,  \* pairing attempts, and the cookies they bring
  Saved,     \* the session found at start: --ssid, QX_SSID, the file, or none
  NoCookie,
  NoEngine,
  Purses,    \* practice and real
  NoPurse    \* none chosen yet

ASSUME CookiesAssumption ==
  Saved \notin Attempts /\ NoCookie \notin Attempts /\ NoCookie # Saved

Cookies == Attempts \cup {Saved}

\* An engine: the cookie whose adoption built it, the session and purse of its
\* api, and what _needs_rebuild asks.
Engines ==
  [from : Attempts \cup {NoCookie}, ssid : Cookies, purse : Purses,
   degraded : BOOLEAN, hold : {"none", "identity", "other"},
   live : BOOLEAN, open : BOOLEAN]

ASSUME EnginesAssumption == NoEngine \notin Engines

VARIABLES
  phase,     \* controller._state
  epoch,     \* controller._epoch
  purse,     \* controller._purse: of the attempt started last
  error,     \* controller._error: who refused, "none" for the empty string
  at,        \* where the worker of each attempt is
  since,     \* the epoch each worker was started in
  handing,   \* the purse each worker passes to on_ready
  cfg,       \* cfg.broker.ssid and cfg.broker.demo_account
  pending,   \* cookies queued for the serving thread
  serve,     \* where the serving thread is
  cookie,    \* the cookie it adopts; none in the first boot
  build,     \* what the engine under construction has read from cfg
  hub,       \* hub.engine, the engine in service
  lease,     \* which engine holds the lock of the checkpoint file
  durable    \* continuity_path is set

controller == <<phase, epoch, purse, error>>
workers    == <<at, since, handing>>
serving    == <<serve, cookie, build, hub, lease>>
vars       == <<controller, workers, cfg, pending, serving, durable>>

---------------------------------------------------------------------------
(* The controller's operations, one lock section each. *)

Waiting == phase = "waiting"

\* Seeded fault: the worker is given the epoch before the bump.
StartStale(a, p) ==
  /\ ~Waiting /\ at[a] = "unborn"
  /\ phase' = "waiting" /\ error' = "none" /\ purse' = p
  /\ epoch' = epoch + 1
  /\ since' = [since EXCEPT ![a] = epoch]
  /\ at' = [at EXCEPT ![a] = "chrome"]
  /\ UNCHANGED <<handing, cfg, pending, serving>>

\* start: one attempt at a time; Chrome opens on a worker thread.
Start(a, p) ==
  /\ ~Waiting /\ at[a] = "unborn"
  /\ phase' = "waiting" /\ error' = "none" /\ purse' = p
  /\ epoch' = epoch + 1
  /\ since' = [since EXCEPT ![a] = epoch + 1]
  /\ at' = [at EXCEPT ![a] = "chrome"]
  /\ UNCHANGED <<handing, cfg, pending, serving>>

\* cancel: the worker is left running, its epoch is over.
Cancel ==
  /\ Waiting
  /\ phase' = "idle" /\ epoch' = epoch + 1
  /\ UNCHANGED <<purse, error, workers, cfg, pending, serving>>

\* note_error, called by the serving thread.
NoteError(why) ==
  /\ phase' = "failed" /\ error' = why /\ epoch' = epoch + 1
  /\ UNCHANGED purse

---------------------------------------------------------------------------
(* The worker: Chrome returns, then _done or _failed, step by step. *)

Live(a) == since[a] = epoch

Goto(a, where) == at' = [at EXCEPT ![a] = where]

\* Seeded fault: a window closed without a cookie is no one's failure.
LandSilent(a) ==
  /\ at[a] = "chrome"
  /\ \E outcome \in {"landed", "gone"} :
       Goto(a, IF Live(a) THEN outcome ELSE "gone")
  /\ UNCHANGED <<controller, since, handing, cfg, pending, serving>>

\* _live is asked once, and its lock released, before anything is done.
Land(a) ==
  /\ at[a] = "chrome"
  /\ \E outcome \in {"landed", "failing"} :
       Goto(a, IF Live(a) THEN outcome ELSE "gone")
  /\ UNCHANGED <<controller, since, handing, cfg, pending, serving>>

\* A timeout, an exception or a window closed without a cookie.
ReportFailure(a) ==
  /\ at[a] = "failing" /\ Goto(a, "gone")
  /\ phase' = "failed" /\ error' = "pairing"
  /\ UNCHANGED <<epoch, purse, since, handing, cfg, pending, serving>>

ReadPurse(a) ==
  /\ at[a] = "landed" /\ Goto(a, "session")
  /\ handing' = [handing EXCEPT ![a] = purse]
  /\ UNCHANGED <<controller, since, cfg, pending, serving>>

\* _on_ready of _run_web: cfg first, field by field, then the queue.
WriteSession(a) ==
  /\ at[a] = "session" /\ Goto(a, "purse")
  /\ cfg' = [cfg EXCEPT !.ssid = a]
  /\ UNCHANGED <<controller, since, handing, pending, serving>>

WritePurse(a) ==
  /\ at[a] = "purse" /\ Goto(a, "queue")
  /\ cfg' = [cfg EXCEPT !.purse = handing[a]]
  /\ UNCHANGED <<controller, since, handing, pending, serving>>

Queue(a) ==
  /\ at[a] = "queue" /\ Goto(a, "ready")
  /\ pending' = Append(pending, a)
  /\ UNCHANGED <<controller, since, handing, cfg, serving>>

MarkReady(a) ==
  /\ at[a] = "ready" /\ Goto(a, "gone")
  /\ phase' = "ready"
  /\ UNCHANGED <<epoch, purse, error, since, handing, cfg, pending, serving>>

Worker(a) ==
  \/ Land(a) \/ ReportFailure(a) \/ ReadPurse(a)
  \/ WriteSession(a) \/ WritePurse(a) \/ Queue(a) \/ MarkReady(a)

---------------------------------------------------------------------------
(* The serving thread. *)

\* _needs_rebuild, as it finds the engine at that moment.
NeedsRebuild(e) ==
  ~e.open /\ ~e.live /\ (e.degraded \/ e.hold = "identity")

\* Seeded fault: what an adoption raises ends the loop.
AdoptionEscapes(why) ==
  /\ serve' = "dead" /\ cookie' = NoCookie
  /\ UNCHANGED controller

\* A first boot that fails leaves the pairing screen up; a failed adoption
\* is reported through the controller.
AdoptionFails(why) ==
  /\ serve' = "sleep" /\ cookie' = NoCookie
  /\ IF cookie = NoCookie THEN UNCHANGED controller ELSE NoteError(why)

\* Pop a cookie, and build or re-seat.
TakeUp ==
  /\ serve = "sleep" /\ pending # <<>>
  /\ cookie' = Head(pending) /\ pending' = Tail(pending)
  /\ serve' = IF hub = NoEngine \/ NeedsRebuild(hub) THEN "purse" ELSE "reseat"
  /\ UNCHANGED <<controller, workers, cfg, build, hub, lease>>

\* _reseat_session: the api takes the cookie, keeps its purse, and connects.
Reseat ==
  /\ serve = "reseat"
  /\ hub' = [hub EXCEPT !.ssid = cookie]
  /\ \/ serve' = "sleep" /\ cookie' = NoCookie /\ UNCHANGED controller
     \/ AdoptionFails("venue")
  /\ UNCHANGED <<workers, cfg, pending, build, lease>>

\* _build_engine: the api is made for the purse, then given the session.
BuildPurse ==
  /\ serve = "purse" /\ serve' = "session"
  /\ build' = [build EXCEPT !.purse = cfg.purse]
  /\ UNCHANGED <<controller, workers, cfg, pending, cookie, hub, lease>>

BuildSession ==
  /\ serve = "session" /\ serve' = "connect"
  /\ build' = [build EXCEPT !.ssid = cfg.ssid]
  /\ UNCHANGED <<controller, workers, cfg, pending, cookie, hub, lease>>

\* No session, a refused one, a silent wire, or data that flows.
Connect ==
  /\ serve = "connect"
  /\ \/ serve' = "lease" /\ UNCHANGED <<controller, cookie>>
     \/ AdoptionFails("venue")
  /\ UNCHANGED <<workers, cfg, pending, build, hub, lease>>

\* Seeded fault: a lock its own process may take twice.
AcquireTwice ==
  /\ serve = "lease"
  /\ lease' = IF durable THEN "fresh" ELSE lease
  /\ serve' = "warm"
  /\ UNCHANGED <<controller, workers, cfg, pending, cookie, build, hub>>

\* boot: the lease first.  The lock belongs to an open file, so the engine in
\* service keeps out the one that is to replace it.
Acquire ==
  /\ serve = "lease"
  /\ \/ /\ durable => lease = "free"
        /\ lease' = IF durable THEN "fresh" ELSE lease
        /\ serve' = "warm"
        /\ UNCHANGED <<controller, cookie>>
     \/ /\ durable /\ lease # "free"
        /\ AdoptionFails("lease")
        /\ UNCHANGED lease
  /\ UNCHANGED <<workers, cfg, pending, build, hub>>

Holds == IF durable THEN {"none", "identity", "other"} ELSE {"none"}

Fresh(degraded, hold, live) ==
  [from |-> cookie, ssid |-> build.ssid, purse |-> build.purse,
   degraded |-> degraded, hold |-> hold, live |-> live, open |-> FALSE]

\* Seeded fault: a boot that fails keeps what it acquired.
KeepLease == UNCHANGED lease

\* continuity.release of the engine that did not boot.
ReleaseLease == lease' = IF durable THEN "free" ELSE lease

\* The rest of boot and, when it succeeds, the swap: the old engine is shut
\* down, the new one serves, and --auto arms it unless it is on hold.  What
\* raises after the swap is reported as a failed adoption.
Boot ==
  /\ serve = "warm"
  /\ \/ /\ \E degraded \in BOOLEAN, hold \in Holds, auto \in BOOLEAN :
             hub' = Fresh(degraded, hold, auto /\ hold = "none")
        /\ lease' = IF durable THEN "hub" ELSE lease
        /\ serve' = "sleep" /\ cookie' = NoCookie
        /\ \/ UNCHANGED controller
           \/ cookie # NoCookie /\ NoteError("venue")
     \/ /\ AdoptionFails("venue")
        /\ ReleaseLease /\ UNCHANGED hub
  /\ UNCHANGED <<workers, cfg, pending, build>>

Serving ==
  \/ TakeUp \/ Reseat
  \/ BuildPurse \/ BuildSession \/ Connect \/ Acquire \/ Boot

---------------------------------------------------------------------------
(* The engine in service, as far as the terminal looks at it. *)

EngineRuns ==
  /\ hub # NoEngine
  /\ \/ /\ hub.hold = "none"
        /\ \/ \E live \in BOOLEAN : hub' = [hub EXCEPT !.live = live]
           \/ hub' = [hub EXCEPT !.open = TRUE]
           \/ \E why \in Holds \ {"none"} :
                hub' = [hub EXCEPT !.hold = why, !.live = FALSE]
     \/ hub' = [hub EXCEPT !.open = FALSE]
     \/ hub' = [hub EXCEPT !.degraded = FALSE]
  /\ UNCHANGED <<controller, workers, cfg, pending,
                 serve, cookie, build, lease>>

---------------------------------------------------------------------------
Init ==
  /\ phase = "idle" /\ epoch = 0 /\ error = "none"
  /\ purse = NoPurse
  /\ at = [a \in Attempts |-> "unborn"]
  /\ since = [a \in Attempts |-> 0]
  /\ handing = [a \in Attempts |-> NoPurse]
  /\ cfg \in [ssid : {Saved}, purse : Purses]
  /\ pending = <<>>
  /\ serve = "purse" /\ cookie = NoCookie
  /\ build = cfg
  /\ hub = NoEngine /\ lease = "free"
  /\ durable \in BOOLEAN

Next ==
  /\ \/ \E a \in Attempts : (\E p \in Purses : Start(a, p)) \/ Worker(a)
     \/ Cancel
     \/ Serving
     \/ EngineRuns
  /\ UNCHANGED durable

Spec == Init /\ [][Next]_vars

\* Threads run on: Chrome has a timeout, the venue's calls have deadlines.
FairSpec ==
  /\ Spec
  /\ \A a \in Attempts : WF_vars(Worker(a) /\ UNCHANGED durable)
  /\ WF_vars(Serving /\ UNCHANGED durable)

---------------------------------------------------------------------------
(* Properties. *)

Phases == {"idle", "waiting", "ready", "failed"}

WorkerPlaces ==
  {"unborn", "chrome", "failing", "landed", "session", "purse", "queue",
   "ready", "gone"}
ServePlaces ==
  {"sleep", "reseat", "purse", "session", "connect", "lease", "warm"}

\* A worker never passes on "not chosen".
PursesKnown ==
  \A a \in Attempts :
    /\ at[a] # "unborn" => purse \in Purses
    /\ at[a] \in {"session", "purse"} => handing[a] \in Purses

TypeOK ==
  /\ phase \in Phases /\ epoch \in Nat
  /\ purse \in Purses \cup {NoPurse}
  /\ error \in {"none", "pairing", "venue", "lease"}
  /\ at \in [Attempts -> WorkerPlaces] /\ since \in [Attempts -> Nat]
  /\ handing \in [Attempts -> Purses \cup {NoPurse}]
  /\ cfg \in [ssid : Cookies, purse : Purses]
  /\ build \in [ssid : Cookies, purse : Purses]
  /\ pending \in Seq(Attempts)
  /\ serve \in ServePlaces /\ cookie \in Attempts \cup {NoCookie}
  /\ hub \in Engines \cup {NoEngine}
  /\ lease \in {"free", "fresh", "hub"} /\ durable \in BOOLEAN
  /\ serve = "reseat" => hub # NoEngine /\ cookie \in Attempts
  /\ PursesKnown

\* A waiting attempt has a worker whose answer will count: neither cancel, a
\* failed adoption nor a late worker of an older attempt strands the veil.
WaitingIsServed ==
  Waiting => \E a \in Attempts :
               Live(a) /\ at[a] \notin {"unborn", "gone"}

\* One writer per state file: the lease belongs to the engine in service, and
\* only without one to an engine that boots, whatever adoptions fail.
LeaseServes ==
  durable => /\ lease = "hub" <=> hub # NoEngine
             /\ lease = "fresh" <=> serve = "warm"

\* "A rebuild must never orphan a live book" (_needs_rebuild).  The engine may
\* be armed, or trade, in the minute between that check and the swap; for a
\* durable engine it is the lease that keeps the swap from happening.
LiveBookKept ==
  [][durable /\ hub # NoEngine /\ (hub.live \/ hub.open)
       => hub' # NoEngine /\ hub'.from = hub.from]_vars

\* Every attempt the operator waits for ends: ready, failed or cancelled.
WaitingEnds == Waiting ~> ~Waiting

\* "A bad cookie must not kill the terminal" (_run_web): every queued cookie
\* is taken up, whatever became of those before it.
CookiesTakenUp ==
  \A a \in Attempts :
    (\E i \in DOMAIN pending : pending[i] = a)
      ~> ~(\E i \in DOMAIN pending : pending[i] = a)

\* _needs_rebuild: "rebuilding it on the fresh session re-runs warmup,
\* re-pins continuity, and re-seeds balances".  So a rebuild never fails on
\* the terminal's own lease.
RebuildServes == error # "lease"

===========================================================================
