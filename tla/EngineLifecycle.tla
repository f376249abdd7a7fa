-------------------------- MODULE EngineLifecycle --------------------------
(***************************************************************************)
(* TradingEngine (bot/engine.py) as its threads run it: the decision loop, *)
(* and the threads that call its operations - web handlers, the desktop    *)
(* console, the watchdog's kill callback - all of them Consoles here.      *)
(*                                                                         *)
(* Two locks: the engine lock, under which arm joins the previous loop, and*)
(* the OMS lock of every transaction; a thread that waits for a lock or a  *)
(* join is at a place of its own and stays there until it is free (rewarm  *)
(* holds the engine lock for two assignments: left out).  Every other field *)
(* (state, _running, the survivor's lockdown) is written with no lock, so  *)
(* each write is a step of its own.  at[t] is where thread t is in the     *)
(* operation it runs.                                                      *)
(*                                                                         *)
(* What a transaction does to money and risk is TradeBook's subject: here  *)
(* the book is one bit, and a checkpoint that fails to write or validate   *)
(* is a choice.                                                            *)
(***************************************************************************)
EXTENDS Integers, FiniteSets

CONSTANTS
  Consoles,   \* threads that call the engine
  Loops,      \* generations of the engine thread, "engine"
  NoThread,
  Commands    \* the commands each console may give

ASSUME ThreadsAssumption ==
  Consoles \cap Loops = {} /\ NoThread \notin Consoles \cup Loops

Threads == Consoles \cup Loops

VARIABLES
  state,      \* engine.state
  running,    \* engine._running
  thread,     \* engine._thread
  kill,       \* risk.state.kill
  fault,      \* continuity.fault is set
  engineLock, \* who is inside arm
  owner,      \* who is inside an OMS transaction
  open,       \* the broker holds an open contract
  lockdown,   \* survivor._manual_lockdown
  saved,      \* manual_lockdown in the operator file
  draft,      \* the dict each thread has built for that file
  at,         \* where each thread is
  raced       \* history: an arm overlapped the kill or hold now latched

flags    == <<state, running, thread>>
latches  == <<kill, fault>>
postures == <<lockdown, saved, draft>>
vars     == <<flags, latches, engineLock, owner, open, postures, at, raced>>

---------------------------------------------------------------------------
(* Threads. *)

\* Where a thread goes when its operation returns: a handler ends, the loop
\* starts its next cycle.
Home(t) == IF t \in Loops THEN "top" ELSE "idle"

\* ... and when it raises.  The loop swallows what a cycle raises, but not what
\* the kill in its own exception handler raises.
Raised(t) ==
  IF t \in Loops /\ at[t] \in {"kill_begin", "kill_commit"} THEN "dead" ELSE Home(t)

Goto(t, where) == at' = [at EXCEPT ![t] = where]

Alive(l) == l \in Loops /\ at[l] # "dead"

Arming == engineLock # NoThread

KillUnderway ==
  \E t \in Threads : at[t] \in {"kill_show", "kill_begin", "kill_engage"}

\* Every step that raises kill or fault, or starts to, is with this.
Raced == raced' = (raced \/ Arming)

---------------------------------------------------------------------------
(* The OMS transaction (execution/oms.py) and the recovery hold. *)

\* continuity._fail.
Hold ==
  /\ fault' = TRUE /\ kill' = TRUE
  /\ state' = "KILL" /\ running' = FALSE
  /\ Raced

\* transaction(): wait for the lock, then write the BEFORE record.  On a
\* hold, or when it fails, StateError is raised.
Begin(t, here, there) ==
  /\ at[t] = here /\ owner = NoThread
  /\ \/ /\ ~fault
        /\ owner' = t /\ Goto(t, there)
        /\ UNCHANGED <<state, running, latches, raced>>
     \/ /\ ~fault
        /\ Hold /\ Goto(t, Raised(t))
        /\ UNCHANGED owner
     \/ /\ fault
        /\ Goto(t, Raised(t))
        /\ UNCHANGED <<owner, state, running, latches, raced>>
  /\ UNCHANGED <<thread, engineLock, open, postures>>

\* The AFTER record; when it fails the runtime holds and StateError is raised.
Commit(t, here, there) ==
  /\ at[t] = here
  /\ owner' = NoThread
  /\ \/ /\ Goto(t, there)
        /\ UNCHANGED <<state, running, latches, raced>>
     \/ Hold /\ Goto(t, Raised(t))
  /\ UNCHANGED <<thread, engineLock, open, postures>>

\* Seeded fault: no one listens to the governor's KILL event.
EnterKillUnheard == UNCHANGED <<state, running>>

\* _enter_kill, the engine's handler of the governor's KILL event.
EnterKill ==
  /\ state' = "KILL"
  /\ running' = IF state = "KILL" THEN running ELSE FALSE

EngageKill == kill' = TRUE /\ EnterKill /\ Raced

---------------------------------------------------------------------------
(* Commands of the consoles. *)

\* A console takes up a command.  disarm is a single assignment; lockdown and
\* unlock flip the survivor's flag.
Call(c) ==
  /\ at[c] = "idle"
  /\ \/ /\ "arm" \in Commands[c]
        /\ Goto(c, "arm_lock")
        /\ UNCHANGED <<state, lockdown>>
     \/ /\ "disarm" \in Commands[c]
        /\ state' = "DISARMED"
        /\ UNCHANGED <<at, lockdown>>
     \/ /\ "clear" \in Commands[c]
        /\ Goto(c, "clear_begin")
        /\ UNCHANGED <<state, lockdown>>
     \/ \E on \in BOOLEAN :
        /\ "lockdown" \in Commands[c]
        /\ lockdown' = on /\ Goto(c, "draft")
        /\ UNCHANGED state
     \/ /\ "trade" \in Commands[c]
        /\ Goto(c, "judge_manual")
        /\ UNCHANGED <<state, lockdown>>
     \/ /\ "close" \in Commands[c] /\ open
        /\ Goto(c, "close_begin")
        /\ UNCHANGED <<state, lockdown>>
  /\ UNCHANGED <<running, thread, latches, engineLock, owner, open, saved, draft, raced>>

\* arm waits for the engine lock as long as another arm is at work.
ArmLock(c) ==
  /\ at[c] = "arm_lock" /\ engineLock = NoThread
  /\ engineLock' = c /\ Goto(c, "arm_check")
  /\ UNCHANGED <<flags, latches, owner, open, postures, raced>>

\* The end of arm, with or without an exception.
ArmReturns(c) == engineLock' = NoThread /\ Goto(c, "idle")

\* _arm's gates: the kill latch, the KILL state and the recovery hold.
ArmCheck(c) ==
  /\ at[c] = "arm_check"
  /\ \/ /\ kill \/ state = "KILL" \/ fault
        /\ ArmReturns(c)
     \/ /\ ~kill /\ state # "KILL" /\ ~fault
        /\ Goto(c, IF running THEN "arm_again" ELSE "arm_join")
        /\ UNCHANGED engineLock
  /\ raced' = (raced \/ KillUnderway)
  /\ UNCHANGED <<flags, latches, owner, open, postures>>

\* A repeat ARM changes the state only.
ArmAgain(c) ==
  /\ at[c] = "arm_again"
  /\ state' = "LIVE"
  /\ ArmReturns(c)
  /\ UNCHANGED <<running, thread, latches, owner, open, postures, raced>>

\* Seeded fault: the old thread is given no time to stop.
LoopStoppedUnasked == TRUE

\* No loop of an earlier generation is left.
LoopStopped == ~Alive(thread)

\* join waits for the previous loop to end.
ArmJoin(c) ==
  /\ at[c] = "arm_join" /\ LoopStopped
  /\ Goto(c, "arm_show")
  /\ UNCHANGED <<flags, latches, engineLock, owner, open, postures, raced>>

\* ... and arm gives up when three seconds did not do.
ArmTimesOut(c) ==
  /\ at[c] = "arm_join" /\ Alive(thread)
  /\ ArmReturns(c)
  /\ UNCHANGED <<flags, latches, owner, open, postures, raced>>

ArmShow(c) ==
  /\ at[c] = "arm_show"
  /\ state' = "LIVE" /\ Goto(c, "arm_run")
  /\ UNCHANGED <<running, thread, latches, engineLock, owner, open, postures,
                 raced>>

ArmRun(c) ==
  /\ at[c] = "arm_run"
  /\ running' = TRUE /\ Goto(c, "arm_start")
  /\ UNCHANGED <<state, thread, latches, engineLock, owner, open, postures,
                 raced>>

\* feed and watchdog start, then a new engine thread.
ArmStart(c) ==
  /\ at[c] = "arm_start"
  /\ \E l \in Loops :
       /\ at[l] = "dead"
       /\ thread' = l
       /\ at' = [at EXCEPT ![l] = "top", ![c] = "idle"]
  /\ engineLock' = NoThread
  /\ UNCHANGED <<state, running, latches, owner, open, postures, raced>>

Arm(c) == ArmLock(c) \/ ArmCheck(c) \/ ArmAgain(c) \/ ArmJoin(c) \/ ArmShow(c) \/ ArmRun(c)
          \/ ArmStart(c)

\* kill lowers _running at once, shows KILL, and latches under the OMS lock
\* unless a hold has latched already.
KillPress(c) ==
  /\ at[c] = "idle" /\ "kill" \in Commands[c]
  /\ running' = FALSE /\ Goto(c, "kill_show")
  /\ Raced
  /\ UNCHANGED <<state, thread, latches, engineLock, owner, open, postures>>

KillShow(t) ==
  /\ at[t] = "kill_show"
  /\ state' = "KILL"
  /\ Goto(t, IF fault THEN Home(t) ELSE "kill_begin")
  /\ UNCHANGED <<running, thread, latches, engineLock, owner, open, postures,
                 raced>>

KillEngage(t) ==
  /\ at[t] = "kill_engage"
  /\ EngageKill
  /\ Goto(t, "kill_commit")
  /\ UNCHANGED <<thread, fault, engineLock, owner, open, postures>>

Kill(t) == KillShow(t) \/ Begin(t, "kill_begin", "kill_engage") \/ KillEngage(t)
           \/ Commit(t, "kill_commit", Home(t))

\* clear_kill: latch, lockdown, operator file and state in one transaction.
ClearLatches(c) ==
  /\ at[c] = "clear_release"
  /\ kill' = FALSE /\ lockdown' = FALSE
  /\ Goto(c, "clear_draft")
  /\ raced' = (raced /\ KillUnderway)
  /\ UNCHANGED <<flags, fault, engineLock, owner, open, saved, draft>>

\* save_operator_state builds its dict, then replaces the file.
Draft(c, here, there) ==
  /\ at[c] = here
  /\ draft' = [draft EXCEPT ![c] = lockdown]
  /\ Goto(c, there)
  /\ UNCHANGED <<flags, latches, engineLock, owner, open, lockdown, saved,
                 raced>>

Save(c, here, there) ==
  /\ at[c] = here
  /\ saved' = draft[c]
  /\ Goto(c, there)
  /\ UNCHANGED <<flags, latches, engineLock, owner, open, lockdown, draft,
                 raced>>

ClearShow(c) ==
  /\ at[c] = "clear_show"
  /\ state' = "DISARMED" /\ Goto(c, "clear_commit")
  /\ UNCHANGED <<running, thread, latches, engineLock, owner, open, postures,
                 raced>>

Clear(c) ==
  \/ Begin(c, "clear_begin", "clear_release") \/ ClearLatches(c)
  \/ Draft(c, "clear_draft", "clear_save") \/ Save(c, "clear_save", "clear_show")
  \/ ClearShow(c) \/ Commit(c, "clear_commit", "idle")

Posture(c) == Draft(c, "draft", "save") \/ Save(c, "save", "idle")

---------------------------------------------------------------------------
(* Trading, by the loop and by hand (inject_signal). *)

AfterTrade(t) == IF t \in Loops THEN "lifeboat" ELSE "idle"

\* _try_execute: survivor.evaluate vetoes in a lockdown; so may anything else
\* on the way to oms.submit.
Judge(t, here) ==
  /\ at[t] = here
  /\ \/ ~lockdown /\ Goto(t, "trade_begin")
     \/ Goto(t, AfterTrade(t))
  /\ UNCHANGED <<flags, latches, engineLock, owner, open, postures, raced>>

\* risk.authorize and the send.
Submit(t) ==
  /\ at[t] = "trade_submit"
  /\ \/ ~kill /\ ~open /\ open' = TRUE
     \/ UNCHANGED open
  /\ Goto(t, "trade_commit")
  /\ UNCHANGED <<flags, latches, engineLock, owner, postures, raced>>

Trade(t) == Begin(t, "trade_begin", "trade_submit") \/ Submit(t)
            \/ Commit(t, "trade_commit", AfterTrade(t))

\* oms.close_position: the mark may have no price; the settlement may breach
\* the drawdown limit and latch the kill from inside.
Settle(t, here, there) ==
  /\ at[t] = here
  /\ Goto(t, there)
  /\ \/ UNCHANGED <<open, kill, state, running, raced>>
     \/ /\ open /\ open' = FALSE
        /\ \/ UNCHANGED <<kill, state, running, raced>>
           \/ EngageKill
  /\ UNCHANGED <<thread, fault, engineLock, owner, postures>>

Close(t) == Begin(t, "close_begin", "close_sell")
            \/ Settle(t, "close_sell", "close_commit")
            \/ Commit(t, "close_commit", Home(t))

---------------------------------------------------------------------------
(* The loop (_run_loop, cycle). *)

\* Seeded fault: the loop's exit clears the thread under the engine lock.
TopTidy(l) ==
  /\ at[l] = "top"
  /\ \/ /\ ~running /\ engineLock = NoThread
        /\ Goto(l, "dead") /\ UNCHANGED running
     \/ /\ running /\ state # "KILL"
        /\ Goto(l, "pump_begin") /\ UNCHANGED running
     \/ /\ running /\ state = "KILL"
        /\ running' = FALSE /\ Goto(l, "kill_show")
  /\ UNCHANGED <<state, thread, latches, engineLock, owner, open, postures,
                 raced>>

\* while self._running: a cycle in the KILL state calls kill and ends.
Top(l) ==
  /\ at[l] = "top"
  /\ \/ /\ ~running
        /\ Goto(l, "dead") /\ UNCHANGED running
     \/ /\ running /\ state # "KILL"
        /\ Goto(l, "pump_begin") /\ UNCHANGED running
     \/ /\ running /\ state = "KILL"
        /\ running' = FALSE /\ Goto(l, "kill_show")
  /\ UNCHANGED <<state, thread, latches, engineLock, owner, open, postures,
                 raced>>

\* New orders only while armed.
Decide(l) ==
  /\ at[l] = "decide"
  /\ Goto(l, IF state = "LIVE" THEN "judge" ELSE "lifeboat")
  /\ UNCHANGED <<flags, latches, engineLock, owner, open, postures, raced>>

\* Seeded fault: the lifeboat sails for an armed engine only.
LifeboatDueArmed == lockdown /\ open /\ state = "LIVE"

\* The posture is LOCKDOWN and contracts are open.
LifeboatDue == lockdown /\ open

Lifeboat(l) ==
  /\ at[l] = "lifeboat"
  /\ Goto(l, IF LifeboatDue THEN "close_begin" ELSE "top")
  /\ UNCHANGED <<flags, latches, engineLock, owner, open, postures, raced>>

Cycle(l) ==
  \/ Top(l)
  \/ Begin(l, "pump_begin", "pump_settle") \/ Settle(l, "pump_settle", "pump_commit")
  \/ Commit(l, "pump_commit", "decide")
  \/ Decide(l) \/ Judge(l, "judge") \/ Lifeboat(l)

---------------------------------------------------------------------------

\* boot: disarmed, or with the latched kill and the lockdown it restored.
Init ==
  /\ kill \in BOOLEAN /\ fault \in BOOLEAN /\ (fault => kill)
  /\ state = IF kill THEN "KILL" ELSE "DISARMED"
  /\ running = FALSE /\ thread = NoThread
  /\ engineLock = NoThread /\ owner = NoThread
  /\ open = FALSE
  /\ lockdown \in BOOLEAN /\ saved = lockdown
  /\ draft = [t \in Threads |-> FALSE]
  /\ at = [t \in Threads |-> IF t \in Loops THEN "dead" ELSE "idle"]
  /\ raced = FALSE

\* A step of the operation thread t is in.
Work(t) ==
  \/ Trade(t) \/ Close(t) \/ Kill(t)
  \/ t \in Loops /\ Cycle(t)
  \/ t \in Consoles /\ (Arm(t) \/ Clear(t) \/ Posture(t) \/ Judge(t, "judge_manual"))

Next == (\E c \in Consoles : Call(c) \/ KillPress(c) \/ ArmTimesOut(c)) \/ (\E t \in Threads : Work(t))

Spec == Init /\ [][Next]_vars

\* Every console and the loop (by OneLoop there is one) run, and get a lock that
\* is free again and again; a contract that the loop closes over and over is
\* priced at some close.  No join has to time out.
Fairness ==
  /\ \A c \in Consoles : SF_vars(Work(c))
  /\ SF_vars(\E l \in Loops : Work(l))
  /\ SF_vars(\E l \in Loops : Settle(l, "close_sell", "close_commit") /\ ~open')

FairSpec == Spec /\ Fairness

---------------------------------------------------------------------------
(* Properties. *)

States == {"DISARMED", "LIVE", "KILL"}

\* Where a thread can be.
OperationPlaces ==
  {"kill_show", "kill_begin", "kill_engage", "kill_commit",
   "trade_begin", "trade_submit", "trade_commit",
   "close_begin", "close_sell", "close_commit"}
LoopPlaces ==
  OperationPlaces \cup {"dead", "top", "pump_begin", "pump_settle",
                        "pump_commit", "decide", "judge", "lifeboat"}
ConsolePlaces ==
  OperationPlaces \cup
  {"idle", "judge_manual", "draft", "save",
   "arm_lock", "arm_check", "arm_again", "arm_join", "arm_show", "arm_run", "arm_start",
   "clear_begin", "clear_release", "clear_draft", "clear_save", "clear_show",
   "clear_commit"}
PlacesOf(t) == IF t \in Loops THEN LoopPlaces ELSE ConsolePlaces

TypeOK ==
  /\ state \in States
  /\ running \in BOOLEAN /\ thread \in Loops \cup {NoThread}
  /\ kill \in BOOLEAN /\ fault \in BOOLEAN /\ (fault => kill)
  /\ engineLock \in Consoles \cup {NoThread}
  /\ owner \in Threads \cup {NoThread}
  /\ open \in BOOLEAN /\ lockdown \in BOOLEAN /\ saved \in BOOLEAN
  /\ draft \in [Threads -> BOOLEAN] /\ raced \in BOOLEAN
  /\ at \in [Threads -> LoopPlaces \cup ConsolePlaces]
  /\ \A t \in Threads : at[t] \in PlacesOf(t)

AllQuiet == \A c \in Consoles : at[c] = "idle"

\* "Concurrent ARM requests cannot create duplicate loops" (_arm), nor can
\* any mix of arm, kill, clear and disarm with a loop that is slow to stop.
OneLoop == \A k, l \in Loops : Alive(k) /\ Alive(l) => k = l

\* A kill, whoever latches it - an operator, the watchdog, the drawdown limit
\* in the middle of a settlement, a hold - has stopped the loop when it is
\* latched and keeps it stopped, disarm or not, unless an arm overlapped it.
KillStops == kill /\ ~raced => ~running

\* In a lockdown a running loop sells the book back, armed or disarmed, unless
\* a recovery hold freezes the book first.
LifeboatSails ==
  lockdown /\ open /\ running ~> ~open \/ ~lockdown \/ ~running \/ fault

\* Every operation returns although arm joins the loop under the engine lock
\* and listeners, kills and holds run under the OMS lock: no wait for a lock or
\* a join goes round in a circle, and no arm needs its three seconds to return
\* (arm, _arm, OrderManager.transaction).
CommandsReturn == \A c \in Consoles : (at[c] # "idle") ~> (at[c] = "idle")

\* README: "Web ARM/CALL/PUT controls disable during a recovery hold or
\* latched kill; backend gates enforce it regardless of UI."  No arm makes
\* the engine LIVE while the kill is latched.
ArmRespectsKill == [][state # "LIVE" /\ state' = "LIVE" => ~kill]_vars

\* README: server lockdown and unlock commands and clear_kill's unlock all
\* persist.  When every operation has returned, the file says what is so.
OperatorStateSaved == AllQuiet => saved = lockdown

===========================================================================
