---------------------- MODULE EngineLifecycle_proofs ----------------------
(***************************************************************************)
(* Proofs about EngineLifecycle for any threads that call the engine and   *)
(* any number of loop generations.                                         *)
(*                                                                         *)
(* OneLoop needs that only the thread the engine remembers is ever alive,  *)
(* and that between arm's join and its start nobody else can start one.    *)
(* KillStops needs to know what an arm that has passed its gates can still *)
(* do: Racing says when such an arm, or a KILL state beside a running      *)
(* loop, is the trace of a race already recorded.                          *)
(***************************************************************************)
EXTENDS EngineLifecycle, TLAPS

---------------------------------------------------------------------------
(* The inductive invariant. *)

\* Where a thread is inside an OMS transaction.
InTransaction ==
  {"kill_engage", "kill_commit", "trade_submit", "trade_commit", "close_sell",
   "close_commit", "pump_settle", "pump_commit", "clear_release",
   "clear_draft", "clear_save", "clear_show", "clear_commit"}

InArm ==
  {"arm_check", "arm_again", "arm_join", "arm_show", "arm_run", "arm_start"}

\* An arm that has found no running loop, up to where it sets _running.
PastGates == {"arm_join", "arm_show", "arm_run"}

\* A clear that has released the latch and not yet shown DISARMED.
Clearing ==
  \E c \in Consoles : at[c] \in {"clear_draft", "clear_save", "clear_show"}

\* Each lock is held by the thread that is inside, and no one works in a hold.
LocksOK ==
  /\ \A t \in Threads : at[t] \in InTransaction <=> owner = t
  /\ \A c \in Consoles : at[c] \in InArm <=> engineLock = c
  /\ owner # NoThread => ~fault

\* Only the remembered thread is alive; an arm about to start one finds none.
LoopsOK ==
  /\ \A l \in Loops : Alive(l) => l = thread
  /\ \A c \in Consoles :
       at[c] \in {"arm_show", "arm_run", "arm_start"} => \A l \in Loops : ~Alive(l)
  /\ \A c \in Consoles : at[c] \in PastGates => ~running

Racing ==
  /\ \A c \in Consoles : at[c] \in PastGates /\ (kill \/ KillUnderway) => raced
  /\ KillUnderway /\ running => raced
  /\ state = "KILL" /\ running => raced \/ Clearing
  /\ \A c \in Consoles : at[c] = "arm_run" /\ state = "KILL" => raced \/ Clearing

IInv == TypeOK /\ LocksOK /\ LoopsOK /\ Racing /\ KillStops

USE ThreadsAssumption

---------------------------------------------------------------------------
(* Moving a thread. *)

\* The types of places.
PlacesOK ==
  /\ at \in [Threads -> LoopPlaces \cup ConsolePlaces]
  /\ \A t \in Threads : at[t] \in PlacesOf(t)

\* The other types.
ValuesOK ==
  /\ state \in States
  /\ running \in BOOLEAN /\ thread \in Loops \cup {NoThread}
  /\ kill \in BOOLEAN /\ fault \in BOOLEAN /\ (fault => kill)
  /\ engineLock \in Consoles \cup {NoThread}
  /\ owner \in Threads \cup {NoThread}
  /\ open \in BOOLEAN /\ lockdown \in BOOLEAN /\ saved \in BOOLEAN
  /\ draft \in [Threads -> BOOLEAN] /\ raced \in BOOLEAN

\* A move of a thread to one of its places keeps them.
LEMMA GotoPlaces ==
  PlacesOK => \A t \in Threads : \A where \in PlacesOf(t) :
    at' = [at EXCEPT ![t] = where] => PlacesOK'
BY DEF PlacesOK, PlacesOf

---------------------------------------------------------------------------
(* The steps of a thread, operation by operation. *)

BeginAny(t) ==
  \/ Begin(t, "trade_begin", "trade_submit")
  \/ Begin(t, "close_begin", "close_sell")
  \/ Begin(t, "kill_begin", "kill_engage")
  \/ t \in Loops /\ Begin(t, "pump_begin", "pump_settle")
  \/ t \in Consoles /\ Begin(t, "clear_begin", "clear_release")

CommitAny(t) ==
  \/ Commit(t, "trade_commit", AfterTrade(t))
  \/ Commit(t, "close_commit", Home(t))
  \/ Commit(t, "kill_commit", Home(t))
  \/ t \in Loops /\ Commit(t, "pump_commit", "decide")
  \/ t \in Consoles /\ Commit(t, "clear_commit", "idle")

SettleAny(t) ==
  \/ Settle(t, "close_sell", "close_commit")
  \/ t \in Loops /\ Settle(t, "pump_settle", "pump_commit")

JudgeAny(t) ==
  \/ t \in Loops /\ Judge(t, "judge")
  \/ t \in Consoles /\ Judge(t, "judge_manual")

OperationStep(t) == BeginAny(t) \/ CommitAny(t) \/ SettleAny(t) \/ JudgeAny(t)
                    \/ Submit(t) \/ KillShow(t) \/ KillEngage(t)

LoopStep(t) == Top(t) \/ Decide(t) \/ Lifeboat(t)

ArmStep(t) == ArmLock(t) \/ ArmCheck(t) \/ ArmAgain(t) \/ ArmJoin(t) \/ ArmTimesOut(t)
              \/ ArmShow(t) \/ ArmRun(t) \/ ArmStart(t)

DraftAny(t) == Draft(t, "clear_draft", "clear_save") \/ Draft(t, "draft", "save")
SaveAny(t)  == Save(t, "clear_save", "clear_show") \/ Save(t, "save", "idle")

OperatorStep(t) == Call(t) \/ KillPress(t) \/ ClearLatches(t) \/ ClearShow(t)
                   \/ DraftAny(t) \/ SaveAny(t)

\* Every step of the engine is one of these.
LEMMA Steps ==
  ASSUME Next
  PROVE  \/ \E t \in Threads : OperationStep(t)
         \/ \E t \in Loops : LoopStep(t)
         \/ \E t \in Consoles : ArmStep(t) \/ OperatorStep(t)
<1>1. CASE \E c \in Consoles : Call(c) \/ KillPress(c) \/ ArmTimesOut(c)
  BY <1>1 DEF OperatorStep, ArmStep
<1>2. ASSUME NEW t \in Threads, Work(t)
      PROVE  \/ OperationStep(t)
             \/ t \in Loops /\ LoopStep(t)
             \/ t \in Consoles /\ (ArmStep(t) \/ OperatorStep(t))
  <2>1. CASE Trade(t) \/ Close(t) \/ Kill(t)
    BY <2>1 DEF Trade, Close, Kill, OperationStep, BeginAny, CommitAny,
       SettleAny
  <2>2. CASE t \in Loops /\ Cycle(t)
    BY <2>2 DEF Cycle, OperationStep, LoopStep, BeginAny, CommitAny, SettleAny,
                JudgeAny
  <2>3. CASE t \in Consoles /\ Arm(t)
    BY <2>3 DEF Arm, ArmStep
  <2>4. CASE t \in Consoles /\ (Clear(t) \/ Posture(t) \/ Judge(t, "judge_manual"))
    BY <2>4 DEF Clear, Posture, OperationStep, OperatorStep, BeginAny,
       CommitAny,
                JudgeAny, DraftAny, SaveAny
  <2> QED
    BY <1>2, <2>1, <2>2, <2>3, <2>4 DEF Work
<1> QED
  BY <1>1, <1>2 DEF Next


\* Where transactions begin, start work and commit, and where an operation that ends leaves a thread.
Doors == {"trade_begin", "close_begin", "kill_begin", "pump_begin",
          "clear_begin"}
Entries == {"trade_submit", "close_sell", "kill_engage", "pump_settle",
            "clear_release"}
Commits == {"trade_commit", "close_commit", "kill_commit", "pump_commit",
            "clear_commit"}
Outside == {"dead", "top", "idle", "decide", "lifeboat"}

Leaves(t) == \E w \in Outside : at' = [at EXCEPT ![t] = w]

\* The lock is taken, the transaction may not be, or the runtime goes on hold.
Enters(t) ==
  /\ ~fault /\ owner' = t
  /\ UNCHANGED <<state, running, kill, fault, raced>>
  /\ \E w \in Entries :
       /\ at' = [at EXCEPT ![t] = w]
       /\ w = "kill_engage" <=> at[t] = "kill_begin"
Refused(t) ==
  Leaves(t) /\ UNCHANGED <<owner, state, running, kill, fault, raced>>
Holds(t) ==
  /\ ~fault /\ fault' = TRUE /\ kill' = TRUE
  /\ state' = "KILL" /\ running' = FALSE
  /\ raced' = (raced \/ engineLock # NoThread)
  /\ Leaves(t)

\* No lock is held where a transaction begins or an operation ends.
LEMMA Areas ==
  /\ (Doors \cup Outside) \cap (InTransaction \cup InArm) = {}
  /\ Entries \subseteq InTransaction /\ Commits \subseteq InTransaction
  /\ InTransaction \cap InArm = {}
BY DEF Doors, Outside, Entries, Commits, InTransaction, InArm

\* What begins a transaction, whichever.
LEMMA BeginEffect ==
  ASSUME NEW t \in Threads, BeginAny(t)
  PROVE  /\ at[t] \in Doors /\ owner = NoThread
         /\ Enters(t) \/ Refused(t) \/ (Holds(t) /\ UNCHANGED owner)
         /\ UNCHANGED <<thread, engineLock, open, lockdown, saved, draft>>
<1> USE DEF Doors, Entries, Outside
<1>1. Raised(t) \in Outside
  BY DEF Raised, Home
<1>2. ASSUME NEW here \in Doors, NEW there \in Entries,
             Begin(t, here, there),
             there = "kill_engage" <=> here = "kill_begin"
      PROVE  /\ at[t] \in Doors /\ owner = NoThread
             /\ Enters(t) \/ Refused(t) \/ (Holds(t) /\ UNCHANGED owner)
             /\ UNCHANGED <<thread, engineLock, open, lockdown, saved, draft>>
  <2> HIDE DEF Doors, Entries, Outside
  <2> USE DEF Begin, Hold, Raced, Arming, Goto, latches, postures
  <2>1. /\ at[t] \in Doors /\ owner = NoThread
        /\ UNCHANGED <<thread, engineLock, open, lockdown, saved, draft>>
    BY <1>2
  <2>2. CASE fault
    BY <1>1, <1>2, <2>2 DEF Refused, Leaves
  <2>3. CASE ~fault /\ Hold /\ Goto(t, Raised(t)) /\ UNCHANGED owner
    BY <1>1, <2>1, <2>3 DEF Holds, Leaves
  <2>4. CASE /\ ~fault /\ owner' = t /\ Goto(t, there)
             /\ UNCHANGED <<state, running, latches, raced>>
    <3>1. there = "kill_engage" <=> at[t] = "kill_begin"
      BY <1>2
    <3>2. /\ at' = [at EXCEPT ![t] = there]
          /\ UNCHANGED <<state, running, kill, fault, raced>>
      BY <2>4
    <3> QED
      BY <2>1, <2>4, <3>1, <3>2 DEF Enters
  <2> QED
    BY <1>2, <2>1, <2>2, <2>3, <2>4
<1> QED
  BY <1>2 DEF BeginAny

\* What commits one.
LEMMA CommitEffect ==
  ASSUME NEW t \in Threads, CommitAny(t)
  PROVE  /\ at[t] \in Commits /\ owner' = NoThread
         /\ Leaves(t)
         /\ \/ UNCHANGED <<state, running, kill, fault, raced>>
            \/ /\ fault' = TRUE /\ kill' = TRUE
               /\ state' = "KILL" /\ running' = FALSE
               /\ raced' = (raced \/ engineLock # NoThread)
         /\ UNCHANGED <<thread, engineLock, open, lockdown, saved, draft>>
<1>1. /\ Raised(t) \in Outside /\ Home(t) \in Outside /\ AfterTrade(t) \in Outside
      /\ "decide" \in Outside /\ "idle" \in Outside
  BY DEF Raised, Home, AfterTrade, Outside
<1>2. ASSUME NEW here \in Commits, NEW there \in Outside, Commit(t, here, there)
      PROVE  /\ at[t] \in Commits /\ owner' = NoThread
             /\ Leaves(t)
             /\ \/ UNCHANGED <<state, running, kill, fault, raced>>
                \/ /\ fault' = TRUE /\ kill' = TRUE
                   /\ state' = "KILL" /\ running' = FALSE
                   /\ raced' = (raced \/ engineLock # NoThread)
             /\ UNCHANGED <<thread, engineLock, open, lockdown, saved, draft>>
  BY <1>1, <1>2 DEF Commit, Hold, Raced, Arming, Goto, Leaves, latches,
     postures
<1> QED
  BY <1>1, <1>2 DEF CommitAny, Commits

\* What settles contracts inside one.
LEMMA SettleEffect ==
  ASSUME NEW t \in Threads, SettleAny(t)
  PROVE  /\ at[t] \in {"close_sell", "pump_settle"}
         /\ \E w \in {"close_commit", "pump_commit"} : at' = [at EXCEPT ![t] = w]
         /\ open' = open \/ open' = FALSE
         /\ \/ UNCHANGED <<kill, state, running, raced>>
            \/ /\ kill' = TRUE /\ state' = "KILL"
               /\ (running' = running /\ state = "KILL") \/ running' = FALSE
               /\ raced' = (raced \/ engineLock # NoThread)
         /\ UNCHANGED <<thread, fault, engineLock, owner, lockdown, saved, draft>>
BY DEF SettleAny, Settle, EngageKill, EnterKill, Raced, Arming, Goto, postures

---------------------------------------------------------------------------
\* Types of everything but places.
LEMMA ValuesStep == TypeOK /\ LocksOK /\ [Next]_vars => ValuesOK'
<1> SUFFICES ASSUME TypeOK, LocksOK, [Next]_vars
             PROVE  ValuesOK'
  OBVIOUS
<1> USE DEF TypeOK, ValuesOK, LocksOK, InTransaction, States, Threads
<1>1. CASE UNCHANGED vars
  BY <1>1 DEF vars, flags, latches, postures
<1>2. ASSUME NEW t \in Threads, OperationStep(t)
      PROVE  ValuesOK'
  <2>1. CASE BeginAny(t)
    BY <2>1, BeginEffect DEF Enters, Refused, Holds, Leaves, Doors, Commits,
       Outside
  <2>2. CASE CommitAny(t)
    BY <2>2, CommitEffect DEF Leaves, Commits, Outside
  <2>3. CASE SettleAny(t)
    BY <2>3, SettleEffect
  <2>4. CASE JudgeAny(t)
    BY <2>4 DEF JudgeAny, Judge, AfterTrade, Goto, flags, latches, postures
  <2>5. CASE Submit(t)
    BY <2>5 DEF Submit, Goto, flags, latches, postures
  <2>6. CASE KillShow(t)
    BY <2>6 DEF KillShow, Home, Goto, flags, latches, postures
  <2>7. CASE KillEngage(t)
    BY <2>7 DEF KillEngage, EngageKill, EnterKill, Raced, Arming, Goto, flags,
       latches, postures
  <2> QED
    BY <1>2, <2>1, <2>2, <2>3, <2>4, <2>5, <2>6, <2>7 DEF OperationStep
<1>3. ASSUME NEW t \in Loops, LoopStep(t)
      PROVE  ValuesOK'
  <2>1. CASE Top(t)
    BY <2>1 DEF Top, Goto, flags, latches, postures
  <2>2. CASE Decide(t)
    BY <2>2 DEF Decide, Goto, flags, latches, postures
  <2>3. CASE Lifeboat(t)
    BY <2>3 DEF Lifeboat, Goto, flags, latches, postures
  <2> QED
    BY <1>3, <2>1, <2>2, <2>3 DEF LoopStep
<1>4. ASSUME NEW t \in Consoles, ArmStep(t)
      PROVE  ValuesOK'
  <2>1. CASE ArmCheck(t)
    BY <2>1 DEF ArmCheck, ArmReturns, Goto, flags, latches, postures
  <2>2. CASE ArmAgain(t)
    BY <2>2 DEF ArmAgain, ArmReturns, Goto, flags, latches, postures
  <2>3. CASE ArmJoin(t)
    BY <2>3 DEF ArmJoin, LoopStopped, Goto, flags, latches, postures
  <2>4. CASE ArmShow(t)
    BY <2>4 DEF ArmShow, Goto, flags, latches, postures
  <2>5. CASE ArmRun(t)
    BY <2>5 DEF ArmRun, Goto, flags, latches, postures
  <2>6. CASE ArmStart(t)
    BY <2>6 DEF ArmStart, Goto, flags, latches, postures
  <2>7. CASE ArmLock(t)
    BY <2>7 DEF ArmLock, Goto, flags, latches, postures
  <2>8. CASE ArmTimesOut(t)
    BY <2>8 DEF ArmTimesOut, ArmReturns, Goto, flags, latches, postures
  <2> QED
    BY <1>4, <2>1, <2>2, <2>3, <2>4, <2>5, <2>6, <2>7, <2>8 DEF ArmStep
<1>5. ASSUME NEW t \in Consoles, OperatorStep(t)
      PROVE  ValuesOK'
  <2>1. CASE Call(t)
    BY <2>1 DEF Call, Goto, flags, latches, postures
  <2>2. CASE KillPress(t)
    BY <2>2 DEF KillPress, Raced, Arming, Goto, flags, latches, postures
  <2>3. CASE ClearLatches(t)
    BY <2>3 DEF ClearLatches, Goto, flags, latches, postures
  <2>4. CASE ClearShow(t)
    BY <2>4 DEF ClearShow, Goto, flags, latches, postures
  <2>5. CASE DraftAny(t)
    BY <2>5 DEF DraftAny, Draft, Goto, flags, latches, postures
  <2>6. CASE SaveAny(t)
    BY <2>6 DEF SaveAny, Save, Goto, flags, latches, postures
  <2> QED
    BY <1>5, <2>1, <2>2, <2>3, <2>4, <2>5, <2>6 DEF OperatorStep
<1> QED
  BY <1>1, <1>2, <1>3, <1>4, <1>5, Steps

\* Every thread stays among its places.
LEMMA PlacesStep == PlacesOK /\ [Next]_vars => PlacesOK'
<1> SUFFICES ASSUME PlacesOK, [Next]_vars
             PROVE  PlacesOK'
  OBVIOUS
<1>1. CASE UNCHANGED vars
  BY <1>1 DEF vars, PlacesOK
<1> USE DEF PlacesOf, LoopPlaces, ConsolePlaces, OperationPlaces, Threads
<1>2. ASSUME NEW t \in Threads, OperationStep(t)
      PROVE  PlacesOK'
  <2>1. CASE BeginAny(t)
    BY <2>1, GotoPlaces DEF BeginAny, Begin, Hold, Raced, Arming, Raised, Home,
       Goto, flags, latches, postures
  <2>2. CASE CommitAny(t)
    BY <2>2, GotoPlaces DEF CommitAny, Commit, Hold, Raced, Arming, Raised,
       Home, AfterTrade, Goto, flags, latches, postures
  <2>3. CASE SettleAny(t)
    BY <2>3, GotoPlaces DEF SettleAny, Settle, EngageKill, EnterKill, Raced,
       Arming, Goto, flags, latches, postures
  <2>4. CASE JudgeAny(t)
    BY <2>4, GotoPlaces DEF JudgeAny, Judge, AfterTrade, Goto, flags, latches,
       postures
  <2>5. CASE Submit(t)
    BY <2>5, GotoPlaces DEF Submit, Goto, flags, latches, postures
  <2>6. CASE KillShow(t)
    BY <2>6, GotoPlaces DEF KillShow, Home, Goto, flags, latches, postures
  <2>7. CASE KillEngage(t)
    BY <2>7, GotoPlaces DEF KillEngage, EngageKill, EnterKill, Raced, Arming,
       Goto, flags, latches, postures
  <2> QED
    BY <1>2, <2>1, <2>2, <2>3, <2>4, <2>5, <2>6, <2>7 DEF OperationStep
<1>3. ASSUME NEW t \in Loops, LoopStep(t)
      PROVE  PlacesOK'
  <2>1. CASE Top(t)
    BY <2>1, GotoPlaces DEF Top, Goto, flags, latches, postures
  <2>2. CASE Decide(t)
    BY <2>2, GotoPlaces DEF Decide, Goto, flags, latches, postures
  <2>3. CASE Lifeboat(t)
    BY <2>3, GotoPlaces DEF Lifeboat, Goto, flags, latches, postures
  <2> QED
    BY <1>3, <2>1, <2>2, <2>3 DEF LoopStep
<1>4. ASSUME NEW t \in Consoles, ArmStep(t)
      PROVE  PlacesOK'
  <2>1. CASE ArmCheck(t)
    BY <2>1, GotoPlaces DEF ArmCheck, ArmReturns, Goto, flags, latches,
       postures
  <2>2. CASE ArmAgain(t)
    BY <2>2, GotoPlaces DEF ArmAgain, ArmReturns, Goto, flags, latches,
       postures
  <2>3. CASE ArmJoin(t)
    BY <2>3, GotoPlaces DEF ArmJoin, LoopStopped, Goto, flags, latches, postures
  <2>4. CASE ArmShow(t)
    BY <2>4, GotoPlaces DEF ArmShow, Goto, flags, latches, postures
  <2>5. CASE ArmRun(t)
    BY <2>5, GotoPlaces DEF ArmRun, Goto, flags, latches, postures
  <2>6. CASE ArmStart(t)
    <3>1. PICK l \in Loops : at' = [at EXCEPT ![l] = "top", ![t] = "idle"]
      BY <2>6 DEF ArmStart
    <3>2. "top" \in PlacesOf(l) \cap LoopPlaces /\ "idle" \in PlacesOf(t) \cap ConsolePlaces
      OBVIOUS
    <3> HIDE DEF PlacesOf, LoopPlaces, ConsolePlaces
    <3> QED
      BY <3>1, <3>2 DEF PlacesOK
  <2>7. CASE ArmLock(t)
    BY <2>7, GotoPlaces DEF ArmLock, Goto, flags, latches, postures
  <2>8. CASE ArmTimesOut(t)
    BY <2>8, GotoPlaces DEF ArmTimesOut, ArmReturns, Goto, flags, latches, postures
  <2> QED
    BY <1>4, <2>1, <2>2, <2>3, <2>4, <2>5, <2>6, <2>7, <2>8 DEF ArmStep
<1>5. ASSUME NEW t \in Consoles, OperatorStep(t)
      PROVE  PlacesOK'
  <2>1. CASE Call(t)
    <3>1. \/ UNCHANGED at
          \/ \E w \in {"arm_lock", "clear_begin", "draft", "judge_manual", "close_begin"} :
               at' = [at EXCEPT ![t] = w]
      BY <2>1 DEF Call, Goto
    <3>2. CASE UNCHANGED at
      <4> HIDE DEF PlacesOf
      <4> QED
        BY <3>2 DEF PlacesOK
    <3> QED
      BY <3>1, <3>2, GotoPlaces
  <2>2. CASE KillPress(t)
    BY <2>2, GotoPlaces DEF KillPress, Raced, Arming, Goto, flags, latches,
       postures
  <2>3. CASE ClearLatches(t)
    BY <2>3, GotoPlaces DEF ClearLatches, Goto, flags, latches, postures
  <2>4. CASE ClearShow(t)
    BY <2>4, GotoPlaces DEF ClearShow, Goto, flags, latches, postures
  <2>5. CASE DraftAny(t)
    BY <2>5, GotoPlaces DEF DraftAny, Draft, Goto, flags, latches, postures
  <2>6. CASE SaveAny(t)
    BY <2>6, GotoPlaces DEF SaveAny, Save, Goto, flags, latches, postures
  <2> QED
    BY <1>5, <2>1, <2>2, <2>3, <2>4, <2>5, <2>6 DEF OperatorStep
<1> QED
  BY <1>1, <1>2, <1>3, <1>4, <1>5, Steps

\* Who holds which lock.
LEMMA LocksStep == TypeOK /\ LocksOK /\ [Next]_vars => LocksOK'
<1> SUFFICES ASSUME TypeOK, LocksOK, [Next]_vars
             PROVE  LocksOK'
  OBVIOUS
<1> USE DEF TypeOK, LocksOK, InTransaction, InArm, Threads
<1>1. CASE UNCHANGED vars
  BY <1>1 DEF vars, flags, latches, postures
<1>2. ASSUME NEW t \in Threads, OperationStep(t)
      PROVE  LocksOK'
  <2>1. CASE BeginAny(t)
    <3> HIDE DEF InTransaction, InArm
    <3>1. /\ at[t] \in Doors /\ owner = NoThread
          /\ UNCHANGED <<thread, engineLock, open, lockdown, saved, draft>>
      BY <2>1, BeginEffect
    <3>2. CASE Enters(t)
      BY <3>1, <3>2, Areas DEF Enters
    <3>3. CASE Refused(t)
      BY <3>1, <3>3, Areas DEF Refused, Leaves
    <3>4. CASE Holds(t) /\ UNCHANGED owner
      BY <3>1, <3>4, Areas DEF Holds, Leaves
    <3> QED
      BY <2>1, <3>2, <3>3, <3>4, BeginEffect
  <2>2. CASE CommitAny(t)
    <3> HIDE DEF InTransaction, InArm
    <3>1. /\ at[t] \in InTransaction /\ at[t] \notin InArm
          /\ owner = t /\ owner' = NoThread
          /\ UNCHANGED engineLock
      BY <2>2, CommitEffect, Areas
    <3>2. PICK w \in Outside : at' = [at EXCEPT ![t] = w]
      BY <2>2, CommitEffect DEF Leaves
    <3>3. w \notin InTransaction \cup InArm
      BY <3>2, Areas
    <3> QED
      BY <3>1, <3>2, <3>3
  <2>3. CASE SettleAny(t)
    BY <2>3, SettleEffect
  <2>4. CASE JudgeAny(t)
    BY <2>4 DEF JudgeAny, Judge, AfterTrade, Goto, flags, latches, postures
  <2>5. CASE Submit(t)
    BY <2>5 DEF Submit, Goto, flags, latches, postures
  <2>6. CASE KillShow(t)
    BY <2>6 DEF KillShow, Home, Goto, flags, latches, postures
  <2>7. CASE KillEngage(t)
    BY <2>7 DEF KillEngage, EngageKill, EnterKill, Raced, Arming, Goto, flags,
       latches, postures
  <2> QED
    BY <1>2, <2>1, <2>2, <2>3, <2>4, <2>5, <2>6, <2>7 DEF OperationStep
<1>3. ASSUME NEW t \in Loops, LoopStep(t)
      PROVE  LocksOK'
  <2>1. CASE Top(t)
    BY <2>1 DEF Top, Goto, flags, latches, postures
  <2>2. CASE Decide(t)
    BY <2>2 DEF Decide, Goto, flags, latches, postures
  <2>3. CASE Lifeboat(t)
    BY <2>3 DEF Lifeboat, Goto, flags, latches, postures
  <2> QED
    BY <1>3, <2>1, <2>2, <2>3 DEF LoopStep
<1>4. ASSUME NEW t \in Consoles, ArmStep(t)
      PROVE  LocksOK'
  <2>1. CASE ArmCheck(t)
    BY <2>1 DEF ArmCheck, ArmReturns, Goto, flags, latches, postures
  <2>2. CASE ArmAgain(t)
    BY <2>2 DEF ArmAgain, ArmReturns, Goto, flags, latches, postures
  <2>3. CASE ArmJoin(t)
    BY <2>3 DEF ArmJoin, LoopStopped, Goto, flags, latches, postures
  <2>4. CASE ArmShow(t)
    BY <2>4 DEF ArmShow, Goto, flags, latches, postures
  <2>5. CASE ArmRun(t)
    BY <2>5 DEF ArmRun, Goto, flags, latches, postures
  <2>6. CASE ArmStart(t)
    BY <2>6 DEF ArmStart, Goto, flags, latches, postures
  <2>7. CASE ArmLock(t)
    BY <2>7 DEF ArmLock, Goto, flags, latches, postures
  <2>8. CASE ArmTimesOut(t)
    BY <2>8 DEF ArmTimesOut, ArmReturns, Goto, flags, latches, postures
  <2> QED
    BY <1>4, <2>1, <2>2, <2>3, <2>4, <2>5, <2>6, <2>7, <2>8 DEF ArmStep
<1>5. ASSUME NEW t \in Consoles, OperatorStep(t)
      PROVE  LocksOK'
  <2>1. CASE Call(t)
    BY <2>1 DEF Call, Goto, flags, latches, postures
  <2>2. CASE KillPress(t)
    BY <2>2 DEF KillPress, Raced, Arming, Goto, flags, latches, postures
  <2>3. CASE ClearLatches(t)
    BY <2>3 DEF ClearLatches, Goto, flags, latches, postures
  <2>4. CASE ClearShow(t)
    BY <2>4 DEF ClearShow, Goto, flags, latches, postures
  <2>5. CASE DraftAny(t)
    BY <2>5 DEF DraftAny, Draft, Goto, flags, latches, postures
  <2>6. CASE SaveAny(t)
    BY <2>6 DEF SaveAny, Save, Goto, flags, latches, postures
  <2> QED
    BY <1>5, <2>1, <2>2, <2>3, <2>4, <2>5, <2>6 DEF OperatorStep
<1> QED
  BY <1>1, <1>2, <1>3, <1>4, <1>5, Steps

\* Which loop is alive.
LEMMA LoopsStep == IInv /\ [Next]_vars => LoopsOK'
<1> SUFFICES ASSUME IInv, [Next]_vars
             PROVE  LoopsOK'
  OBVIOUS
<1> USE DEF IInv, TypeOK, LocksOK, LoopsOK, Alive, InArm, PastGates, Threads
<1>1. CASE UNCHANGED vars
  BY <1>1 DEF vars, flags, latches, postures
<1>2. ASSUME NEW t \in Threads, OperationStep(t)
      PROVE  LoopsOK'
  <2>1. CASE BeginAny(t)
    <3>1. /\ at[t] \in Doors /\ owner = NoThread
          /\ UNCHANGED <<thread, engineLock, open, lockdown, saved, draft>>
      BY <2>1, BeginEffect
    <3>2. CASE Enters(t)
      BY <3>1, <3>2 DEF Enters, Doors, Outside, Entries, Commits
    <3>3. CASE Refused(t)
      BY <3>1, <3>3 DEF Refused, Leaves, Doors, Outside, Entries, Commits
    <3>4. CASE Holds(t) /\ UNCHANGED owner
      BY <3>1, <3>4 DEF Holds, Leaves, Doors, Outside, Entries, Commits
    <3> QED
      BY <2>1, <3>2, <3>3, <3>4, BeginEffect
  <2>2. CASE CommitAny(t)
    BY <2>2, CommitEffect DEF Leaves, Commits, Outside
  <2>3. CASE SettleAny(t)
    BY <2>3, SettleEffect
  <2>4. CASE JudgeAny(t)
    BY <2>4 DEF JudgeAny, Judge, AfterTrade, Goto, flags, latches, postures
  <2>5. CASE Submit(t)
    BY <2>5 DEF Submit, Goto, flags, latches, postures
  <2>6. CASE KillShow(t)
    BY <2>6 DEF KillShow, Home, Goto, flags, latches, postures
  <2>7. CASE KillEngage(t)
    BY <2>7 DEF KillEngage, EngageKill, EnterKill, Raced, Arming, Goto, flags,
       latches, postures
  <2> QED
    BY <1>2, <2>1, <2>2, <2>3, <2>4, <2>5, <2>6, <2>7 DEF OperationStep
<1>3. ASSUME NEW t \in Loops, LoopStep(t)
      PROVE  LoopsOK'
  <2>1. CASE Top(t)
    BY <2>1 DEF Top, Goto, flags, latches, postures
  <2>2. CASE Decide(t)
    BY <2>2 DEF Decide, Goto, flags, latches, postures
  <2>3. CASE Lifeboat(t)
    BY <2>3 DEF Lifeboat, Goto, flags, latches, postures
  <2> QED
    BY <1>3, <2>1, <2>2, <2>3 DEF LoopStep
<1>4. ASSUME NEW t \in Consoles, ArmStep(t)
      PROVE  LoopsOK'
  <2>1. CASE ArmCheck(t)
    BY <2>1 DEF ArmCheck, ArmReturns, Goto, flags, latches, postures
  <2>2. CASE ArmAgain(t)
    BY <2>2 DEF ArmAgain, ArmReturns, Goto, flags, latches, postures
  <2>3. CASE ArmJoin(t)
    BY <2>3 DEF ArmJoin, LoopStopped, Goto, flags, latches, postures
  <2>4. CASE ArmShow(t)
    BY <2>4 DEF ArmShow, Goto, flags, latches, postures
  <2>5. CASE ArmRun(t)
    BY <2>5 DEF ArmRun, Goto, flags, latches, postures
  <2>6. CASE ArmStart(t)
    BY <2>6 DEF ArmStart, Goto, flags, latches, postures
  <2>7. CASE ArmLock(t)
    BY <2>7 DEF ArmLock, Goto, flags, latches, postures
  <2>8. CASE ArmTimesOut(t)
    BY <2>8 DEF ArmTimesOut, ArmReturns, Goto, flags, latches, postures
  <2> QED
    BY <1>4, <2>1, <2>2, <2>3, <2>4, <2>5, <2>6, <2>7, <2>8 DEF ArmStep
<1>5. ASSUME NEW t \in Consoles, OperatorStep(t)
      PROVE  LoopsOK'
  <2>1. CASE Call(t)
    BY <2>1 DEF Call, Goto, flags, latches, postures
  <2>2. CASE KillPress(t)
    BY <2>2 DEF KillPress, Raced, Arming, Goto, flags, latches, postures
  <2>3. CASE ClearLatches(t)
    BY <2>3 DEF ClearLatches, Goto, flags, latches, postures
  <2>4. CASE ClearShow(t)
    BY <2>4 DEF ClearShow, Goto, flags, latches, postures
  <2>5. CASE DraftAny(t)
    BY <2>5 DEF DraftAny, Draft, Goto, flags, latches, postures
  <2>6. CASE SaveAny(t)
    BY <2>6 DEF SaveAny, Save, Goto, flags, latches, postures
  <2> QED
    BY <1>5, <2>1, <2>2, <2>3, <2>4, <2>5, <2>6 DEF OperatorStep
<1> QED
  BY <1>1, <1>2, <1>3, <1>4, <1>5, Steps

\* Races are recorded.
LEMMA RacingStep == IInv /\ [Next]_vars => Racing'
<1> SUFFICES ASSUME IInv, [Next]_vars
             PROVE  Racing'
  OBVIOUS
<1> USE DEF IInv, TypeOK, LocksOK, LoopsOK, Racing, KillUnderway, Clearing,
   Arming, InTransaction, InArm, PastGates, Threads, States
<1>1. CASE UNCHANGED vars
  BY <1>1 DEF vars, flags, latches, postures
<1>2. ASSUME NEW t \in Threads, OperationStep(t)
      PROVE  Racing'
  <2>1. CASE BeginAny(t)
    <3>1. /\ at[t] \in Doors /\ owner = NoThread
          /\ UNCHANGED <<thread, engineLock, open, lockdown, saved, draft>>
      BY <2>1, BeginEffect
    <3>2. CASE Enters(t)
      BY <3>1, <3>2 DEF Enters, Doors, Outside, Entries, Commits
    <3>3. CASE Refused(t)
      BY <3>1, <3>3 DEF Refused, Leaves, Doors, Outside, Entries, Commits
    <3>4. CASE Holds(t) /\ UNCHANGED owner
      BY <3>1, <3>4 DEF Holds, Leaves, Doors, Outside, Entries, Commits
    <3> QED
      BY <2>1, <3>2, <3>3, <3>4, BeginEffect
  <2>2. CASE CommitAny(t)
    <3>1. /\ at[t] \in Commits /\ Leaves(t)
          /\ UNCHANGED <<thread, engineLock, open, lockdown, saved, draft>>
      BY <2>2, CommitEffect
    <3>2. CASE UNCHANGED <<state, running, kill, fault, raced>>
      BY <3>1, <3>2 DEF Leaves, Commits, Outside
    <3>3. CASE running' = FALSE /\ raced' = (raced \/ engineLock # NoThread)
      BY <3>1, <3>3 DEF Leaves, Commits, Outside
    <3> QED
      BY <2>2, <3>2, <3>3, CommitEffect
  <2>3. CASE SettleAny(t)
    <3>1. PICK w \in {"close_commit", "pump_commit"} : at' = [at EXCEPT ![t] = w]
      BY <2>3, SettleEffect
    <3>2. at[t] \in {"close_sell", "pump_settle"} /\ UNCHANGED engineLock
      BY <2>3, SettleEffect
    <3>3. CASE UNCHANGED <<kill, state, running, raced>>
      BY <3>1, <3>2, <3>3
    <3>4. CASE /\ (running' = running /\ state = "KILL") \/ running' = FALSE
               /\ raced' = (raced \/ engineLock # NoThread)
      <4>1. \A c \in Consoles : at'[c] \in InArm => raced'
        BY <3>1, <3>2, <3>4
      <4>2. KillUnderway' => KillUnderway
        BY <3>1, <3>2
      <4>3. ~Clearing
        BY <3>2
      <4> QED
        BY <3>4, <4>1, <4>2, <4>3
    <3> QED
      BY <2>3, <3>3, <3>4, SettleEffect
  <2>4. CASE JudgeAny(t)
    BY <2>4 DEF JudgeAny, Judge, AfterTrade, Goto, flags, latches, postures
  <2>5. CASE Submit(t)
    BY <2>5 DEF Submit, Goto, flags, latches, postures
  <2>6. CASE KillShow(t)
    BY <2>6 DEF KillShow, Home, Goto, flags, latches, postures
  <2>7. CASE KillEngage(t)
    BY <2>7 DEF KillEngage, EngageKill, EnterKill, Raced, Arming, Goto, flags,
       latches, postures
  <2> QED
    BY <1>2, <2>1, <2>2, <2>3, <2>4, <2>5, <2>6, <2>7 DEF OperationStep
<1>3. ASSUME NEW t \in Loops, LoopStep(t)
      PROVE  Racing'
  <2>1. CASE Top(t)
    BY <2>1 DEF Top, Goto, flags, latches, postures
  <2>2. CASE Decide(t)
    BY <2>2 DEF Decide, Goto, flags, latches, postures
  <2>3. CASE Lifeboat(t)
    BY <2>3 DEF Lifeboat, Goto, flags, latches, postures
  <2> QED
    BY <1>3, <2>1, <2>2, <2>3 DEF LoopStep
<1>4. ASSUME NEW t \in Consoles, ArmStep(t)
      PROVE  Racing'
  <2>1. CASE ArmCheck(t)
    BY <2>1 DEF ArmCheck, ArmReturns, Goto, flags, latches, postures
  <2>2. CASE ArmAgain(t)
    BY <2>2 DEF ArmAgain, ArmReturns, Goto, flags, latches, postures
  <2>3. CASE ArmJoin(t)
    BY <2>3 DEF ArmJoin, LoopStopped, Goto, flags, latches, postures
  <2>4. CASE ArmShow(t)
    BY <2>4 DEF ArmShow, Goto, flags, latches, postures
  <2>5. CASE ArmRun(t)
    BY <2>5 DEF ArmRun, Goto, flags, latches, postures
  <2>6. CASE ArmStart(t)
    BY <2>6 DEF ArmStart, Goto, flags, latches, postures
  <2>7. CASE ArmLock(t)
    BY <2>7 DEF ArmLock, Goto, flags, latches, postures
  <2>8. CASE ArmTimesOut(t)
    BY <2>8 DEF ArmTimesOut, ArmReturns, Goto, flags, latches, postures
  <2> QED
    BY <1>4, <2>1, <2>2, <2>3, <2>4, <2>5, <2>6, <2>7, <2>8 DEF ArmStep
<1>5. ASSUME NEW t \in Consoles, OperatorStep(t)
      PROVE  Racing'
  <2>1. CASE Call(t)
    BY <2>1 DEF Call, Goto, flags, latches, postures
  <2>2. CASE KillPress(t)
    BY <2>2 DEF KillPress, Raced, Arming, Goto, flags, latches, postures
  <2>3. CASE ClearLatches(t)
    BY <2>3 DEF ClearLatches, Goto, flags, latches, postures
  <2>4. CASE ClearShow(t)
    BY <2>4 DEF ClearShow, Goto, flags, latches, postures
  <2>5. CASE DraftAny(t)
    BY <2>5 DEF DraftAny, Draft, Goto, flags, latches, postures
  <2>6. CASE SaveAny(t)
    BY <2>6 DEF SaveAny, Save, Goto, flags, latches, postures
  <2> QED
    BY <1>5, <2>1, <2>2, <2>3, <2>4, <2>5, <2>6 DEF OperatorStep
<1> QED
  BY <1>1, <1>2, <1>3, <1>4, <1>5, Steps

\* A latched kill has stopped the loop.
LEMMA KillStep == IInv /\ [Next]_vars => KillStops'
<1> SUFFICES ASSUME IInv, [Next]_vars
             PROVE  KillStops'
  OBVIOUS
<1> USE DEF IInv, TypeOK, LocksOK, LoopsOK, Racing, KillStops, KillUnderway,
   Clearing, Arming, InTransaction, InArm, PastGates, Threads
<1>1. CASE UNCHANGED vars
  BY <1>1 DEF vars, flags, latches, postures
<1>2. ASSUME NEW t \in Threads, OperationStep(t)
      PROVE  KillStops'
  <2>1. CASE BeginAny(t)
    BY <2>1, BeginEffect DEF Enters, Refused, Holds, Leaves, Doors, Commits,
       Outside
  <2>2. CASE CommitAny(t)
    BY <2>2, CommitEffect DEF Leaves, Commits, Outside
  <2>3. CASE SettleAny(t)
    BY <2>3, SettleEffect
  <2>4. CASE JudgeAny(t)
    BY <2>4 DEF JudgeAny, Judge, AfterTrade, Goto, flags, latches, postures
  <2>5. CASE Submit(t)
    BY <2>5 DEF Submit, Goto, flags, latches, postures
  <2>6. CASE KillShow(t)
    BY <2>6 DEF KillShow, Home, Goto, flags, latches, postures
  <2>7. CASE KillEngage(t)
    BY <2>7 DEF KillEngage, EngageKill, EnterKill, Raced, Arming, Goto, flags,
       latches, postures
  <2> QED
    BY <1>2, <2>1, <2>2, <2>3, <2>4, <2>5, <2>6, <2>7 DEF OperationStep
<1>3. ASSUME NEW t \in Loops, LoopStep(t)
      PROVE  KillStops'
  <2>1. CASE Top(t)
    BY <2>1 DEF Top, Goto, flags, latches, postures
  <2>2. CASE Decide(t)
    BY <2>2 DEF Decide, Goto, flags, latches, postures
  <2>3. CASE Lifeboat(t)
    BY <2>3 DEF Lifeboat, Goto, flags, latches, postures
  <2> QED
    BY <1>3, <2>1, <2>2, <2>3 DEF LoopStep
<1>4. ASSUME NEW t \in Consoles, ArmStep(t)
      PROVE  KillStops'
  <2>1. CASE ArmCheck(t)
    BY <2>1 DEF ArmCheck, ArmReturns, Goto, flags, latches, postures
  <2>2. CASE ArmAgain(t)
    BY <2>2 DEF ArmAgain, ArmReturns, Goto, flags, latches, postures
  <2>3. CASE ArmJoin(t)
    BY <2>3 DEF ArmJoin, LoopStopped, Goto, flags, latches, postures
  <2>4. CASE ArmShow(t)
    BY <2>4 DEF ArmShow, Goto, flags, latches, postures
  <2>5. CASE ArmRun(t)
    BY <2>5 DEF ArmRun, Goto, flags, latches, postures
  <2>6. CASE ArmStart(t)
    BY <2>6 DEF ArmStart, Goto, flags, latches, postures
  <2>7. CASE ArmLock(t)
    BY <2>7 DEF ArmLock, Goto, flags, latches, postures
  <2>8. CASE ArmTimesOut(t)
    BY <2>8 DEF ArmTimesOut, ArmReturns, Goto, flags, latches, postures
  <2> QED
    BY <1>4, <2>1, <2>2, <2>3, <2>4, <2>5, <2>6, <2>7, <2>8 DEF ArmStep
<1>5. ASSUME NEW t \in Consoles, OperatorStep(t)
      PROVE  KillStops'
  <2>1. CASE Call(t)
    BY <2>1 DEF Call, Goto, flags, latches, postures
  <2>2. CASE KillPress(t)
    BY <2>2 DEF KillPress, Raced, Arming, Goto, flags, latches, postures
  <2>3. CASE ClearLatches(t)
    BY <2>3 DEF ClearLatches, Goto, flags, latches, postures
  <2>4. CASE ClearShow(t)
    BY <2>4 DEF ClearShow, Goto, flags, latches, postures
  <2>5. CASE DraftAny(t)
    BY <2>5 DEF DraftAny, Draft, Goto, flags, latches, postures
  <2>6. CASE SaveAny(t)
    BY <2>6 DEF SaveAny, Save, Goto, flags, latches, postures
  <2> QED
    BY <1>5, <2>1, <2>2, <2>3, <2>4, <2>5, <2>6 DEF OperatorStep
<1> QED
  BY <1>1, <1>2, <1>3, <1>4, <1>5, Steps

---------------------------------------------------------------------------

\* The engine starts (boot) in the invariant.
LEMMA InitIInv == Init => IInv
<1> SUFFICES ASSUME Init
             PROVE  IInv
  OBVIOUS
<1> USE DEF Init, Threads
<1>1. TypeOK
  BY DEF TypeOK, States, PlacesOf, LoopPlaces, ConsolePlaces, OperationPlaces
<1>2. LocksOK
  BY DEF LocksOK, InTransaction, InArm
<1>3. LoopsOK
  BY DEF LoopsOK, Alive, PastGates
<1>4. Racing
  BY DEF Racing, KillUnderway, PastGates
<1>5. KillStops
  BY DEF KillStops
<1> QED
  BY <1>1, <1>2, <1>3, <1>4, <1>5 DEF IInv

\* Every step of every thread keeps the invariant.
LEMMA StepIInv == IInv /\ [Next]_vars => IInv'
BY ValuesStep, PlacesStep, LocksStep, LoopsStep, RacingStep, KillStep DEF IInv,
   TypeOK, ValuesOK,
   PlacesOK

\* The inductive invariant holds in every reachable state.
THEOREM Invariance == Spec => []IInv
BY InitIInv, StepIInv, PTL DEF Spec

\* Type correctness, for any threads: in particular a recovery hold always
\* has the kill latched.
THEOREM TypeCorrect == Spec => []TypeOK
<1>1. IInv => TypeOK
  BY DEF IInv
<1> QED
  BY <1>1, Invariance, PTL

\* No mix of arm, kill, clear and disarm from any number of threads starts a
\* second decision loop (TradingEngine._arm).
THEOREM SingleLoop == Spec => []OneLoop
<1>1. IInv => OneLoop
  BY DEF IInv, LoopsOK, OneLoop, Alive
<1> QED
  BY <1>1, Invariance, PTL

\* A latched kill has stopped the loop and keeps it stopped, unless an arm
\* overlapped it (TradingEngine.kill, _enter_kill, Continuity._fail).
THEOREM KillIsEffective == Spec => []KillStops
<1>1. IInv => KillStops
  BY DEF IInv
<1> QED
  BY <1>1, Invariance, PTL

===========================================================================
