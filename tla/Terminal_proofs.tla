-------------------------- MODULE Terminal_proofs --------------------------
(***************************************************************************)
(* For any attempts and purses: the types of Terminal, that a waiting      *)
(* attempt has a worker, that the lease serves the engine in service, and  *)
(* that no durable engine with a live book is replaced.                    *)
(***************************************************************************)
EXTENDS Terminal, TLAPS

IInv == TypeOK /\ WaitingIsServed /\ LeaseServes

---------------------------------------------------------------------------
(* What an adoption that fails, and a boot that succeeds, leave. *)

LEMMA FailureTypes ==
  ASSUME TypeOK, NEW why \in {"venue", "lease"}, AdoptionFails(why)
  PROVE  /\ phase' \in Phases /\ epoch' \in Nat
         /\ purse' \in Purses \cup {NoPurse}
         /\ error' \in {"none", "pairing", "venue", "lease"}
         /\ serve' = "sleep" /\ cookie' \in Attempts \cup {NoCookie}
         /\ UNCHANGED <<phase, epoch>> \/ ~Waiting'
BY DEF TypeOK, AdoptionFails, NoteError, controller, Waiting, Phases

LEMMA FreshType ==
  ASSUME TypeOK, NEW degraded \in BOOLEAN, NEW hold \in Holds,
         NEW live \in BOOLEAN
  PROVE  Fresh(degraded, hold, live) \in Engines
BY DEF TypeOK, Fresh, Engines, Holds

LEMMA EngineRunsType ==
  ASSUME TypeOK, EngineRuns
  PROVE  hub' \in Engines /\ hub'.from = hub.from
<1>1. hub \in Engines
  BY DEF TypeOK, EngineRuns
<1> USE <1>1
<1>2. ASSUME NEW live \in BOOLEAN, hub' = [hub EXCEPT !.live = live]
      PROVE  hub' \in Engines /\ hub'.from = hub.from
  BY <1>2 DEF Engines
<1>3. ASSUME NEW b \in BOOLEAN, hub' = [hub EXCEPT !.open = b]
      PROVE  hub' \in Engines /\ hub'.from = hub.from
  BY <1>3 DEF Engines
<1>4. ASSUME NEW why \in Holds,
             hub' = [hub EXCEPT !.hold = why, !.live = FALSE]
      PROVE  hub' \in Engines /\ hub'.from = hub.from
  BY <1>4 DEF Engines, Holds
<1>5. ASSUME hub' = [hub EXCEPT !.degraded = FALSE]
      PROVE  hub' \in Engines /\ hub'.from = hub.from
  BY <1>5 DEF Engines
<1> QED
  BY <1>2, <1>3, <1>4, <1>5 DEF EngineRuns

LEMMA ReseatType ==
  ASSUME TypeOK, Reseat
  PROVE  hub' \in Engines /\ hub'.from = hub.from
<1>1. hub \in Engines /\ cookie \in Cookies
  BY DEF TypeOK, Reseat, Cookies
<1> QED
  BY <1>1 DEF Reseat, Engines

---------------------------------------------------------------------------
(* Types. *)

LEMMA TypeInit == Init => TypeOK
BY DEF Init, TypeOK, PursesKnown, Phases, WorkerPlaces, ServePlaces, Cookies

LEMMA PurseStep ==
  ASSUME TypeOK, [Next]_vars
  PROVE  PursesKnown'
<1> USE DEF TypeOK, PursesKnown, controller, workers, Goto
<1>1. ASSUME NEW a \in Attempts, NEW p \in Purses, Start(a, p)
      PROVE  PursesKnown'
  BY <1>1 DEF Start
<1>2. ASSUME NEW a \in Attempts, Worker(a)
      PROVE  PursesKnown'
  <2> UNCHANGED purse
    BY <1>2 DEF Worker, Land, ReportFailure, ReadPurse, WriteSession,
                WritePurse, Queue, MarkReady
  <2>1. CASE ReadPurse(a)
    BY <2>1 DEF ReadPurse
  <2>2. CASE ~ReadPurse(a)
    BY <1>2, <2>2 DEF Worker, Land, ReportFailure, WriteSession,
                      WritePurse, Queue, MarkReady
  <2> QED
    BY <2>1, <2>2
<1>3. CASE Cancel \/ Serving \/ EngineRuns \/ UNCHANGED vars
  <2>1. UNCHANGED <<at, handing, purse>>
    BY <1>3 DEF Cancel, Serving, TakeUp, Reseat, BuildPurse, BuildSession,
                Connect, Acquire, Boot, AdoptionFails, NoteError, EngineRuns,
                vars
  <2> QED
    BY <2>1
<1> QED
  BY <1>1, <1>2, <1>3 DEF Next

LEMMA TypeStep ==
  ASSUME TypeOK, [Next]_vars
  PROVE  TypeOK'
<1> USE PurseStep DEF TypeOK, controller, workers, serving, Goto
<1>1. CASE UNCHANGED vars
  BY <1>1 DEF vars
<1>2. ASSUME NEW a \in Attempts, NEW p \in Purses, Start(a, p),
             UNCHANGED durable
      PROVE  TypeOK'
  BY <1>2 DEF Start, Phases, WorkerPlaces
<1>3. ASSUME NEW a \in Attempts, Worker(a), UNCHANGED durable
      PROVE  TypeOK'
  <2>1. CASE Land(a)
    BY <1>3, <2>1 DEF Land, WorkerPlaces
  <2>2. CASE ReportFailure(a)
    BY <1>3, <2>2 DEF ReportFailure, WorkerPlaces, Phases
  <2>3. CASE ReadPurse(a)
    BY <1>3, <2>3 DEF ReadPurse, WorkerPlaces
  <2>4. CASE WriteSession(a)
    BY <1>3, <2>4 DEF WriteSession, WorkerPlaces, Cookies
  <2>5. CASE WritePurse(a)
    BY <1>3, <2>5 DEF WritePurse, WorkerPlaces, PursesKnown
  <2>6. CASE Queue(a)
    BY <1>3, <2>6 DEF Queue, WorkerPlaces
  <2>7. CASE MarkReady(a)
    BY <1>3, <2>7 DEF MarkReady, WorkerPlaces, Phases
  <2> QED
    BY <1>3, <2>1, <2>2, <2>3, <2>4, <2>5, <2>6, <2>7 DEF Worker
<1>4. CASE Cancel /\ UNCHANGED durable
  BY <1>4 DEF Cancel, Phases
<1>5. ASSUME Serving, UNCHANGED durable
      PROVE  TypeOK'
  <2>1. CASE TakeUp
    BY <1>5, <2>1 DEF TakeUp, ServePlaces
  <2>2. CASE Reseat
    BY <1>5, <2>2, FailureTypes, ReseatType DEF Reseat, ServePlaces
  <2>3. CASE BuildPurse
    BY <1>5, <2>3 DEF BuildPurse, ServePlaces
  <2>4. CASE BuildSession
    BY <1>5, <2>4 DEF BuildSession, ServePlaces
  <2>5. CASE Connect
    BY <1>5, <2>5, FailureTypes DEF Connect, ServePlaces
  <2>6. CASE Acquire
    BY <1>5, <2>6, FailureTypes DEF Acquire, ServePlaces
  <2>7. CASE Boot
    <3>1. UNCHANGED <<workers, cfg, pending, build>>
      BY <2>7 DEF Boot
    <3>2. CASE AdoptionFails("venue") /\ ReleaseLease /\ UNCHANGED hub
      BY <1>5, <3>1, <3>2, FailureTypes DEF ReleaseLease, ServePlaces
    <3>3. CASE ~(AdoptionFails("venue") /\ ReleaseLease /\ UNCHANGED hub)
      <4>1. PICK degraded \in BOOLEAN, hold \in Holds, auto \in BOOLEAN :
              hub' = Fresh(degraded, hold, auto /\ hold = "none")
        BY <2>7, <3>3 DEF Boot
      <4>2. hub' \in Engines
        BY <4>1, FreshType
      <4>3. /\ UNCHANGED controller \/ NoteError("venue")
            /\ serve' = "sleep" /\ cookie' = NoCookie
            /\ lease' = IF durable THEN "hub" ELSE lease
        BY <2>7, <3>3 DEF Boot
      <4> QED
        BY <1>5, <3>1, <4>2, <4>3 DEF ServePlaces, NoteError, Phases
    <3> QED
      BY <3>2, <3>3
  <2> QED
    BY <1>5, <2>1, <2>2, <2>3, <2>4, <2>5, <2>6, <2>7 DEF Serving
<1>6. CASE EngineRuns /\ UNCHANGED durable
  BY <1>6, EngineRunsType, EnginesAssumption DEF EngineRuns
<1> QED
  BY <1>1, <1>2, <1>3, <1>4, <1>5, <1>6 DEF Next

---------------------------------------------------------------------------
(* The veil. *)

LEMMA WaitingStep ==
  ASSUME TypeOK, WaitingIsServed, [Next]_vars
  PROVE  WaitingIsServed'
<1> USE DEF TypeOK, WaitingIsServed, Waiting, Live, controller, workers, Goto
<1>1. ASSUME NEW a \in Attempts, NEW p \in Purses, Start(a, p)
      PROVE  WaitingIsServed'
  <2>1. since'[a] = epoch' /\ at'[a] = "chrome"
    BY <1>1 DEF Start
  <2> QED
    BY <2>1
<1>2. ASSUME NEW a \in Attempts, Worker(a)
      PROVE  WaitingIsServed'
  <2> USE <1>2
  <2>1. CASE Land(a)
    BY <2>1 DEF Land
  <2>2. CASE ReportFailure(a)
    BY <2>2 DEF ReportFailure
  <2>3. CASE ReadPurse(a)
    BY <2>3 DEF ReadPurse
  <2>4. CASE WriteSession(a)
    BY <2>4 DEF WriteSession
  <2>5. CASE WritePurse(a)
    BY <2>5 DEF WritePurse
  <2>6. CASE Queue(a)
    BY <2>6 DEF Queue
  <2>7. CASE MarkReady(a)
    BY <2>7 DEF MarkReady
  <2> QED
    BY <2>1, <2>2, <2>3, <2>4, <2>5, <2>6, <2>7 DEF Worker
<1>3. CASE Cancel
  BY <1>3 DEF Cancel
<1>4. ASSUME Serving
      PROVE  WaitingIsServed'
  <2>1. UNCHANGED workers
    BY <1>4 DEF Serving, TakeUp, Reseat, BuildPurse, BuildSession, Connect,
                Acquire, Boot
  <2>2. UNCHANGED controller \/ ~Waiting'
    BY <1>4 DEF Serving, TakeUp, Reseat, BuildPurse, BuildSession, Connect,
                Acquire, Boot, AdoptionFails, NoteError
  <2> QED
    BY <2>1, <2>2
<1>5. CASE EngineRuns \/ UNCHANGED vars
  BY <1>5 DEF EngineRuns, vars
<1> QED
  BY <1>1, <1>2, <1>3, <1>4, <1>5 DEF Next

---------------------------------------------------------------------------
(* The lease. *)

LEMMA LeaseStep ==
  ASSUME TypeOK, LeaseServes, [Next]_vars
  PROVE  LeaseServes'
<1> USE DEF LeaseServes, serving
<1>1. ASSUME NEW a \in Attempts,
             Worker(a) \/ (\E p \in Purses : Start(a, p)), UNCHANGED durable
      PROVE  LeaseServes'
  BY <1>1 DEF Worker, Land, ReportFailure, ReadPurse, WriteSession, WritePurse,
              Queue, MarkReady, Start
<1>2. CASE (Cancel \/ UNCHANGED vars) /\ UNCHANGED durable
  BY <1>2 DEF Cancel, vars
<1>3. ASSUME Serving, UNCHANGED durable
      PROVE  LeaseServes'
  <2> USE <1>3
  <2>1. CASE TakeUp
    BY <2>1 DEF TakeUp
  <2>2. CASE Reseat
    BY <2>2, FailureTypes, ReseatType, EnginesAssumption DEF Reseat, TypeOK
  <2>3. CASE BuildPurse \/ BuildSession
    BY <2>3 DEF BuildPurse, BuildSession
  <2>4. CASE Connect
    BY <2>4, FailureTypes DEF Connect
  <2>5. CASE Acquire
    BY <2>5, FailureTypes DEF Acquire
  <2>6. CASE Boot
    BY <2>6, FailureTypes, FreshType, EnginesAssumption DEF Boot, ReleaseLease
  <2> QED
    BY <2>1, <2>2, <2>3, <2>4, <2>5, <2>6 DEF Serving
<1>4. CASE EngineRuns /\ UNCHANGED durable
  BY <1>4, EngineRunsType, EnginesAssumption DEF EngineRuns
<1> QED
  BY <1>1, <1>2, <1>3, <1>4 DEF Next, vars
LEMMA InvInit == Init => IInv
BY TypeInit DEF IInv, Init, WaitingIsServed, Waiting, LeaseServes

\* In every reachable state the types, the veil's worker and the lease are
\* right; every other theorem here follows from it.
THEOREM Invariance == Spec => []IInv
<1>1. IInv /\ [Next]_vars => IInv'
  BY TypeStep, WaitingStep, LeaseStep DEF IInv
<1> QED
  BY InvInit, <1>1, PTL DEF Spec

\* The pairing controller, the queue, the engine in service and the lease keep
\* their types; a re-seat always has an engine and a cookie.
THEOREM TypeCorrect == Spec => []TypeOK
BY Invariance, PTL DEF IInv

\* Whatever cancels, late workers and failed adoptions do, an attempt that
\* shows as waiting has a worker whose answer will count.
THEOREM VeilServed == Spec => []WaitingIsServed
BY Invariance, PTL DEF IInv

\* The lease is with the engine in service, or with the only one that boots.
THEOREM OneWriter == Spec => []LeaseServes
BY Invariance, PTL DEF IInv

LEMMA LiveBookStep ==
  ASSUME IInv, [Next]_vars, durable, hub # NoEngine
  PROVE  hub' # NoEngine /\ hub'.from = hub.from
<1> USE DEF IInv, serving
<1>1. lease = "hub" /\ serve # "warm"
  BY DEF LeaseServes
<1>2. ASSUME NEW a \in Attempts,
             Worker(a) \/ (\E p \in Purses : Start(a, p))
      PROVE  hub' = hub
  BY <1>2 DEF Worker, Land, ReportFailure, ReadPurse, WriteSession, WritePurse,
              Queue, MarkReady, Start
<1>3. CASE Cancel \/ UNCHANGED vars
  BY <1>3 DEF Cancel, vars
<1>4. CASE Serving
  BY <1>1, <1>4, ReseatType, EnginesAssumption
     DEF Serving, TakeUp, BuildPurse, BuildSession, Connect, Acquire, Boot
<1>5. CASE EngineRuns
  BY <1>5, EngineRunsType, EnginesAssumption
<1> QED
  BY <1>2, <1>3, <1>4, <1>5 DEF Next

\* No step takes an engine with a live book out of service while a checkpoint
\* file is kept: the lease excludes the engine that would replace it.
THEOREM BookStaysServed == Spec => LiveBookKept
<1>1. IInv /\ [Next]_vars
        => [durable /\ hub # NoEngine /\ (hub.live \/ hub.open)
              => hub' # NoEngine /\ hub'.from = hub.from]_vars
  BY LiveBookStep
<1> QED
  BY Invariance, <1>1, PTL DEF Spec, LiveBookKept
===========================================================================
