----------------------------- MODULE Watchdog -----------------------------
(***************************************************************************)
(* Watchdog (bot/watchdog.py): the engine's loop reports its heartbeat and *)
(* its ticks, and both the loop and a thread of the watchdog's own sweep   *)
(* for what has gone stale.  A sweep collects its anomalies under the lock *)
(* and notes them one by one afterwards, so two sweeps interleave.         *)
(*                                                                         *)
(* arm() starts a watchdog thread every time and neither disarm nor kill   *)
(* stops one; stop() joins the last.  All of them watch one _running flag. *)
(* A severity is counted in tenths.  Probes are the detectors somebody     *)
(* feeds: set_latency, check_price_jump and check_gap have no caller in    *)
(* this repository, so there it is empty.                                  *)
(***************************************************************************)
EXTENDS Integers, Sequences

CONSTANTS
  Guards,       \* generations of the thread "watchdog"
  Engine,       \* the loop's thread
  NoGuard,
  Feeds,
  Probes,       \* subset of {"latency", "jump", "gap"}
  MaxStale,     \* max_stale_seconds
  MaxLatency,   \* max_latency_ms
  Kept,         \* the anomalies kept (200)
  Shown,        \* the anomalies healthy() looks at (5)
  LastSecond    \* bound on the clock

VARIABLES
  clock,
  beatAt,       \* the engine's last heartbeat (0: none)
  tickAt,       \* the last tick of each asset (0: none)
  latency,      \* _latency_ms
  anomalies,    \* _anomalies: their severities
  pending,      \* what each thread found and has still to note
  running,      \* _running
  latest,       \* _thread
  alive,        \* the watchdog threads that have not ended
  killed        \* history: the kill callback was called

watchVars == <<clock, beatAt, tickAt, latency, anomalies, pending, running, latest,
               alive, killed>>

Fatal == 9

Watchers == Guards \cup {Engine}

Clamp(x, low, high) == IF x < low THEN low ELSE IF x > high THEN high ELSE x

\* The last n of a list.
Latest(list, n) ==
  SubSeq(list, IF Len(list) > n THEN Len(list) - n + 1 ELSE 1, Len(list))

\* Something that was never seen has an infinite age, but sweeps know only
\* what has reported once.
Stale(at) == at # 0 /\ clock - at > MaxStale

LatencySeverity == Clamp((10 * latency) \div (2 * MaxLatency), 1, 10)

\* A move of z standard deviations, from 8 on; a gap of so many times the volatility.
JumpSeverity(z) == Clamp((10 * z) \div 12, 5, 10)
GapSeverity(times) == Clamp((10 * times) \div 8, 4, 10)

\* What a sweep finds: the stale heartbeat, the silent feeds, the latency.
Findings ==
  {<<"stale_heartbeat", 8>> : x \in {y \in {beatAt} : Stale(y)}}
  \cup {<<a, 7>> : a \in {b \in Feeds : Stale(tickAt[b])}}
  \cup {<<"latency", LatencySeverity>> : x \in {y \in {latency} : y > MaxLatency}}

---------------------------------------------------------------------------

\* beat("engine") of a cycle, always ok.
Beat ==
  /\ beatAt' = clock
  /\ UNCHANGED <<clock, tickAt, latency, anomalies, pending, running, latest, alive, killed>>

MarkTick(a) ==
  /\ tickAt' = [tickAt EXCEPT ![a] = clock]
  /\ UNCHANGED <<clock, beatAt, latency, anomalies, pending, running, latest, alive, killed>>

SetLatency(ms) ==
  /\ "latency" \in Probes /\ latency' = ms
  /\ UNCHANGED <<clock, beatAt, tickAt, anomalies, pending, running, latest, alive, killed>>

\* The part of a sweep that holds the lock; t notes what it found next.
Sweep(t) ==
  /\ pending[t] = {}
  /\ t \in Guards => t \in alive /\ running
  /\ pending' = [pending EXCEPT ![t] = Findings]
  /\ UNCHANGED <<clock, beatAt, tickAt, latency, anomalies, running, latest, alive, killed>>

\* check_price_jump and check_gap note what they find on the caller's thread.
CheckPriceJump(z) ==
  /\ "jump" \in Probes /\ z >= 8 /\ pending[Engine] = {}
  /\ pending' = [pending EXCEPT ![Engine] = {<<"price_jump", JumpSeverity(z)>>}]
  /\ UNCHANGED <<clock, beatAt, tickAt, latency, anomalies, running, latest, alive, killed>>

CheckGap(times) ==
  /\ "gap" \in Probes /\ times > 4 /\ pending[Engine] = {}
  /\ pending' = [pending EXCEPT ![Engine] = {<<"gap", GapSeverity(times)>>}]
  /\ UNCHANGED <<clock, beatAt, tickAt, latency, anomalies, running, latest, alive, killed>>

\* note: remember, and kill on a fatal one.
Note(t, anomaly) ==
  /\ anomaly \in pending[t]
  /\ pending' = [pending EXCEPT ![t] = @ \ {anomaly}]
  /\ anomalies' = Latest(Append(anomalies, anomaly[2]), Kept)
  /\ killed' = (killed \/ anomaly[2] >= Fatal)
  /\ UNCHANGED <<clock, beatAt, tickAt, latency, running, latest, alive>>

\* start, by every arm: a new thread, whether or not one runs.
Start(g) ==
  /\ g \in Guards \ alive /\ pending[g] = {}
  /\ running' = TRUE /\ latest' = g /\ alive' = alive \cup {g}
  /\ UNCHANGED <<clock, beatAt, tickAt, latency, anomalies, pending, killed>>

\* stop, by the engine's shutdown; its join of the last thread may time out.
Stop ==
  /\ running' = FALSE
  /\ UNCHANGED <<clock, beatAt, tickAt, latency, anomalies, pending, latest, alive, killed>>

\* A thread sees the flag down, at most a second after its last sweep.
GuardEnds(g) ==
  /\ g \in alive /\ ~running /\ pending[g] = {}
  /\ alive' = alive \ {g}
  /\ UNCHANGED <<clock, beatAt, tickAt, latency, anomalies, pending, running, latest, killed>>

Second ==
  /\ clock < LastSecond /\ clock' = clock + 1
  /\ UNCHANGED <<beatAt, tickAt, latency, anomalies, pending, running, latest, alive, killed>>

\* healthy(): no beat that is not ok, and no fatal one among the latest anomalies.
Healthy ==
  \A i \in 1..Len(Latest(anomalies, Shown)) : Latest(anomalies, Shown)[i] < Fatal

WatchInit ==
  /\ clock = 1 /\ beatAt = 0 /\ tickAt = [a \in Feeds |-> 0] /\ latency = 0
  /\ anomalies = <<>> /\ pending = [t \in Watchers |-> {}]
  /\ running = FALSE /\ latest = NoGuard /\ alive = {}
  /\ killed = FALSE

Guarding(g) == Sweep(g) \/ GuardEnds(g) \/ \E anomaly \in pending[g] : Note(g, anomaly)

WatchNext ==
  \/ Beat \/ \E a \in Feeds : MarkTick(a)
  \/ Sweep(Engine) \/ \E anomaly \in pending[Engine] : Note(Engine, anomaly)
  \/ \E g \in Guards : Start(g) \/ Guarding(g)
  \/ Stop \/ Second
  \/ \E n \in 0..(2 * MaxLatency) : SetLatency(n)
  \/ \E n \in 5..12 : CheckPriceJump(n) \/ CheckGap(n)

WatchSpec == WatchInit /\ [][WatchNext]_watchVars

\* Every watchdog thread keeps running; the clock ticks.
WatchFairSpec == WatchSpec /\ \A g \in Guards : WF_watchVars(Guarding(g))

---------------------------------------------------------------------------
(* Properties. *)

WatchTypeOK ==
  /\ clock \in Nat /\ beatAt \in Nat /\ tickAt \in [Feeds -> Nat] /\ latency \in Nat
  /\ anomalies \in Seq(1..10) /\ Len(anomalies) <= Kept
  /\ running \in BOOLEAN /\ latest \in Guards \cup {NoGuard} /\ alive \subseteq Guards
  /\ killed \in BOOLEAN
  /\ DOMAIN pending = Watchers

\* A heartbeat or a feed that is gone for however long never reaches the kill
\* callback: without the three detectors no anomaly is fatal, and status()
\* says healthy while every beat is stale.
NeverFatal == ~killed /\ Healthy

\* Watchdog threads end after the shutdown's stop.  Only model-checked.
GuardsEnd == <>[](~running) => <>[](alive = {})

\* One watchdog thread at a time: TLC refutes it (README), each arm after a
\* disarm adds one.
OneGuard == \A g, h \in alive : g = h

===========================================================================
