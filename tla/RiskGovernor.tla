--------------------------- MODULE RiskGovernor ---------------------------
(***************************************************************************)
(* The clocked limits of RiskManager (risk/manager.py): hourly and daily   *)
(* order budgets, the daily-loss lock, the loss-streak cooldown and the    *)
(* total-drawdown kill, under a system clock that may step backwards, and  *)
(* across restarts that restore the governor from its checkpoint.          *)
(*                                                                         *)
(* The OMS lock serializes the governor's callers, so an order is two      *)
(* steps: authorize, then on_open once the frame has gone out.  Time, and  *)
(* a crash, may come between.  TradeBook models the rest of the money      *)
(* path; here open contracts are indistinguishable and only counted, and   *)
(* every stake is the largest one, RiskConfig.max_stake.                   *)
(***************************************************************************)
EXTENDS Integers

CONSTANTS
  HourLength,       \* 3600
  DayLength,        \* 86400
  Stake,            \* max_stake
  Profit,           \* stake * payout
  MaxPerHour,       \* max_trades_per_hour
  MaxPerDay,        \* max_trades_per_day
  MaxConcurrent,    \* max_concurrent
  DailyLossPct,     \* max_daily_loss_frac, in percent
  DrawdownPct,      \* max_total_drawdown_frac, in percent
  CooldownAfter,    \* cooldown_after_losses; 0 switches the cooldown off
  CooldownLength,   \* cooldown_seconds
  VenueBalances,    \* balances broker.account() may report at a restart
  FutureTolerance,  \* how far ahead a checkpoint's saved_ts may be: 60
  FirstBoots,       \* instants at which the first boot may happen
  MaxClock,         \* bound: the last instant
  MaxSteps,         \* bound: backward steps of the clock
  MaxCrashes        \* bound: crashes and restarts

ASSUME ClockAssumption ==
  /\ HourLength \in Nat \ {0} /\ DayLength \in Nat \ {0}
  /\ FutureTolerance \in Nat
  /\ MaxClock \in Nat /\ FirstBoots \subseteq 0 .. MaxClock
ASSUME LimitAssumption ==
  /\ Stake \in Nat \ {0} /\ Profit \in Nat
  /\ MaxPerHour \in Nat /\ MaxPerDay \in Nat /\ MaxConcurrent \in Nat
  /\ DailyLossPct \in 1 .. 100 /\ DrawdownPct \in 1 .. 100
  /\ CooldownAfter \in Nat /\ CooldownLength \in Nat
  /\ VenueBalances \subseteq Nat
ASSUME BoundAssumption == MaxSteps \in Nat /\ MaxCrashes \in Nat

VARIABLES
  clock,    \* timex.now()
  gov,      \* risk.state, the fields a limit reads
  busy,     \* an order is authorized and its frame on the way to the venue
  disk,     \* the checkpoint: its governor section and its saved_ts
  sent,     \* history: orders whose frame left, in every process
  crashes,  \* history: crashes and restarts
  steps,    \* history: backward steps of the clock
  span,     \* history: the first and the latest instant the governor saw
  top,      \* history: the highest balance it ever had
  drained,  \* history: a restart found less cash than it left
  verdict   \* history: what settlements have decreed: the governor day of
            \* the latest daily lock, the instant it was to end, the end of
            \* the latest cooldown, the running streak, an uncleared breach

bookkeeping == <<sent, crashes, steps, drained>>
vars == <<clock, gov, busy, disk, bookkeeping, span, top, verdict>>

---------------------------------------------------------------------------
(* The governor's own arithmetic. *)

Day(t) == t \div DayLength
NextDailyBoundary(t) == DayLength * (Day(t) + 1)

Larger(m, n) == IF m > n THEN m ELSE n

\* Seeded fault: any other day is a new day.
DayRolledBack(g, now) ==
  IF Day(now) # g.day
  THEN [g EXCEPT !.dayStart = g.balance, !.day = Day(now), !.tradesDay = 0,
                 !.lockedUntil = IF @ <= now THEN 0 ELSE @]
  ELSE g

\* Seeded fault: midnight ends a cooldown.
DayRolledForgiving(g, now) ==
  IF Day(now) > g.day
  THEN [g EXCEPT !.dayStart = g.balance, !.day = Day(now), !.tradesDay = 0,
                 !.cooldownUntil = 0,
                 !.lockedUntil = IF @ <= now THEN 0 ELSE @]
  ELSE g

\* _roll_clock: a window opens only on elapsed forward time, a day only on a
\* later UTC day; peak, streak, cooldown and kill outlive both.
HourRolled(g, now) ==
  IF now - g.hourStart >= HourLength
  THEN [g EXCEPT !.hourStart = now, !.tradesHour = 0]
  ELSE g

DayRolled(g, now) ==
  IF Day(now) > g.day
  THEN [g EXCEPT !.dayStart = g.balance, !.day = Day(now), !.tradesDay = 0,
                 !.lockedUntil = IF @ <= now THEN 0 ELSE @]
  ELSE g

Rolled(g, now) == DayRolled(HourRolled(g, now), now)

\* update_balance.
Balance(g, b) == [g EXCEPT !.balance = b, !.peak = Larger(@, b)]

\* _daily_loss_frac >= max_daily_loss_frac; no anchor, no loss.
DailyLossReached(g) ==
  g.dayStart > 0 /\ 100 * (g.dayStart - g.balance) >= DailyLossPct * g.dayStart

\* _total_drawdown >= max_total_drawdown_frac.
DrawdownReached(g) ==
  g.peak > 0 /\ 100 * (g.peak - g.balance) >= DrawdownPct * g.peak

---------------------------------------------------------------------------
(* The limits of check. *)

RatesOK(g) == g.tradesHour < MaxPerHour /\ g.tradesDay < MaxPerDay

LocksOK(g, now) == now >= g.cooldownUntil /\ now >= g.lockedUntil

\* Seeded fault: neither loss limit is checked.
LossesUnchecked(g) == TRUE

LossesOK(g) == ~DailyLossReached(g) /\ ~DrawdownReached(g)

Permits(g, now) ==
  /\ ~g.kill /\ LocksOK(g, now) /\ LossesOK(g)
  /\ 2 * Stake <= g.balance /\ g.open < MaxConcurrent
  /\ RatesOK(g)

---------------------------------------------------------------------------

\* Every governor call reads the clock.
Seen == span' = [span EXCEPT !.latest = Larger(@, clock)]

Commit == disk' = [gov |-> gov', savedAt |-> clock]

\* oms.submit, first half: authorize rolls the clock and passes every check.
Authorize ==
  /\ ~busy
  /\ gov' = Rolled(gov, clock)
  /\ Permits(gov', clock)
  /\ busy' = TRUE
  /\ Seen
  /\ UNCHANGED <<clock, disk, bookkeeping, top, verdict>>

\* A check fails: one of these, or a payout, confidence, asset, cluster or
\* strategy limit.  The clock has been rolled all the same.
Reject ==
  /\ ~busy
  /\ gov' = Rolled(gov, clock)
  /\ Commit /\ Seen
  /\ UNCHANGED <<clock, busy, bookkeeping, top, verdict>>

\* The broker refuses: the stake returns before the governor hears of it.
Refuse ==
  /\ busy /\ busy' = FALSE
  /\ UNCHANGED <<clock, gov, bookkeeping, span, top, verdict>>
  /\ Commit

\* on_open.
OnOpen(g) ==
  [g EXCEPT !.open = @ + 1, !.tradesDay = @ + 1, !.tradesHour = @ + 1]

\* oms.submit, second half: on_open and update_balance with the stake gone.
Open ==
  /\ busy /\ busy' = FALSE
  /\ gov' = Balance(OnOpen(gov), gov.balance - Stake)
  /\ sent' = sent + 1
  /\ Commit
  /\ UNCHANGED <<clock, crashes, steps, drained, span, top, verdict>>

Returned(outcome) ==
  CASE outcome = "won"      -> Stake + Profit
    [] outcome = "refunded" -> Stake
    [] outcome = "lost"     -> 0

\* The streak of on_close: a refund is not a win.
Streak(g, won) == IF won THEN 0 ELSE g.losses + 1

TripsCooldown(streak) == CooldownAfter > 0 /\ streak >= CooldownAfter

Streaked(g, won) ==
  LET s == Streak(g, won) IN
  IF TripsCooldown(s)
  THEN [g EXCEPT !.losses = 0, !.cooldownUntil = clock + CooldownLength]
  ELSE [g EXCEPT !.losses = s]

\* Seeded fault: a balance that recovers lifts the kill.
LockedUnlatched(g) ==
  [g EXCEPT !.lockedUntil = IF DailyLossReached(g)
                            THEN NextDailyBoundary(clock) ELSE @,
            !.kill = DrawdownReached(g)]

\* The daily lock and the total kill, after the balance is up to date.
Locked(g) ==
  [g EXCEPT !.lockedUntil = IF DailyLossReached(g)
                            THEN NextDailyBoundary(clock) ELSE @,
            !.kill = @ \/ DrawdownReached(g)]

\* oms.pump books one settlement: on_close.
Close(outcome) ==
  /\ ~busy /\ gov.open > 0
  /\ LET won == outcome = "won"
         g   == Streaked([Rolled(gov, clock) EXCEPT !.open = @ - 1], won)
         b   == Balance(g, g.balance + Returned(outcome))
         s   == IF won THEN 0 ELSE verdict.streak + 1
     IN /\ gov' = Locked(b)
        /\ top' = Larger(top, b.balance)
        /\ verdict' =
             [lockDay  |-> IF DailyLossReached(b) THEN b.day ELSE verdict.lockDay,
              lockEnd  |-> IF DailyLossReached(b)
                           THEN Larger(verdict.lockEnd, NextDailyBoundary(clock))
                           ELSE verdict.lockEnd,
              coolEnd  |-> IF TripsCooldown(s) THEN clock + CooldownLength
                           ELSE verdict.coolEnd,
              streak   |-> IF TripsCooldown(s) THEN 0 ELSE s,
              breached |-> verdict.breached
                             \/ 100 * (top' - b.balance) >= DrawdownPct * top']
  /\ Commit /\ Seen
  /\ UNCHANGED <<clock, busy, bookkeeping>>

\* engine.kill and engine.clear_kill.
EngageKill ==
  /\ ~busy
  /\ gov' = [gov EXCEPT !.kill = TRUE]
  /\ Commit
  /\ UNCHANGED <<clock, busy, bookkeeping, span, top, verdict>>

ReleaseKill ==
  /\ ~busy
  /\ gov' = [gov EXCEPT !.kill = FALSE]
  /\ Commit
  /\ verdict' = [verdict EXCEPT !.breached = FALSE]
  /\ UNCHANGED <<clock, busy, bookkeeping, span, top>>

---------------------------------------------------------------------------
(* The process and the clock. *)

\* Seeded fault: a restart is a first boot.
RestoredFresh(b) ==
  [disk.gov EXCEPT !.dayStart = b, !.balance = b, !.peak = b, !.day = Day(clock),
                   !.hourStart = clock, !.tradesHour = 0, !.tradesDay = 0,
                   !.lockedUntil = 0, !.open = 0]

\* continuity.restore: the saved governor, rolled, with the venue's cash.  A
\* checkpoint from the future (a minute is let pass), or one with exposure or a
\* marker, holds the runtime: the second becomes this restart once the operator has reviewed
\* the file and cleared its exposure.
Restored(b) ==
  Balance([Rolled(disk.gov, clock) EXCEPT !.open = 0], b)

\* A crash or a clean stop, and the next boot.  A frame that was on its way
\* may have left.
Restart(b) ==
  /\ crashes < MaxCrashes
  /\ disk.savedAt <= clock + FutureTolerance
  /\ gov' = Restored(b)
  /\ busy' = FALSE
  /\ \E n \in (IF busy THEN {0, 1} ELSE {0}) : sent' = sent + n
  /\ crashes' = crashes + 1
  /\ drained' = (drained \/ b < gov.balance)
  /\ top' = Larger(top, b)
  /\ Commit /\ Seen
  /\ UNCHANGED <<clock, steps, verdict>>

ClockForward(t) ==
  /\ t > clock /\ clock' = t
  /\ UNCHANGED <<gov, busy, disk, bookkeeping, span, top, verdict>>

ClockBack(t) ==
  /\ t < clock /\ steps < MaxSteps
  /\ clock' = t /\ steps' = steps + 1
  /\ UNCHANGED <<gov, busy, disk, sent, crashes, drained, span, top, verdict>>

\* reset_day at the first boot of an account.
Fresh(b, now) ==
  [dayStart |-> b, balance |-> b, peak |-> b, day |-> Day(now),
   hourStart |-> now, tradesHour |-> 0, tradesDay |-> 0, losses |-> 0,
   cooldownUntil |-> 0, lockedUntil |-> 0, kill |-> FALSE, open |-> 0]

Init ==
  /\ clock \in FirstBoots
  /\ \E b \in VenueBalances : gov = Fresh(b, clock) /\ top = b
  /\ busy = FALSE
  /\ disk = [gov |-> gov, savedAt |-> clock]
  /\ sent = 0 /\ crashes = 0 /\ steps = 0 /\ drained = FALSE
  /\ span = [first |-> clock, latest |-> clock]
  /\ verdict = [lockDay |-> 0, lockEnd |-> 0, coolEnd |-> 0, streak |-> 0,
                breached |-> FALSE]

Next ==
  \/ Authorize \/ Reject \/ Refuse \/ Open
  \/ \E outcome \in {"won", "refunded", "lost"} : Close(outcome)
  \/ EngageKill \/ ReleaseKill
  \/ \E b \in VenueBalances : Restart(b)
  \/ \E t \in 0 .. MaxClock : ClockForward(t) \/ ClockBack(t)

Spec == Init /\ [][Next]_vars

---------------------------------------------------------------------------
(* Properties. *)

Governors ==
  [dayStart : Nat, balance : Nat, peak : Nat, day : Nat, hourStart : Nat,
   tradesHour : Nat, tradesDay : Nat, losses : Nat, cooldownUntil : Nat,
   lockedUntil : Nat, kill : BOOLEAN, open : Nat]

\* Types.  The balance never goes negative and never passes its peak, which
\* decode_state demands of a checkpoint: one that broke it could not be read.
TypeOK ==
  /\ clock \in Nat /\ busy \in BOOLEAN /\ drained \in BOOLEAN
  /\ gov \in Governors /\ gov.balance <= gov.peak
  /\ disk \in [gov : Governors, savedAt : Nat]
  /\ disk.gov.balance <= disk.gov.peak
  /\ sent \in Nat /\ crashes \in Nat /\ steps \in Nat /\ top \in Nat
  /\ span \in [first : Nat, latest : Nat]
  /\ verdict \in [lockDay : Nat, lockEnd : Nat, coolEnd : Nat, streak : Nat,
                  breached : BOOLEAN]

\* The daily budget: over the whole life of the account at most MaxPerDay
\* orders leave per UTC day the clock has ever reached, however often it
\* steps back and the process restarts.  A crash may hide one order each.
DayQuota ==
  sent <= MaxPerDay * (Day(span.latest) - Day(span.first) + 1) + crashes

\* The hourly budget, likewise: windows open on elapsed forward time only.
HourQuota ==
  sent <= MaxPerHour * ((span.latest - span.first) \div HourLength + 1) + crashes

\* What can be lost in all: unless cash was taken out between two runs, it
\* never falls below the drawdown floor of its all-time peak by more than
\* one stake, even if every open contract is lost and whoever clears kills.
FloorHolds ==
  ~drained => 100 * (top - gov.balance) < DrawdownPct * top + 100 * Stake

\* What can be lost in a day: cash never falls below the daily floor by more
\* than one stake.
DayFloorHolds ==
  ~drained => 100 * (gov.dayStart - gov.balance)
                < DailyLossPct * gov.dayStart + 100 * Stake

\* Both budgets, and both floors.
Quotas == DayQuota /\ HourQuota
Floors == FloorHolds /\ DayFloorHolds

Authorized == ~busy /\ busy'

\* After a settlement trips the daily lock no order is authorized before the
\* midnight it names, through wins, restarts and new windows, as long as the
\* clock has not stepped back.
LockHolds == [][Authorized /\ steps = 0 => clock >= verdict.lockEnd]_vars

\* After CooldownAfter settlements in a row without a win the next order
\* waits for the cooldown, across midnight, restarts and cleared kills.
CooldownServed == [][Authorized => clock >= verdict.coolEnd]_vars

\* A settlement that breaches the total drawdown stops trading until the
\* operator clears the kill, through midnight and restarts.
DrawdownStops == [][Authorized => ~verdict.breached]_vars

\* What manager.py says of the daily limits: only a genuine later UTC day
\* resets them, and a backwards clock never forgives losses.
LockLastsTheDay == [][Authorized => gov'.day # verdict.lockDay]_vars

===========================================================================
