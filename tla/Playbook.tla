------------------------------ MODULE Playbook ------------------------------
(***************************************************************************)
(* From the evidence of one tape to the size of one order: the regime      *)
(* detector's verdict, the survivor's posture and vetoes, the session and  *)
(* slippage tables, the sizing chain and the edge gate.  All of it is pure *)
(* arithmetic, done here in whole numbers: stress, edge and drawdown in    *)
(* thousandths, percentiles and confidence in hundredths, sigmas and       *)
(* volatility ratios in tenths, money in cents, each step rounded down.    *)
(***************************************************************************)
EXTENDS Integers

CONSTANTS
  CrisisScale,    \* risk.crisis_stake_scale
  DrawdownCap,    \* risk.max_total_drawdown_frac
  StakeFraction,  \* risk.stake_fraction
  MinStake,       \* risk.min_stake
  MaxStake,       \* risk.max_stake
  MinEdge,        \* risk.min_edge
  Gate,           \* risk.edge_gate
  Enabled,        \* survivor.enabled
  WeekendLock,    \* survivor.weekend_lock
  FridayHour,     \* survivor.friday_cutoff_utc
  LiquidityFloor, \* survivor.liquidity_floor
  SpreadLimit,    \* survivor.spread_limit_mult
  MaxSlippage,    \* survivor.max_slippage_bps
  BaseSlippage,   \* broker.slippage_bps
  TrendFilter,    \* survivor.trend_filter
  Panic           \* survivor.panic_deleverage

ASSUME ConfigAssumption ==
  /\ CrisisScale \in Nat /\ DrawdownCap \in 1 .. 1000
  /\ StakeFraction \in 1 .. 250
  /\ MinStake \in Nat /\ MaxStake \in Nat /\ 0 < MinStake /\ MinStake <= MaxStake
  /\ MinEdge \in -999 .. 999 /\ Gate \in {"off", "scale", "hard"}
  /\ {Enabled, WeekendLock, TrendFilter, Panic} \subseteq BOOLEAN
  /\ {FridayHour, LiquidityFloor, SpreadLimit, MaxSlippage, BaseSlippage} \subseteq Nat

Least(a, b)    == IF a <= b THEN a ELSE b
Greatest(a, b) == IF a >= b THEN a ELSE b
Clamp(x, lo, hi) == Greatest(lo, Least(x, hi))

-----------------------------------------------------------------------------
(* The regime detector *)

\* The evidence of a tape: bars seen, the last return in sigmas (z) and
\* whether it is material, its rank among volatilities (vol), the ratio of
\* short to long volatility, gaps counted, crash echo, trend and direction.
Evidence ==
  [bars : Nat, z : Nat, material : BOOLEAN, vol : 0 .. 100, vratio : Nat,
   gaps : Nat, echo : BOOLEAN, trend : 0 .. 100, dir : -1 .. 1]

\* Sigma alone is no shock: the return must be material as well.
Shock(e) == e.material /\ e.z >= 30

LastMove(e) == IF e.material THEN Least(e.z, 30) ELSE 0

Pressure(e) == 15 * LastMove(e) + 3 * e.vol + 50 * Least(e.gaps, 5)

Stress(e) == IF e.bars < 30 THEN 0 ELSE Least(Pressure(e), 1000)

\* Trends need a clean tape.
Clean(e) == ~e.echo /\ e.gaps < 3 /\ Stress(e) < 550

TrendOf(e) == IF e.dir > 0 THEN "bull_trend" ELSE "bear_trend"

Ranging(e) == (100 - e.trend) * (100 - e.vol) >= 5000

QuietTape(e) == e.vol <= 20 /\ e.vratio <= 6

Echoing(e) == e.echo /\ (e.vratio >= 12 \/ e.vol >= 65 \/ Stress(e) >= 450)

\* Crisis and its echo come before everything else.
Crisis(e) == Shock(e) \/ Stress(e) >= 750 \/ Echoing(e)

Regime(e) ==
  IF e.bars < 30 THEN "unknown"
  ELSE IF Crisis(e) THEN "crisis"
  ELSE IF e.gaps >= 3 /\ e.vol >= 70 THEN "gap"
  ELSE IF e.vol >= 90 \/ e.vratio >= 20 THEN "high_vol"
  ELSE IF QuietTape(e) THEN "low_vol"
  ELSE IF e.dir # 0 /\ e.trend >= 45 /\ Clean(e) THEN TrendOf(e)
  ELSE IF Ranging(e) THEN "range"
  ELSE IF e.dir # 0 /\ Clean(e) THEN TrendOf(e)
  ELSE IF e.echo THEN "high_vol" ELSE "range"

Defensive(e) == Regime(e) \in {"crisis", "gap"} \/ Stress(e) > 600

-----------------------------------------------------------------------------
(* The survivor's posture: the index in Posture.ORDER *)

LOCKDOWN == 0
DEFENSE  == 1
GUARD    == 2
NORMAL   == 3
ATTACK   == 4

RegimePosture(r) ==
  IF r \in {"crisis", "gap"} THEN DEFENSE
  ELSE IF r \in {"low_vol", "high_vol", "unknown"} THEN GUARD ELSE NORMAL

StressPosture(s) ==
  IF s >= 850 THEN LOCKDOWN ELSE IF s >= 650 THEN DEFENSE ELSE ATTACK

\* Classic markets: Friday 20:00 to Sunday 21:00, Monday being day 0.
Weekend(t) ==
  t.day = 5 \/ (t.day = 4 /\ t.hour >= 20) \/ (t.day = 6 /\ t.hour < 21)

FridayCutoff(t) == t.day = 4 /\ t.hour >= FridayHour

\* A place is where and when one trades: time and asset class, OTC or not,
\* the operator's lockdown, a news blackout, the quote's liquidity and spread,
\* balance and drawdown.
Place ==
  [time : [day : 0 .. 6, hour : 0 .. 23], class : {"fx", "crypto", "metal", "index"},
   otc : BOOLEAN, manual : BOOLEAN, news : BOOLEAN, liquidity : Nat, spread : Nat,
   balance : Nat, drawdown : 0 .. 1000]

PostureFor(e, p) ==
  LET tape  == Least(RegimePosture(Regime(e)), StressPosture(Stress(e)))
      venue == IF ~p.otc /\ WeekendLock /\ Weekend(p.time) THEN LOCKDOWN ELSE tape
      week  == IF FridayCutoff(p.time) THEN Least(venue, DEFENSE) ELSE venue
  IN  IF p.manual THEN LOCKDOWN ELSE week

\* The posture table: stake scale, confidence floor, longest expiry, families.
TableScale  == [q \in 0 .. 4 |-> <<0, 350, 650, 1000, 1150>>[q + 1]]
MinConfidence == [q \in 0 .. 4 |-> <<200, 72, 62, 55, 52>>[q + 1]]
MaxExpiry   == [q \in 0 .. 4 |-> <<0, 300, 600, 3600, 3600>>[q + 1]]
Forbidden   == [q \in 0 .. 4 |->
  <<{"trend", "meanrev", "breakout", "momentum", "volatility", "pattern", "ensemble"},
    {"meanrev", "pattern", "volatility"}, {"pattern"}, {}, {}>>[q + 1]]

\* What the ensemble leans on under a posture, in percent.
Lean(q, family) ==
  CASE q = ATTACK /\ family = "trend" -> 120
    [] q = ATTACK /\ family = "momentum" -> 115
    [] q = ATTACK /\ family = "breakout" -> 110
    [] q = NORMAL /\ family \in {"pattern", "volatility"} -> 90
    [] q = GUARD /\ family = "meanrev" -> 110
    [] q = GUARD /\ family = "pattern" -> 50
    [] q = GUARD /\ family \in {"trend", "breakout"} -> 70
    [] q = GUARD /\ family = "momentum" -> 80
    [] q = DEFENSE /\ family \in {"trend", "breakout", "momentum"} -> 50
    [] OTHER -> 100

-----------------------------------------------------------------------------
(* Sessions and slippage *)

SessionOf(hour) ==
  IF hour < 7 THEN "asia" ELSE IF hour < 12 THEN "london"
  ELSE IF hour < 16 THEN "overlap" ELSE IF hour < 20 THEN "newyork" ELSE "offhours"

\* What the hour leaves of a stake, by asset class.
HourScale(class, s) ==
  CASE s = "asia" -> (CASE class = "crypto" -> 850 [] class = "metal" -> 900
                        [] class = "index" -> 500 [] OTHER -> 750)
    [] s = "offhours" -> (CASE class = "crypto" -> 700 [] class = "index" -> 350
                            [] OTHER -> 500)
    [] s = "london" /\ class = "index" -> 750
    [] OTHER -> 1000

SessionScale(p) ==
  LET s == HourScale(p.class, SessionOf(p.time.hour))
  IN  IF Weekend(p.time) /\ p.class # "crypto" THEN Least(s, 250) ELSE s

\* Hundredths of a basis point; stress starts to cost at 0.5.
Slippage(e, p) ==
  LET storm == IF Stress(e) > 500 THEN (Stress(e) - 500) * 8 ELSE 0
      thin  == IF SessionScale(p) >= 900 THEN 0
               ELSE IF SessionScale(p) >= 600 THEN 200 ELSE 600
  IN  Least(Greatest(BaseSlippage, Greatest(storm, thin)), 7500)

-----------------------------------------------------------------------------
(* The survivor's verdict on a candidate c: side, confidence, expiry, family *)

Families ==
  {"trend", "meanrev", "breakout", "momentum", "volatility", "pattern", "orderflow",
   "divergence", "ensemble", "defense"}

Candidate ==
  [side : {"call", "put"}, conf : 0 .. 100, expiry : Nat, family : Families]

WithTrend(e, c) ==
  /\ Regime(e) = "bear_trend" => c.side = "put"
  /\ Regime(e) = "bull_trend" => c.side = "call"

Playable(e, p, c) ==
  LET q == PostureFor(e, p)
  IN  /\ q # LOCKDOWN
      /\ p.liquidity >= LiquidityFloor /\ p.spread <= SpreadLimit
      /\ Slippage(e, p) <= MaxSlippage
      /\ c.expiry <= MaxExpiry[q] /\ c.conf >= MinConfidence[q]
      /\ c.family \notin Forbidden[q]
      /\ Regime(e) \in {"crisis", "gap"} => c.family \notin {"meanrev", "pattern"}
      /\ TrendFilter => WithTrend(e, c)

\* Lockdown and news are no playbook matters: they hold with it switched off.
Allowed(e, p, c) == /\ ~p.manual /\ ~p.news
                    /\ Enabled => Playable(e, p, c)

GovernorScale(dd) == Clamp(1000 - (800 * dd) \div DrawdownCap, 200, 1000)

\* Seeded fault: scaled by the stress instead of what it leaves.
PanicScaleInverted(s) == IF Panic /\ s > 500 THEN Greatest(300, s) ELSE 1000

PanicScale(s) == IF Panic /\ s > 500 THEN Greatest(300, 1000 - s) ELSE 1000

SurvivorScale(e, p) ==
  LET table == IF Enabled THEN TableScale[PostureFor(e, p)] ELSE 1000
      calm  == (table * GovernorScale(p.drawdown)) \div 1000
  IN  Clamp((calm * PanicScale(Stress(e))) \div 1000, 0, 1500)

ExpiryCap(e, p) == IF Enabled THEN MaxExpiry[PostureFor(e, p)] ELSE 3600

-----------------------------------------------------------------------------
(* Sizing: volatility target, confidence, drawdown, regime, one whole unit *)

\* No caller ever tells the governor a realized volatility.
VolScaled(balance) == Clamp((balance * StakeFraction) \div 1000, MinStake, MaxStake)

ByConfidence(x, conf) == (x * Clamp(50 + 2 * (conf - 40), 50, 150)) \div 100

ByDrawdown(x, dd) == (x * (1000 - (700 * Least(dd, DrawdownCap)) \div DrawdownCap)) \div 1000

ByScale(x, scale) == IF scale < 1000 THEN (x * scale) \div 1000 ELSE x

StakeRound(x) == 100 * (x \div 100)

RegimeScale(e, p) ==
  LET session == (SurvivorScale(e, p) * SessionScale(p)) \div 1000
  IN  IF Defensive(e) THEN (session * CrisisScale) \div 1000 ELSE session

SizeStake(e, p, conf) ==
  LET full == ByDrawdown(ByConfidence(VolScaled(p.balance), conf), p.drawdown)
      cut  == ByScale(full, RegimeScale(e, p))
  IN  Clamp(StakeRound(Greatest(MinStake \div 2, cut)), MinStake \div 2, MaxStake)

\* An edge is the expected value per thousand staked.  A negative one is
\* refused in every mode, a thin one is refused or scaled.
EdgeOf(pWin, payout) == (pWin * (100 + payout)) \div 100 - 1000

EdgeClears(edge) == edge >= 0 /\ (Gate = "hard" => edge >= MinEdge)

ByEdge(stake, edge) ==
  IF Gate = "scale" /\ edge < MinEdge
  THEN Greatest(MinStake, (stake * Greatest(250, (1000 * edge) \div MinEdge)) \div 1000)
  ELSE stake

-----------------------------------------------------------------------------
(* What the playbook promises *)

\* f is the tape e, or a harder one: a bigger last move, perhaps a material
\* one, more gaps, the echo of a crash.
Harsher(e, f) ==
  /\ e.bars = f.bars /\ e.vol = f.vol /\ e.vratio = f.vratio
  /\ e.trend = f.trend /\ e.dir = f.dir
  /\ e.z <= f.z /\ e.gaps <= f.gaps
  /\ e.material => f.material
  /\ e.echo => f.echo

\* Harder times: on the harder tape the posture is no bolder, the stake no
\* bigger, and nothing is played that the easier tape forbids, save what only
\* the trend filter forbade there (a trend needs a clean tape).
Heeded(e, f, p, c) ==
  Harsher(e, f) =>
    /\ PostureFor(f, p) <= PostureFor(e, p)
    /\ SizeStake(f, p, c.conf) <= SizeStake(e, p, c.conf)
    /\ Allowed(f, p, c) => Allowed(e, p, c) \/ (Enabled /\ TrendFilter /\ ~WithTrend(e, c))

=============================================================================
