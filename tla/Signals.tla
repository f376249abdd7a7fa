------------------------------ MODULE Signals ------------------------------
(***************************************************************************)
(* The strategies' votes and how the ensemble weighs them.  A strategy is  *)
(* given by what it reads off its indicators: oscillators are centred on   *)
(* their neutral value and in tenths, prices are distances in ticks from   *)
(* the line they are compared with, and only the last bars that the code   *)
(* looks at are kept.  A vote is 1 (call), -1 (put) or 0.                  *)
(***************************************************************************)
EXTENDS Patterns

\* An indicator on the last two bars; known once its warm-up is over.
Line == [known : BOOLEAN, prev : Int, now : Int]

Vote(r, up, down) == IF r.known THEN Mark(up, down) ELSE 0

Sign(x) == Mark(x > 0, x < 0)

-----------------------------------------------------------------------------
(* Trend *)

\* The cross must have held for `confirm' bars and must have flipped on the
\* last one.  cross[j] is the state of the cross j bars ago.
EMACrossTrend(cross, confirm) ==
  LET held  == \A j \in 0 .. confirm - 1 : cross[j] = cross[0]
      fresh == cross[0] # cross[1]
  IN  Mark(held /\ fresh /\ cross[0], held /\ fresh /\ ~cross[0])

MacdTrendRider(hist) ==
  LET expanding == Abs(hist.now) > Abs(hist.prev) /\ Abs(hist.prev) > 0
  IN  Vote(hist, expanding /\ hist.now > 0, expanding /\ hist.now < 0)

\* prev and now are the direction, 0 before there is one.
SupertrendSurf(dir) ==
  LET flip == dir.now # 0 /\ dir.now # dir.prev
  IN  Vote(dir, flip /\ dir.now > 0, flip /\ dir.now < 0)

\* tk is tenkan less kijun; above and below are the price's distances from
\* the cloud's top and bottom.
IchimokuKumo(tk, above, below) ==
  Vote(tk, tk.now > 0 /\ tk.prev <= 0 /\ above > 0, tk.now < 0 /\ tk.prev >= 0 /\ below < 0)

\* gap is the price less the stop; a price on the stop counts as below it.
PSARFlip(gap) ==
  LET flip == (gap.prev > 0) # (gap.now > 0)
  IN  Vote(gap, flip /\ gap.now > 0, flip /\ gap.now <= 0)

\* di is the difference of the directional indicators.
ADXTrendStorm(di, adx) ==
  LET storm == adx >= 250 /\ di.now * di.prev <= 0 /\ Abs(di.now) >= 5
  IN  Vote(di, storm /\ di.now > 0, storm /\ di.now < 0)

-----------------------------------------------------------------------------
(* Mean reversion *)

\* b is the position in the band, in hundredths of it from the middle;
\* under and over are the previous close's distances from the bands.
BollingerRevert(b, under, over) ==
  Vote(b, b.now <= -45 /\ under >= 0, b.now >= 45 /\ over <= 0)

RSIStretch(rsi) ==
  Vote(rsi, rsi.prev <= -220 /\ rsi.now > -220, rsi.prev >= 220 /\ rsi.now < 220)

StochHook(k, d) ==
  Vote(k, k.prev < -250 /\ k.now > -250 /\ k.now > d, k.prev > 250 /\ k.now < 250 /\ k.now < d)

CCIRevert(cci) ==
  Vote(cci, cci.prev < -2000 /\ cci.now >= -2000, cci.prev > 2000 /\ cci.now <= 2000)

WilliamsFade(w) ==
  Vote(w, w.prev <= -350 /\ w.now > -350, w.prev >= 350 /\ w.now < 350)

-----------------------------------------------------------------------------
(* Momentum *)

\* The rate of change in hundredths of a percent, threshold 0.05 %.
ROCLaunch(roc) ==
  Vote(roc, roc.prev # 0 /\ roc.prev < 5 /\ roc.now >= 5, roc.prev # 0 /\ roc.prev > -5 /\ roc.now <= -5)

\* Momentum now, one and two bars ago; the scale is a share of the price.
MomentumBurst(m, before, scale) ==
  Vote(m, m.now - m.prev > scale /\ m.prev > before /\ m.now > 0,
          m.now - m.prev < -scale /\ m.prev < before /\ m.now < 0)

AOFlip(ao) == Vote(ao, ao.prev <= 0 /\ ao.now > 0, ao.prev >= 0 /\ ao.now < 0)

ACShove(ac, ao) ==
  Vote(ac, ac.prev <= 0 /\ ac.now > 0 /\ ao > 0, ac.prev >= 0 /\ ac.now < 0 /\ ao < 0)

\* Bears beaten on a rising hull average, or bulls on a falling one.
ElderImpulse(hull, bull, bear) ==
  Vote(hull, bear > 0 /\ hull.now > hull.prev, bull < 0 /\ hull.now < hull.prev)

RSIMomentum(rsi) ==
  Vote(rsi, rsi.prev <= 50 /\ rsi.now > 50 /\ rsi.now < 280,
            rsi.prev >= -50 /\ rsi.now < -50 /\ rsi.now > -280)

-----------------------------------------------------------------------------
(* Breakout *)

\* top and bottom are distances from yesterday's channel.
DonchianBreak(top, bottom) ==
  Vote(top, top.now > 0 /\ top.prev <= 0, bottom.now < 0 /\ bottom.prev >= 0)

\* fast is the short average less the channel's middle.
KeltnerRide(top, bottom, fast) ==
  Vote(top, top.now > 0 /\ fast > 0, bottom.now < 0 /\ fast < 0)

\* The squeeze was on two bars ago and off one bar ago.
SqueezePop(squeeze, mom) ==
  LET fired == squeeze.prev >= 1 /\ squeeze.now < 1
  IN  Vote(squeeze, fired /\ mom > 0, fired /\ mom < 0)

\* width in hundredths of a percent; mid is the close less the middle band.
BandwidthPierce(mid, width) ==
  Vote(mid, width < 120 /\ mid.prev <= 0 /\ mid.now > 0, width < 120 /\ mid.prev >= 0 /\ mid.now < 0)

\* The box the previous closes stayed in, no wider than 0.15 % of the price.
RangeEscape(box, price) ==
  LET tight == 10000 * (box.hi - box.lo) <= 15 * price
  IN  Mark(tight /\ box.last > box.hi, tight /\ box.last < box.lo)

-----------------------------------------------------------------------------
(* Volatility *)

\* ratio in tenths, body the last move, against 0.04 % of the price.
VolExpansionRider(ratio, body, price) ==
  LET live == 14 <= ratio.now /\ ratio.now <= 35
  IN  Vote(ratio, live /\ 10000 * body > 4 * price, live /\ 10000 * body < -4 * price)

SqueezeRelease(vol, before, top, bottom) ==
  LET compressing == before > vol.prev /\ vol.prev > vol.now
  IN  Vote(vol, compressing /\ top > 0, compressing /\ bottom < 0)

\* prev is the volatility of five bars ago; move is since four bars ago.
GarchMeanRev(g, move, price) ==
  LET spike == g.prev > 0 /\ 10 * g.now >= 18 * g.prev
  IN  Vote(g, spike /\ 1000 * move < -4 * price, spike /\ 1000 * move > 4 * price)

\* Fades the turn of the last bar; move.now is its change, move.prev the one before.
HVContrarianFade(move, level) ==
  Vote(move, level > 90 /\ move.now < 0 /\ move.prev > 0, level > 90 /\ move.now > 0 /\ move.prev < 0)

-----------------------------------------------------------------------------
(* Order flow.  imbalance and confidence in hundredths, stress in thousandths *)

ImbalanceMomentum(imbalance, stress) ==
  LET loud == Abs(imbalance) >= 35 /\ stress < 700
  IN  Mark(loud /\ imbalance > 0, loud /\ imbalance < 0)

AbsorptionFade(div, regime) ==
  LET quiet == regime \in {"range", "low_vol", "unknown"}
  IN  Mark(quiet /\ div > 0, quiet /\ div < 0)

\* stretch from the point of control, in tenths of half the value area.
POCReversion(stretch, regime) ==
  LET far == Abs(stretch) >= 14 /\ regime \in {"range", "low_vol"}
  IN  Mark(far /\ stretch < 0, far /\ stretch > 0)

-----------------------------------------------------------------------------
(* How sure a strategy is, in thousandths: most clamp what the reading adds *)

Sure(base, gain, hi) == High2(500, Low2(base + gain, hi))

RSIDivergenceConf(score)   == 400 + (450 * score) \div 100
MacdHiddenConf(score)      == 450 + (400 * score) \div 100
CCIDivergenceConf(score)   == 350 + (400 * score) \div 100
MTFConfluenceConf(score)   == 500 + (400 * score) \div 100
ImbalanceConf(imbalance)   == 500 + (250 * Abs(imbalance)) \div 100
POCReversionConf(stretch)  == 500 + 10 * Low2(Abs(stretch) - 14, 10)

-----------------------------------------------------------------------------
(* The ensemble: weights in thousandths *)

\* A vote's outcome moves its strategy's score; the weight follows it.
Scored(score, won) == (920 * score + (IF won THEN 80000 ELSE 0)) \div 1000

Weight(score) == High2(100, Low2(500 + score, 2000))

RegimeFit(preferred, regime) ==
  IF preferred THEN 1000 ELSE IF regime \in {"crisis", "gap"} THEN 150 ELSE 500

\* family is the posture's lean on the strategy's family, in percent.
EffectiveWeight(weight, family, fit) ==
  (weight * family * (350 + (65 * fit) \div 100)) \div 100000

\* The blend of the calls and the puts: each side has its weighted
\* confidence, its weight, and its number of votes.  Equal sides conflict, and
\* a side without three fifths of the weight is contested.
Contested(win, lose) == win.strength <= lose.strength
                          \/ 10 * win.strength < 6 * (win.strength + lose.strength)

BlendSide(calls, puts) == Mark(~Contested(calls, puts), ~Contested(puts, calls))

Dominance(win, lose) == (1000 * win.strength) \div (win.strength + lose.strength)

\* One voter must not mint its own consensus.
Support(win) == 800 + 100 * Low2(win.voters, 2)

BlendConf(win, lose) ==
  LET average == win.strength \div win.weight
      leaning == (average * (550 + (450 * Dominance(win, lose)) \div 1000)) \div 1000
  IN  (leaning * Support(win)) \div 1000

\* Unanimous: all on one side.  Majority: more than the others and three in
\* five of all.
UnanimousSide(calls, puts) == Mark(calls > 0 /\ puts = 0, puts > 0 /\ calls = 0)

MajoritySide(calls, puts) ==
  Mark(calls > puts /\ 10 * calls >= 6 * (calls + puts), puts > calls /\ 10 * puts >= 6 * (calls + puts))

\* Crisis and gap ask three in four for the side, and discount it.
CrisisConf(conf, regime) == IF regime \in {"crisis", "gap"} THEN (85 * conf) \div 100 ELSE conf

=============================================================================
