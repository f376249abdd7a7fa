---------------------------- MODULE Indicators ----------------------------
(***************************************************************************)
(* The indicators' loops, one step for each bar that closes.  Every        *)
(* accumulator the loops carry is a field here, so what is true of it      *)
(* after every step is true of the indicator on a tape of any length.      *)
(*                                                                         *)
(* Averages are exact: a numerator over a denominator that grows with the  *)
(* smoothing, as floats without their rounding.  Where a loop multiplies   *)
(* by a factor the properties do not look at (the stop's acceleration, the *)
(* band's width, a bar's share of money flow), any number the factor can   *)
(* give is allowed.                                                        *)
(***************************************************************************)
EXTENDS Patterns

CONSTANT Period     \* bars in an average, at least two

VARIABLES
  bars,       \* bars closed so far
  last,       \* the last bar
  before,     \* the bar before it
  seen,       \* the lowest low and highest high so far
  ema,        \* moving average of the closes
  sig,        \* moving average of a line that starts late, and its top
  rs,         \* Wilder's averages of gains and losses
  dm,         \* Wilder's averages of directional moves and true range
  garch,      \* one-step variance
  trend,      \* SuperTrend's bands and direction
  stop,       \* the parabolic stop
  cross,      \* two lines and the state of their cross
  money,      \* sums over the whole tape
  win         \* sums and extremes over the window being read

readingVars == <<bars, last, before, seen, ema, sig, rs, dm, garch, trend, stop, cross, money, win>>

Bars == {b \in [high : Nat, low : Nat, close : Nat, volume : Nat] :
           b.low <= b.close /\ b.close <= b.high}

Lesser(x, y)  == IF x <= y THEN x ELSE y
Greater(x, y) == IF x >= y THEN x ELSE y
Gain(x) == Greater(x, 0)

-----------------------------------------------------------------------------
(* Averages: while fewer than Period values came in, num is their sum      *)

Warm(r) == r.n < Period

More(r) == IF Warm(r) THEN r.n + 1 ELSE r.n

\* ema: two parts in Period + 1 for the new value
EmaNum(r, x) == IF Warm(r) THEN r.num + x ELSE ((Period - 1) * r.num) + (2 * (x * r.den))
EmaDen(r) == IF Warm(r) THEN Period ELSE (Period + 1) * r.den

\* rma: one part in Period
RmaNum(r, old, x) == IF Warm(r) THEN old + x ELSE ((Period - 1) * old) + (x * r.den)
RmaDen(r) == IF Warm(r) THEN Period ELSE Period * r.den

EmaStep(b) ==
  ema' = [n |-> More(ema), num |-> EmaNum(ema, b.close), den |-> EmaDen(ema)]

\* The line is undefined on the first bar at least, and zero stands in for it.
SignalStep(x) ==
  LET line == IF bars = 0 THEN 0 ELSE x
  IN  sig' = [n |-> More(sig), num |-> EmaNum(sig, line), den |-> EmaDen(sig),
              line |-> line, top |-> Greater(sig.top, line)]

\* Gains and losses begin with the second bar.
RsiStep(b) ==
  IF bars = 0 THEN UNCHANGED rs
  ELSE rs' = [n |-> More(rs), den |-> RmaDen(rs),
              gain |-> RmaNum(rs, rs.gain, Gain(b.close - last.close)),
              loss |-> RmaNum(rs, rs.loss, Gain(last.close - b.close))]

\* The index times the second number is the first.
Rsi(r) == IF r.gain + r.loss = 0 THEN <<50, 1>> ELSE <<100 * r.gain, r.gain + r.loss>>

TrueRange(b) ==
  IF bars = 0 THEN b.high - b.low
  ELSE Greater(b.high - b.low, Greater(Abs(b.high - last.close), Abs(b.low - last.close)))

UpMove(b) ==
  LET up == b.high - last.high  down == last.low - b.low
  IN  IF bars > 0 /\ up > down /\ up > 0 THEN up ELSE 0

DownMove(b) ==
  LET up == b.high - last.high  down == last.low - b.low
  IN  IF bars > 0 /\ down > up /\ down > 0 THEN down ELSE 0

AdxStep(b) ==
  dm' = [n |-> More(dm), den |-> RmaDen(dm),
         up |-> RmaNum(dm, dm.up, UpMove(b)), down |-> RmaNum(dm, dm.down, DownMove(b)),
         range |-> RmaNum(dm, dm.range, TrueRange(b))]

\* Variance in units of omega; sq is the squared return in the same unit.
GarchStep(sq) ==
  IF bars < 2 THEN UNCHANGED garch
  ELSE garch' = [num |-> (90 * garch.num) + ((100 + (8 * sq)) * garch.den), den |-> 100 * garch.den]

-----------------------------------------------------------------------------
(* Stops that trail the price *)

\* Prices count double here, for the middle of the bar; width is twice the
\* multiple of the average range and any number.
SuperTrendStep(b, width) ==
  LET raw == b.high + b.low
      up == IF trend.ready /\ 2 * last.close <= trend.up
            THEN Lesser(raw + width, trend.up) ELSE raw + width
      dn == IF trend.ready /\ 2 * last.close >= trend.dn
            THEN Greater(raw - width, trend.dn) ELSE raw - width
      turned == IF 2 * b.close < trend.dn THEN -1
                ELSE IF 2 * b.close > trend.up THEN 1 ELSE trend.dir
      held == IF turned = 1 THEN (IF 2 * b.close < dn THEN -1 ELSE 1)
              ELSE (IF 2 * b.close > up THEN 1 ELSE -1)
  IN  IF More(dm) < Period THEN UNCHANGED trend
      ELSE trend' = [ready |-> TRUE, aged |-> trend.ready, up |-> up, dn |-> dn,
                     dir |-> IF trend.ready THEN held ELSE trend.dir]

\* Where the stop starts, on the second bar.
FirstStop(b) ==
  IF b.high > last.high
  THEN [bull |-> TRUE, sar |-> last.low, ep |-> last.high, step |-> 1, fresh |-> FALSE]
  ELSE [bull |-> FALSE, sar |-> last.high, ep |-> last.low, step |-> 1, fresh |-> FALSE]

Faster(s) == Lesser(10, s.step + 1)

\* The stop moved up to `to', under the two bars before.
RisingStop(s, b, to) ==
  LET sar == Lesser(to, Lesser(last.low, before.low))
  IN  IF b.low < sar
      THEN [bull |-> FALSE, sar |-> s.ep, ep |-> b.low, step |-> 1, fresh |-> TRUE]
      ELSE [bull |-> TRUE, sar |-> sar, ep |-> Greater(s.ep, b.high),
            step |-> IF b.high > s.ep THEN Faster(s) ELSE s.step, fresh |-> FALSE]

FallingStop(s, b, to) ==
  LET sar == Greater(to, Greater(last.high, before.high))
  IN  IF b.high > sar
      THEN [bull |-> TRUE, sar |-> s.ep, ep |-> b.high, step |-> 1, fresh |-> TRUE]
      ELSE [bull |-> FALSE, sar |-> sar, ep |-> Lesser(s.ep, b.low),
            step |-> IF b.low < s.ep THEN Faster(s) ELSE s.step, fresh |-> FALSE]

\* The stop moves a part of the way to the extreme: anywhere from one to the
\* other.
StopStep(b) ==
  IF bars = 0 THEN UNCHANGED stop
  ELSE LET s == IF bars = 1 THEN FirstStop(b) ELSE stop
       IN  \E to \in Lesser(s.sar, s.ep) .. Greater(s.sar, s.ep) :
             stop' = IF s.bull THEN RisingStop(s, b, to) ELSE FallingStop(s, b, to)

\* above holds from a crossing upwards to the next one downwards.
CrossStep(x, y) ==
  cross' = [x |-> x, y |-> y,
            above |-> IF bars = 0 THEN FALSE
                      ELSE IF x > y /\ cross.x <= cross.y THEN TRUE
                      ELSE IF x < y /\ cross.x >= cross.y THEN FALSE ELSE cross.above]

-----------------------------------------------------------------------------
(* Sums over the tape and over a window *)

Typical(b) == b.high + b.low + b.close     \* three times the typical price

Obv(b) == IF bars = 0 THEN 0
          ELSE IF b.close > last.close THEN money.obv + b.volume
          ELSE IF b.close < last.close THEN money.obv - b.volume ELSE money.obv

\* flow is the bar's volume times where its close lies in its range.
AdLine(flow) == money.ad + flow

MoneyStep(b, flow) ==
  money' = [pv |-> money.pv + (Typical(b) * b.volume), vol |-> money.vol + b.volume,
            obv |-> Obv(b), ad |-> AdLine(flow)]

NoWindow(base) ==
  [n |-> 0, base |-> base, hi |-> 0, lo |-> 0, hiAt |-> 0, loAt |-> 0, close |-> base,
   up |-> 0, down |-> 0, gross |-> 0, bp |-> 0, tr |-> 0, mfv |-> 0, vol |-> 0,
   pos |-> 0, neg |-> 0]

\* The first of equal extremes is kept.  A loop that looks at the bar before
\* never reads a window with the tape's first bar in it.
WindowStep(b, flow) ==
  LET prev == IF bars = 0 THEN b ELSE last
      d == b.close - prev.close
      floor == Lesser(b.low, prev.close)
  IN  win' = [n |-> win.n + 1, base |-> IF bars = 0 THEN b.close ELSE win.base, close |-> b.close,
        hi |-> IF win.n = 0 THEN b.high ELSE Greater(win.hi, b.high),
        lo |-> IF win.n = 0 THEN b.low ELSE Lesser(win.lo, b.low),
        hiAt |-> IF win.n > 0 /\ b.high > win.hi THEN win.n ELSE win.hiAt,
        loAt |-> IF win.n > 0 /\ b.low < win.lo THEN win.n ELSE win.loAt,
        up |-> win.up + Gain(d), down |-> win.down + Gain(-d), gross |-> win.gross + Abs(d),
        bp |-> win.bp + (b.close - floor), tr |-> win.tr + (Greater(b.high, prev.close) - floor),
        mfv |-> win.mfv + flow, vol |-> win.vol + b.volume,
        pos |-> IF Typical(b) > Typical(prev) THEN win.pos + (Typical(b) * b.volume) ELSE win.pos,
        neg |-> IF Typical(b) < Typical(prev) THEN win.neg + (Typical(b) * b.volume) ELSE win.neg]

\* Readings of a window: the value times the second number is the first.
StochasticK(w) == IF w.hi = w.lo THEN <<5000, 1>> ELSE <<100 * (w.close - w.lo), w.hi - w.lo>>
WilliamsR(w) == IF w.hi = w.lo THEN <<0, 1>> ELSE <<-100 * (w.hi - w.close), w.hi - w.lo>>
ChandeMomentum(w) ==
  IF w.up + w.down = 0 THEN <<0, 1>> ELSE <<100 * (w.up - w.down), w.up + w.down>>
TrendIntensity(w) ==
  IF w.gross = 0 THEN <<0, 1>> ELSE <<100 * Abs(w.close - w.base), w.gross>>
Buying(w) == IF w.tr = 0 THEN <<0, 1>> ELSE <<w.bp, w.tr>>
MoneyFlow(w) == IF w.vol = 0 THEN <<0, 1>> ELSE <<w.mfv, w.vol>>
MoneyIndex(w) ==
  IF w.neg = 0 THEN (IF w.pos > 0 THEN <<100, 1>> ELSE <<50, 1>>)
  ELSE <<100 * w.pos, w.pos + w.neg>>
\* The last bar of a window of n bars is number n - 1.
AroonUp(w) == <<100 * w.hiAt, w.n - 1>>
AroonDown(w) == <<100 * w.loAt, w.n - 1>>
Midpoint(w) == w.hi + w.lo                  \* twice the midpoint
Donchian(w) == <<w.hi, Midpoint(w), w.lo>>

\* Floor pivots in thirds of a tick: S3, S2, S1, P, R1, R2, R3.
PivotLines(b) ==
  LET p == Typical(b)  h == 3 * b.high  l == 3 * b.low
  IN  <<l - (2 * (h - p)), p - (h - l), (2 * p) - h, p, (2 * p) - l, p + (h - l), h + (2 * (p - l))>>

-----------------------------------------------------------------------------
Start == [high |-> 0, low |-> 0, close |-> 0, volume |-> 0]

ReadingInit ==
  /\ bars = 0 /\ last = Start /\ before = Start
  /\ seen = [lo |-> 0, hi |-> 0]
  /\ ema = [n |-> 0, num |-> 0, den |-> Period]
  /\ sig = [n |-> 0, num |-> 0, den |-> Period, line |-> 0, top |-> 0]
  /\ rs = [n |-> 0, den |-> Period, gain |-> 0, loss |-> 0]
  /\ dm = [n |-> 0, den |-> Period, up |-> 0, down |-> 0, range |-> 0]
  /\ garch = [num |-> 50, den |-> 1]
  /\ trend = [ready |-> FALSE, aged |-> FALSE, up |-> 0, dn |-> 0, dir |-> 1]
  /\ stop = [bull |-> FALSE, sar |-> 0, ep |-> 0, step |-> 1, fresh |-> FALSE]
  /\ cross = [x |-> 0, y |-> 0, above |-> FALSE]
  /\ money = [pv |-> 0, vol |-> 0, obv |-> 0, ad |-> 0]
  /\ win = NoWindow(0)

\* A bar closes.  x and y are two lines drawn over the tape, width and sq
\* the band's width and the squared return, flow the bar's money flow.
CloseBar(b, x, y, width, sq, flow) ==
  /\ flow \in -b.volume .. b.volume
  /\ bars' = bars + 1
  /\ last' = b /\ before' = IF bars = 0 THEN b ELSE last
  /\ seen' = IF bars = 0 THEN [lo |-> b.low, hi |-> b.high]
             ELSE [lo |-> Lesser(seen.lo, b.low), hi |-> Greater(seen.hi, b.high)]
  /\ EmaStep(b) /\ SignalStep(x) /\ RsiStep(b) /\ AdxStep(b) /\ GarchStep(sq)
  /\ SuperTrendStep(b, width) /\ StopStep(b) /\ CrossStep(x, y)
  /\ MoneyStep(b, flow) /\ WindowStep(b, flow)

\* The next window is read from here.
OpenWindow ==
  /\ win' = NoWindow(last.close)
  /\ UNCHANGED <<bars, last, before, seen, ema, sig, rs, dm, garch, trend, stop, cross, money>>

ReadingNext ==
  \/ \E b \in Bars, x, y, flow \in Int, width, sq \in Nat : CloseBar(b, x, y, width, sq, flow)
  \/ OpenWindow

ReadingSpec == ReadingInit /\ [][ReadingNext]_readingVars

-----------------------------------------------------------------------------
(* What the readings promise *)

\* What num stands over: the number of values while they are few.
Over(r) == IF Warm(r) THEN r.n ELSE r.den

\* An average of prices lies among the prices, whatever the tape.
AverageInRange ==
  bars > 0 => seen.lo * Over(ema) <= ema.num /\ ema.num <= seen.hi * Over(ema)

\* The average price, thrice, lies among the prices too.
VwapInRange ==
  bars > 0 => /\ (3 * seen.lo) * money.vol <= money.pv
              /\ money.pv <= (3 * seen.hi) * money.vol

\* The zeros of the warm-up stay in the signal line for ever: a line resting
\* on its top lies above its own average.
PhantomHistogram ==
  sig.line = sig.top /\ sig.top > 0 => sig.num < sig.line * Over(sig)

\* The directional indicators share the range: together at most 100.
DirectionsShareRange ==
  dm.up >= 0 /\ dm.down >= 0 /\ dm.up + dm.down <= dm.range

\* A bar that closes where the last one did leaves the index where it was,
\* once it is warm: on a dead tape it stays at its extreme.
RsiFreezes ==
  [][bars' > bars /\ bars > 0 /\ ~Warm(rs) /\ last'.close = last.close =>
       Rsi(rs')[1] * Rsi(rs)[2] = Rsi(rs)[1] * Rsi(rs')[2]]_readingVars

\* The variance never falls below ten times its constant.
GarchFloor == garch.num >= 10 * garch.den

\* Except on the bar that reverses it the stop is not inside the bar, nor
\* inside the bar before.
StopClear ==
  bars > 1 /\ ~stop.fresh =>
    IF stop.bull THEN stop.sar <= last.low /\ stop.sar <= before.low
    ELSE stop.sar >= last.high /\ stop.sar >= before.high

\* Within a leg the stop only comes closer, except after a bar that reversed
\* it.
StopRatchets ==
  [][bars > 1 /\ ~stop.fresh /\ stop'.bull = stop.bull =>
       IF stop.bull THEN stop'.sar >= stop.sar ELSE stop'.sar <= stop.sar]_readingVars

\* From the second reading on the line is on the price's far side, as long
\* as the bands have not crossed.
TrendSide ==
  trend.aged /\ trend.dn <= trend.up =>
    IF trend.dir = 1 THEN 2 * last.close >= trend.dn ELSE 2 * last.close <= trend.up

\* While the direction lasts the line does not retreat.
TrendRatchets ==
  [][trend.aged /\ trend.dn <= trend.up /\ trend'.dir = trend.dir =>
       IF trend.dir = 1 THEN trend'.dn >= trend.dn ELSE trend'.up <= trend.up]_readingVars

\* The cross reads true only while the first line is not below the second.
CrossLatched == cross.above => cross.x >= cross.y

\* On-balance volume and the accumulation line stay within the volume.
VolumeBounds ==
  /\ -money.vol <= money.obv /\ money.obv <= money.vol
  /\ -money.vol <= money.ad /\ money.ad <= money.vol

\* The momentum oscillator without its sign is the trend intensity.
SameStrength ==
  /\ Abs(ChandeMomentum(win)[1]) = TrendIntensity(win)[1]
  /\ ChandeMomentum(win)[2] = TrendIntensity(win)[2]

\* Unless the window is flat the stochastic and %R are one number, a hundred
\* apart; on a flat window the stochastic reads 5000 and %R its top.
OneOscillator ==
  win.n > 0 =>
    IF win.lo < win.hi
    THEN /\ StochasticK(win)[1] - WilliamsR(win)[1] = 100 * (win.hi - win.lo)
         /\ 0 <= StochasticK(win)[1] /\ StochasticK(win)[1] <= 100 * StochasticK(win)[2]
    ELSE StochasticK(win)[1] = 5000 /\ WilliamsR(win)[1] = 0

\* The other readings of a window keep to their scales.
Scales ==
  /\ 0 <= Buying(win)[1] /\ Buying(win)[1] <= Buying(win)[2]
  /\ Abs(MoneyFlow(win)[1]) <= MoneyFlow(win)[2]
  /\ 0 <= MoneyIndex(win)[1] /\ MoneyIndex(win)[1] <= 100 * MoneyIndex(win)[2]
  /\ win.n > 1 => /\ 0 <= AroonUp(win)[1] /\ AroonUp(win)[1] <= 100 * AroonUp(win)[2]
                  /\ 0 <= AroonDown(win)[1] /\ AroonDown(win)[1] <= 100 * AroonDown(win)[2]
=============================================================================
