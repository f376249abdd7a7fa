----------------------------- MODULE Divergence -----------------------------
(***************************************************************************)
(* Price against oscillator at swing pivots, the ticks' own flow, and the  *)
(* strategies that trade them.  A series is a function on bars 1 .. n; d   *)
(* is 1 for highs (bearish events) and -1 for lows (bullish ones).         *)
(***************************************************************************)
EXTENDS Signals, FiniteSets

Left     == 3
Right    == 3
MaxGap   == 8
Lookback == 120

From(n) == High2(1, n - Lookback + 1)

\* Swing pivots of xs that bars from .. n confirm: Left bars before and Right
\* bars after are strictly less extreme.
Pivots(xs, from, n, d) ==
  {i \in from + Left .. n - Right :
     \A j \in i - Left .. i + Right : j # i => d * xs[j] < d * xs[i]}

\* An unknown oscillator value counts as 0, but is no pivot.
OscPivots(os, warm, from, n, d) == {i \in Pivots(os, from, n, d) : i > warm}

Before(P, i) == {j \in P : j < i}

\* The pivot before i, or i itself.
Prior(P, i) ==
  IF Before(P, i) = {} THEN i
  ELSE CHOOSE j \in Before(P, i) : \A k \in Before(P, i) : k <= j

\* The nearest oscillator pivot, the earlier one of two.
Nearest(O, i) ==
  CHOOSE o \in O : \A q \in O :
    Abs(o - i) < Abs(q - i) \/ (Abs(o - i) = Abs(q - i) /\ o <= q)

Close2(O, i) == {o \in O : Abs(o - i) <= MaxGap}

\* How much further out than the pivot before it a pivot lies.
Advance(xs, P, i, d) == d * (xs[i] - xs[Prior(P, i)])

\* Regular: the price goes further out and the oscillator falls short.
\* Hidden: the other way round.
Kind(price, osc) ==
  IF price > 0 /\ osc < 0 THEN "regular" ELSE IF price < 0 /\ osc > 0 THEN "hidden" ELSE "none"

\* The event at price pivot i; confirm is when the code calls it confirmed.
EventAt(xs, os, warm, n, i, d) ==
  LET P == Pivots(xs, From(n), n, d)
      O == OscPivots(os, warm, From(n), n, d)
      o == Nearest(Close2(O, i), i)
  IN  [d |-> d, price |-> i, osc |-> o, confirm |-> i + Right,
       kind |-> Kind(Advance(xs, P, i, d), Advance(os, O, o, d))]

Paired(xs, os, warm, n, d) ==
  {i \in Pivots(xs, From(n), n, d) :
     Close2(OscPivots(os, warm, From(n), n, d), i) # {}}

Events(xs, os, warm, n) ==
  IF n < Left + Right + 2 THEN {}
  ELSE {e \in {EventAt(xs, os, warm, n, i, d) : i \in Paired(xs, os, warm, n, 1), d \in {1}}
          \cup {EventAt(xs, os, warm, n, i, d) : i \in Paired(xs, os, warm, n, -1), d \in {-1}} :
          e.kind # "none"}

\* The most recent event confirmed within the last bars.
Recent(xs, os, warm, n, within) == {e \in Events(xs, os, warm, n) : n - e.confirm <= within}

LastDivergence(xs, os, warm, n, within) ==
  CHOOSE e \in Recent(xs, os, warm, n, within) :
    \A q \in Recent(xs, os, warm, n, within) : q.confirm <= e.confirm

\* Slope and proximity of the pair, half and half, in percent.
Strength(slope, gap) == High2(5, Low2((slope + 100 - (100 * gap) \div 8) \div 2, 100))

-----------------------------------------------------------------------------
(* The strategies: e is the last event, trend the close less its average    *)

Bull(e) == e.d = -1

RSIDivergence(e, score, trend) ==
  LET heard == e.kind = "regular" /\ score >= 35
  IN  Mark(heard /\ Bull(e) /\ ~(trend > 0 /\ score < 70),
           heard /\ ~Bull(e) /\ ~(trend <= 0 /\ score < 70))

MacdHidden(e, score, regime) ==
  LET heard == e.kind = "hidden" /\ score >= 30
  IN  Mark(heard /\ Bull(e) /\ regime = "bull_trend", heard /\ ~Bull(e) /\ regime = "bear_trend")

CCIDivergence(e, score, regime) ==
  LET heard == e.kind = "regular" /\ score >= 30 /\ regime \in {"range", "low_vol", "unknown"}
  IN  Mark(heard /\ Bull(e), heard /\ ~Bull(e))

\* Any divergence that the higher timeframe's bias agrees with.
MTFConfluence(e, bias) == Mark(Bull(e) /\ bias > 0, ~Bull(e) /\ bias <= 0)

-----------------------------------------------------------------------------
(* The ticks' flow: p is the prices of the last n ticks, of size one *)

Ups(p, n)   == {i \in 2 .. n : p[i] > p[i - 1]}
Downs(p, n) == {i \in 2 .. n : p[i] < p[i - 1]}

RunningDelta(p, n) == Cardinality(Ups(p, n)) - Cardinality(Downs(p, n))

\* In hundredths.
TickImbalance(p, n) ==
  LET moved == Cardinality(Ups(p, n)) + Cardinality(Downs(p, n))
  IN  IF moved = 0 THEN 0
      ELSE Sign(RunningDelta(p, n)) * ((100 * Abs(RunningDelta(p, n))) \div moved)

\* A new high in the second half, d = 1, or a new low, d = -1 ...
Pressed(p, n, d) ==
  \E i \in n \div 2 + 1 .. n : \A j \in 1 .. n \div 2 : d * p[i] > d * p[j]

\* ... that the second half's delta does not confirm.
Unconfirmed(p, n, d) ==
  \E j \in 2 .. (n - 1) \div 2 + 1 :
    \A i \in (n - 1) \div 2 + 2 .. n : d * RunningDelta(p, i) < d * RunningDelta(p, j)

Absorbed(p, n, d) == Pressed(p, n, d) /\ Unconfirmed(p, n, d)

\* Bearish absorption at a high, bullish at a low; both at once is neither.
DeltaDivergence(p, n) ==
  IF n < 4 THEN 0
  ELSE Mark(Absorbed(p, n, -1) /\ ~Absorbed(p, n, 1), Absorbed(p, n, 1) /\ ~Absorbed(p, n, -1))

=============================================================================
