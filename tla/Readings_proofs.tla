-------------------------- MODULE Readings_proofs --------------------------
(***************************************************************************)
(* What the readings of the tape promise, in three parts.                  *)
(*                                                                         *)
(* The strategies' votes, for every reading: a tape turned upside down     *)
(* turns every vote, with the exceptions named below; a cross that must be *)
(* both old and fresh never votes; weights stay in a narrow band; one      *)
(* voter alone cannot keep its confidence; and divergence events are       *)
(* called confirmed before their oscillator pivot is.                      *)
(*                                                                         *)
(* The indicators' loops, on a tape of any length: each part of the        *)
(* invariant follows one group of accumulators, and only needs its own     *)
(* step and that a bar's close lies between its low and its high.          *)
(*                                                                         *)
(* The playbook and the loop that trades on those readings: a harder tape  *)
(* never loosens the playbook, stakes stay within their band, crisis       *)
(* always stands in defense; the ward follows the journal, and the tape is *)
(* heeded, for any members, tapes, places, windows and limits.             *)
(***************************************************************************)
EXTENDS Divergence, Indicators, EdgeLoop, FiniteSetTheorems, TLAPS

-----------------------------------------------------------------------------
(* Votes *)

\* The same reading on the tape turned upside down.
Turn(r) == [known |-> r.known, prev |-> -r.prev, now |-> -r.now]

LEMMA MarkTurns ==
  ASSUME NEW u \in BOOLEAN, NEW d \in BOOLEAN, ~(u /\ d)
  PROVE  Mark(d, u) = -Mark(u, d)
BY DEF Mark

\* The cross strategy asks that the state held for two bars or more and that
\* it changed on the last one: whatever the tape, it has no vote
\* (strategies/trend.py, EMACrossTrend).
THEOREM EmaCrossNeverFires ==
  ASSUME NEW confirm \in Nat, confirm >= 2,
         NEW state \in [0 .. confirm -> BOOLEAN]
  PROVE  EMACrossTrend(state, confirm) = 0
<1> DEFINE held  == \A j \in 0 .. confirm - 1 : state[j] = state[0]
           fresh == state[0] # state[1]
<1>1. 1 \in 0 .. confirm - 1
  OBVIOUS
<1>2. ~(held /\ fresh)
  BY <1>1
<1>3. EMACrossTrend(state, confirm) = Mark(held /\ fresh /\ state[0], held /\ fresh /\ ~state[0])
  BY DEF EMACrossTrend
<1> QED
  BY <1>2, <1>3 DEF Mark

-----------------------------------------------------------------------------
(* Votes on the tape turned upside down *)

LEMMA LineParts ==
  ASSUME NEW r \in Line
  PROVE  /\ r.known \in BOOLEAN /\ r.prev \in Int /\ r.now \in Int
         /\ Turn(r).known = r.known /\ Turn(r).prev = -r.prev /\ Turn(r).now = -r.now
BY DEF Line, Turn

\* No trend strategy has a side it prefers, save the stop-and-reverse when a
\* price lies on its stop (strategies/trend.py).
THEOREM TrendVotesTurn ==
  ASSUME NEW r \in Line
  PROVE  /\ MacdTrendRider(Turn(r)) = -MacdTrendRider(r)
         /\ SupertrendSurf(Turn(r)) = -SupertrendSurf(r)
         /\ \A above, below \in Int :
              above <= below => IchimokuKumo(Turn(r), -below, -above) = -IchimokuKumo(r, above, below)
         /\ r.prev # 0 /\ r.now # 0 => PSARFlip(Turn(r)) = -PSARFlip(r)
         /\ \A adx \in Int : ADXTrendStorm(Turn(r), adx) = -ADXTrendStorm(r, adx)
<1> USE LineParts
<1>1. MacdTrendRider(Turn(r)) = -MacdTrendRider(r)
  BY DEF MacdTrendRider, Vote, Mark, Abs
<1>2. SupertrendSurf(Turn(r)) = -SupertrendSurf(r)
  BY DEF SupertrendSurf, Vote, Mark
<1>3. ASSUME NEW above \in Int, NEW below \in Int, above <= below
      PROVE  IchimokuKumo(Turn(r), -below, -above) = -IchimokuKumo(r, above, below)
  BY <1>3 DEF IchimokuKumo, Vote, Mark
<1>4. ASSUME r.prev # 0, r.now # 0 PROVE PSARFlip(Turn(r)) = -PSARFlip(r)
  BY <1>4 DEF PSARFlip, Vote, Mark
<1>5. ASSUME NEW adx \in Int PROVE ADXTrendStorm(Turn(r), adx) = -ADXTrendStorm(r, adx)
  <2>1. /\ Abs(-r.now) = Abs(r.now)
        /\ (-r.now) * (-r.prev) = r.now * r.prev
    BY DEF Abs
  <2>2. adx >= 250 /\ r.now * r.prev <= 0 /\ Abs(r.now) >= 5
          <=> adx >= 250 /\ (-r.now) * (-r.prev) <= 0 /\ Abs(-r.now) >= 5
    BY <2>1
  <2> DEFINE storm == adx >= 250 /\ r.now * r.prev <= 0 /\ Abs(r.now) >= 5
  <2>3. /\ ADXTrendStorm(r, adx) = Vote(r, storm /\ r.now > 0, storm /\ r.now < 0)
        /\ ADXTrendStorm(Turn(r), adx) = Vote(Turn(r), storm /\ -r.now > 0, storm /\ -r.now < 0)
    BY <2>2 DEF ADXTrendStorm
  <2> HIDE DEF storm
  <2> QED
    BY <2>3 DEF Vote, Mark
<1> QED
  BY <1>1, <1>2, <1>3, <1>4, <1>5

\* Every fade of a stretched oscillator fades both ends alike
\* (strategies/meanrev.py).
THEOREM RevertVotesTurn ==
  ASSUME NEW r \in Line, NEW x \in Int, NEW y \in Int
  PROVE  /\ BollingerRevert(Turn(r), -y, -x) = -BollingerRevert(r, x, y)
         /\ RSIStretch(Turn(r)) = -RSIStretch(r)
         /\ StochHook(Turn(r), -x) = -StochHook(r, x)
         /\ CCIRevert(Turn(r)) = -CCIRevert(r)
         /\ WilliamsFade(Turn(r)) = -WilliamsFade(r)
<1> USE LineParts
<1>1. BollingerRevert(Turn(r), -y, -x) = -BollingerRevert(r, x, y)
  BY DEF BollingerRevert, Vote, Mark
<1>2. RSIStretch(Turn(r)) = -RSIStretch(r)
  BY DEF RSIStretch, Vote, Mark
<1>3. StochHook(Turn(r), -x) = -StochHook(r, x)
  BY DEF StochHook, Vote, Mark
<1>4. CCIRevert(Turn(r)) = -CCIRevert(r)
  BY DEF CCIRevert, Vote, Mark
<1>5. WilliamsFade(Turn(r)) = -WilliamsFade(r)
  BY DEF WilliamsFade, Vote, Mark
<1> QED
  BY <1>1, <1>2, <1>3, <1>4, <1>5

\* Every chase of a launch chases both ways alike (strategies/momentum.py).
THEOREM MomentumVotesTurn ==
  ASSUME NEW r \in Line, NEW x \in Int, NEW y \in Int
  PROVE  /\ ROCLaunch(Turn(r)) = -ROCLaunch(r)
         /\ y >= 0 => MomentumBurst(Turn(r), -x, y) = -MomentumBurst(r, x, y)
         /\ AOFlip(Turn(r)) = -AOFlip(r)
         /\ ACShove(Turn(r), -x) = -ACShove(r, x)
         /\ ElderImpulse(Turn(r), -y, -x) = -ElderImpulse(r, x, y)
         /\ RSIMomentum(Turn(r)) = -RSIMomentum(r)
<1> USE LineParts
<1>1. ROCLaunch(Turn(r)) = -ROCLaunch(r)
  BY DEF ROCLaunch, Vote, Mark
<1>2. ASSUME y >= 0 PROVE MomentumBurst(Turn(r), -x, y) = -MomentumBurst(r, x, y)
  BY <1>2 DEF MomentumBurst, Vote, Mark
<1>3. AOFlip(Turn(r)) = -AOFlip(r)
  BY DEF AOFlip, Vote, Mark
<1>4. ACShove(Turn(r), -x) = -ACShove(r, x)
  BY DEF ACShove, Vote, Mark
<1>5. ElderImpulse(Turn(r), -y, -x) = -ElderImpulse(r, x, y)
  BY DEF ElderImpulse, Vote, Mark
<1>6. RSIMomentum(Turn(r)) = -RSIMomentum(r)
  BY DEF RSIMomentum, Vote, Mark
<1> QED
  BY <1>1, <1>2, <1>3, <1>4, <1>5, <1>6

\* Breakouts and volatility trades, wherever the channel's top is not below
\* its bottom (strategies/breakout.py, strategies/volatility.py).
THEOREM BreakoutVotesTurn ==
  ASSUME NEW top \in Line, NEW bottom \in Line, top.known = bottom.known,
         top.now <= bottom.now, top.prev <= bottom.prev,
         NEW x \in Int, NEW price \in Nat
  PROVE  /\ DonchianBreak(Turn(bottom), Turn(top)) = -DonchianBreak(top, bottom)
         /\ KeltnerRide(Turn(bottom), Turn(top), -x) = -KeltnerRide(top, bottom, x)
         /\ SqueezePop(top, -x) = -SqueezePop(top, x)
         /\ BandwidthPierce(Turn(top), x) = -BandwidthPierce(top, x)
         /\ VolExpansionRider(top, -x, price) = -VolExpansionRider(top, x, price)
         /\ SqueezeRelease(top, x, -bottom.now, -top.now) = -SqueezeRelease(top, x, top.now, bottom.now)
         /\ GarchMeanRev(top, -x, price) = -GarchMeanRev(top, x, price)
         /\ HVContrarianFade(Turn(top), x) = -HVContrarianFade(top, x)
<1> USE LineParts
<1>1. DonchianBreak(Turn(bottom), Turn(top)) = -DonchianBreak(top, bottom)
  BY DEF DonchianBreak, Vote, Mark
<1>2. KeltnerRide(Turn(bottom), Turn(top), -x) = -KeltnerRide(top, bottom, x)
  BY DEF KeltnerRide, Vote, Mark
<1>3. SqueezePop(top, -x) = -SqueezePop(top, x)
  BY DEF SqueezePop, Vote, Mark
<1>4. BandwidthPierce(Turn(top), x) = -BandwidthPierce(top, x)
  BY DEF BandwidthPierce, Vote, Mark
<1>5. VolExpansionRider(top, -x, price) = -VolExpansionRider(top, x, price)
  BY DEF VolExpansionRider, Vote, Mark
<1>6. SqueezeRelease(top, x, -bottom.now, -top.now) = -SqueezeRelease(top, x, top.now, bottom.now)
  BY DEF SqueezeRelease, Vote, Mark
<1>7. GarchMeanRev(top, -x, price) = -GarchMeanRev(top, x, price)
  BY DEF GarchMeanRev, Vote, Mark
<1>8. HVContrarianFade(Turn(top), x) = -HVContrarianFade(top, x)
  BY DEF HVContrarianFade, Vote, Mark
<1> QED
  BY <1>1, <1>2, <1>3, <1>4, <1>5, <1>6, <1>7, <1>8

-----------------------------------------------------------------------------
(* Candles on the tape turned upside down *)

LEMMA BarParts ==
  ASSUME NEW b \in Bar
  PROVE  /\ b.o \in Int /\ b.h \in Int /\ b.l \in Int /\ b.c \in Int
         /\ b.l <= b.o /\ b.l <= b.c /\ b.o <= b.h /\ b.c <= b.h
         /\ Flip(b).o = -b.o /\ Flip(b).h = -b.l /\ Flip(b).l = -b.h /\ Flip(b).c = -b.c
BY DEF Bar, Flip, Low2, High2

LEMMA Shape ==
  ASSUME NEW b \in Bar
  PROVE  /\ Body(b) \in Int /\ Height(b) \in Int /\ LowerWick(b) \in Int /\ UpperWick(b) \in Int
         /\ 0 <= Body(b) /\ Body(b) <= Height(b)
         /\ LowerWick(b) + Body(b) + UpperWick(b) = Height(b)
         /\ 0 <= LowerWick(b) /\ 0 <= UpperWick(b)
         /\ Body(Flip(b)) = Body(b) /\ Height(Flip(b)) = Height(b)
         /\ LowerWick(Flip(b)) = UpperWick(b) /\ UpperWick(Flip(b)) = LowerWick(b)
         /\ Up(Flip(b)) = Down(b) /\ Down(Flip(b)) = Up(b)
BY BarParts DEF Body, Height, LowerWick, UpperWick, Up, Down, Abs, Low2, High2

LEMMA TapeParts ==
  ASSUME NEW s \in Tape, NEW j \in 0 .. 3
  PROVE  s[j] \in Bar /\ FlipTape(s)[j] = Flip(s[j])
BY DEF Tape, FlipTape

LEMMA MirrorBars ==
  ASSUME NEW s \in Tape
  PROVE  /\ s[0] \in Bar /\ s[1] \in Bar /\ s[2] \in Bar /\ s[3] \in Bar
         /\ FlipTape(s)[0] = Flip(s[0]) /\ FlipTape(s)[1] = Flip(s[1])
         /\ FlipTape(s)[2] = Flip(s[2]) /\ FlipTape(s)[3] = Flip(s[3])
BY TapeParts

\* The detectors see the same pattern, mirrored, on the mirrored tape; the
\* outside bar and the marubozu when the bar is not a doji; the morning star
\* is the mirror of the evening star (indicators/patterns.py).
THEOREM PatternsTurn ==
  ASSUME NEW s \in Tape
  PROVE  /\ Engulfing(FlipTape(s)) = -Engulfing(s)
         /\ ThreeSoldiers(FlipTape(s)) = -ThreeSoldiers(s)
         /\ PinBar(FlipTape(s)) = -PinBar(s)
         /\ Marubozu(FlipTape(s)) = -Marubozu(s)
         /\ s[0].o # s[0].c => OutsideBar(FlipTape(s)) = -OutsideBar(s)
         /\ Tweezer(FlipTape(s)) = -Tweezer(s)
         /\ Harami(FlipTape(s)) = -Harami(s)
         /\ MorningStar(FlipTape(s)) = -EveningStar(s)
<1>0. /\ s[0] \in Bar /\ s[1] \in Bar /\ s[2] \in Bar
      /\ FlipTape(s)[0] = Flip(s[0]) /\ FlipTape(s)[1] = Flip(s[1]) /\ FlipTape(s)[2] = Flip(s[2])
  BY MirrorBars
<1>1. Engulfing(FlipTape(s)) = -Engulfing(s)
  <2>1. Body(Flip(s[0])) = Body(s[0]) /\ Body(Flip(s[1])) = Body(s[1])
    BY <1>0, Shape
  <2> QED
    BY <1>0, <2>1, BarParts DEF Engulfing, Mark, Up, Down
<1>2. ThreeSoldiers(FlipTape(s)) = -ThreeSoldiers(s)
  <2>1. \A t \in [0 .. 3 -> [o : Int, h : Int, l : Int, c : Int]] :
          ((\A j \in 0 .. 2 : Up(t[j])) <=> Up(t[0]) /\ Up(t[1]) /\ Up(t[2]))
          /\ ((\A j \in 0 .. 2 : Down(t[j])) <=> Down(t[0]) /\ Down(t[1]) /\ Down(t[2]))
    OBVIOUS
  <2>2. s \in [0 .. 3 -> [o : Int, h : Int, l : Int, c : Int]]
        /\ FlipTape(s) \in [0 .. 3 -> [o : Int, h : Int, l : Int, c : Int]]
    BY DEF Tape, FlipTape, Flip, Bar
  <2>3. /\ (\A j \in 0 .. 2 : Up(s[j])) <=> Up(s[0]) /\ Up(s[1]) /\ Up(s[2])
        /\ (\A j \in 0 .. 2 : Down(s[j])) <=> Down(s[0]) /\ Down(s[1]) /\ Down(s[2])
        /\ (\A j \in 0 .. 2 : Up(FlipTape(s)[j])) <=> Down(s[0]) /\ Down(s[1]) /\ Down(s[2])
        /\ (\A j \in 0 .. 2 : Down(FlipTape(s)[j])) <=> Up(s[0]) /\ Up(s[1]) /\ Up(s[2])
    <3>1. Up(Flip(s[0])) = Down(s[0]) /\ Up(Flip(s[1])) = Down(s[1]) /\ Up(Flip(s[2])) = Down(s[2])
          /\ Down(Flip(s[0])) = Up(s[0]) /\ Down(Flip(s[1])) = Up(s[1]) /\ Down(Flip(s[2])) = Up(s[2])
      BY <1>0, Shape
    <3> QED
      BY <1>0, <2>1, <2>2, <3>1
  <2> DEFINE U  == \A j \in 0 .. 2 : Up(s[j])
             V  == \A j \in 0 .. 2 : Down(s[j])
             UF == \A j \in 0 .. 2 : Up(FlipTape(s)[j])
             VF == \A j \in 0 .. 2 : Down(FlipTape(s)[j])
  <2>4. (UF <=> V) /\ (VF <=> U) /\ ~(U /\ V)
    BY <2>3, <1>0, BarParts DEF Up, Down
  <2>5. /\ ThreeSoldiers(s) = Mark(U /\ s[0].c > s[1].c /\ s[1].c > s[2].c,
                                   V /\ s[0].c < s[1].c /\ s[1].c < s[2].c)
        /\ ThreeSoldiers(FlipTape(s)) = Mark(UF /\ -s[0].c > -s[1].c /\ -s[1].c > -s[2].c,
                                             VF /\ -s[0].c < -s[1].c /\ -s[1].c < -s[2].c)
    BY <1>0, BarParts DEF ThreeSoldiers
  <2> HIDE DEF U, V, UF, VF
  <2> QED
    BY <1>0, <2>4, <2>5, BarParts DEF Mark
<1>3. PinBar(FlipTape(s)) = -PinBar(s)
  BY <1>0, Shape DEF PinBar, Mark
<1>4. Marubozu(FlipTape(s)) = -Marubozu(s)
  <2>1. /\ Height(Flip(s[0])) = Height(s[0]) /\ Body(Flip(s[0])) = Body(s[0])
        /\ Height(s[0]) \in Int /\ Body(s[0]) \in Int
    BY <1>0, Shape
  <2>2. Height(s[0]) > 0 /\ 10 * Body(s[0]) >= 9 * Height(s[0]) => s[0].o # s[0].c
    BY <1>0, <2>1, BarParts DEF Body, Abs
  <2> QED
    BY <1>0, <2>1, <2>2, BarParts DEF Marubozu, Mark, Up
<1>5. ASSUME s[0].o # s[0].c PROVE OutsideBar(FlipTape(s)) = -OutsideBar(s)
  <2>1. /\ Height(Flip(s[0])) = Height(s[0]) /\ Height(Flip(s[1])) = Height(s[1])
        /\ Height(s[0]) \in Int /\ Height(s[1]) \in Int
    BY <1>0, Shape
  <2> QED
    BY <1>0, <1>5, <2>1, BarParts DEF OutsideBar, Mark, Up
<1>6. Tweezer(FlipTape(s)) = -Tweezer(s)
  <2>1. /\ Height(Flip(s[0])) = Height(s[0]) /\ Height(Flip(s[1])) = Height(s[1])
        /\ Height(s[0]) \in Int /\ Height(s[1]) \in Int
    BY <1>0, Shape
  <2>2. /\ Abs(-s[0].h - (-s[1].h)) = Abs(s[0].h - s[1].h)
        /\ Abs(-s[0].l - (-s[1].l)) = Abs(s[0].l - s[1].l)
    BY <1>0, BarParts DEF Abs
  <2> QED
    BY <1>0, <2>1, <2>2, BarParts DEF Tweezer, Mark, Up, Down
<1>7. Harami(FlipTape(s)) = -Harami(s)
  <2>1. /\ Body(Flip(s[0])) = Body(s[0]) /\ Body(Flip(s[1])) = Body(s[1])
        /\ Body(s[0]) \in Int /\ Body(s[1]) \in Int
    BY <1>0, Shape
  <2> QED
    BY <1>0, <2>1, BarParts DEF Harami, Mark, Up, Down, Low2, High2
<1>8. MorningStar(FlipTape(s)) = -EveningStar(s)
  <2>1. /\ Body(Flip(s[1])) = Body(s[1]) /\ Body(Flip(s[2])) = Body(s[2])
        /\ Body(s[1]) \in Int /\ Body(s[2]) \in Int
    BY <1>0, Shape
  <2> QED
    BY <1>0, <2>1, BarParts DEF MorningStar, EveningStar, Pause, Mark, Up, Down
<1> QED
  BY <1>1, <1>2, <1>3, <1>4, <1>5, <1>6, <1>7, <1>8

\* The hammer has no mirror: the shape upside down is not a hammer, a long
\* lower wick after no decline is a put, and nothing answers a long upper
\* wick; an outside doji is always a put (indicators/patterns.py, hammer and
\* outside_bar).
THEOREM OneSidedPatterns ==
  ASSUME NEW s \in Tape
  PROVE  /\ HammerShape(s[0]) => ~HammerShape(Flip(s[0]))
         /\ HammerShape(s[0]) /\ s[1].c >= s[3].c => Hammer(s, TRUE) = -1
         /\ OutsideBar(s) # 0 /\ s[0].o = s[0].c => OutsideBar(s) = -1 /\ OutsideBar(FlipTape(s)) = -1
<1>0. /\ s[0] \in Bar /\ s[1] \in Bar
      /\ FlipTape(s)[0] = Flip(s[0]) /\ FlipTape(s)[1] = Flip(s[1])
  BY MirrorBars
<1>1. HammerShape(s[0]) => ~HammerShape(Flip(s[0]))
  BY <1>0, Shape DEF HammerShape
<1>2. HammerShape(s[0]) /\ s[1].c >= s[3].c => Hammer(s, TRUE) = -1
  BY DEF Hammer
<1>3. ASSUME OutsideBar(s) # 0, s[0].o = s[0].c
      PROVE  OutsideBar(s) = -1 /\ OutsideBar(FlipTape(s)) = -1
  <2>1. /\ Height(Flip(s[0])) = Height(s[0]) /\ Height(Flip(s[1])) = Height(s[1])
        /\ Height(s[0]) \in Int /\ Height(s[1]) \in Int
    BY <1>0, Shape
  <2> QED
    BY <1>0, <1>3, <2>1, BarParts DEF OutsideBar, Mark, Up
<1> QED
  BY <1>1, <1>2, <1>3

-----------------------------------------------------------------------------
(* The ensemble *)

\* Scores stay between 0 and 1, so weights stay between a half and one and a
\* half: neither bound of the clamp, 0.1 and 2.0, that reinforce_vote names as
\* where wins and losses push is ever reached (strategies/ensemble.py).
THEOREM WeightsStayNarrow ==
  ASSUME NEW score \in 0 .. 1000, NEW won \in BOOLEAN
  PROVE  /\ Scored(score, won) \in 0 .. 1000
         /\ Weight(score) \in 500 .. 1500
<1>1. Scored(score, won) \in 0 .. 1000
  <2>1. CASE won
    BY <2>1 DEF Scored
  <2>2. CASE ~won
    BY <2>2 DEF Scored
  <2> QED
    BY <2>1, <2>2
<1>2. Weight(score) \in 500 .. 1500
  BY DEF Weight, High2, Low2
<1> QED
  BY <1>1, <1>2

\* A strategy out of its regime keeps at least two fifths of its weight and
\* one in it keeps all of it: the regime alone can never silence a vote
\* (strategies/ensemble.py, _effective_weight; base.py, score_for_regime).
THEOREM RegimeNeverSilences ==
  ASSUME NEW weight \in 500 .. 1500, NEW preferred \in BOOLEAN, NEW regime
  PROVE  /\ 5 * EffectiveWeight(weight, 100, RegimeFit(preferred, regime)) >= 2 * weight
         /\ preferred => EffectiveWeight(weight, 100, RegimeFit(preferred, regime)) = weight
<1> DEFINE f == RegimeFit(preferred, regime)
<1>1. f \in {150, 500, 1000} /\ (preferred => f = 1000)
  BY DEF RegimeFit
<1>2. /\ 5 * EffectiveWeight(weight, 100, 150) >= 2 * weight
      /\ 5 * EffectiveWeight(weight, 100, 500) >= 2 * weight
      /\ 5 * EffectiveWeight(weight, 100, 1000) >= 2 * weight
      /\ EffectiveWeight(weight, 100, 1000) = weight
  BY DEF EffectiveWeight
<1> HIDE DEF f
<1>3. 5 * EffectiveWeight(weight, 100, f) >= 2 * weight /\ (preferred => EffectiveWeight(weight, 100, f) = weight)
  BY <1>1, <1>2
<1> QED
  BY <1>3 DEF f

\* A side never outweighs and loses; equal sides stand down, and so does a
\* side short of three fifths (strategies/ensemble.py, _blend).
Sides == [strength : Nat, weight : Nat \ {0}, voters : Nat]

LEMMA AverageBounds ==
  ASSUME NEW a \in Nat, NEW k \in 0 .. 1000
  PROVE  (a * k) \div 1000 \in Nat /\ (a * k) \div 1000 <= a
<1>1. a * k \in Nat /\ a * k <= a * 1000
  OBVIOUS
<1>2. \A y \in Nat : y <= a * 1000 => y \div 1000 \in Nat /\ y \div 1000 <= a
  OBVIOUS
<1> QED
  BY <1>1, <1>2

LEMMA DominanceBand ==
  ASSUME NEW w \in Sides, NEW l \in Sides, w.strength > 0
  PROVE  Dominance(w, l) \in 0 .. 1000
<1> DEFINE x == w.strength
           t == w.strength + l.strength
<1>1. x \in Nat /\ t \in Nat /\ t > 0 /\ x <= t
  BY DEF Sides
<1> HIDE DEF x, t
<1>2. \A q \in Int : q = (1000 * x) \div t => q \in 0 .. 1000
  <2> SUFFICES ASSUME NEW q \in Int, q = (1000 * x) \div t PROVE q \in 0 .. 1000
    OBVIOUS
  <2>1. t * q <= 1000 * x /\ 1000 * x < t * (q + 1)
    BY <1>1
  <2>2. 0 <= q
    BY <1>1, <2>1
  <2>3. q <= 1000
    <3>1. SUFFICES ASSUME q >= 1001 PROVE FALSE
      OBVIOUS
    <3>2. t * q >= t * 1001
      BY <1>1, <3>1
    <3> QED
      BY <1>1, <2>1, <3>2
  <2> QED
    BY <2>2, <2>3
<1>3. (1000 * x) \div t \in Int
  BY <1>1
<1> QED
  BY <1>2, <1>3 DEF Dominance, x, t

\* The blend is never surer than its winners' average, and a lone voter loses
\* a tenth of what it said however dominant it is: one voter cannot mint its
\* own consensus (strategies/ensemble.py, _blend).
THEOREM BlendNeverMints ==
  ASSUME NEW w \in Sides, NEW l \in Sides, w.strength > 0
  PROVE  /\ BlendConf(w, l) <= w.strength \div w.weight
         /\ w.voters <= 1 => 10 * BlendConf(w, l) <= 9 * (w.strength \div w.weight)
<1> DEFINE a == w.strength \div w.weight
           k == 550 + (450 * Dominance(w, l)) \div 1000
           m == (a * k) \div 1000
<1>1. a \in Nat
  BY DEF Sides
<1>2. k \in 0 .. 1000
  <2>1. Dominance(w, l) \in 0 .. 1000
    BY DominanceBand
  <2> HIDE DEF a
  <2> QED
    BY <2>1
<1> HIDE DEF a, k
<1>3. m \in Nat /\ m <= a
  <2>1. a * k \in Nat /\ a * k <= a * 1000
    BY <1>1, <1>2
  <2>2. \A y \in Nat : y <= a * 1000 => y \div 1000 \in Nat /\ y \div 1000 <= a
    BY <1>1
  <2> QED
    BY <2>1, <2>2
<1>4. BlendConf(w, l) = (m * Support(w)) \div 1000
  BY DEF BlendConf, a, k
<1>5. Support(w) \in 0 .. 1000 /\ (w.voters <= 1 => Support(w) \in 0 .. 900)
  BY DEF Support, Sides, Low2
<1> HIDE DEF m
<1>6. BlendConf(w, l) \in Nat /\ BlendConf(w, l) <= m
  BY <1>3, <1>4, <1>5, AverageBounds
<1>7. ASSUME w.voters <= 1 PROVE 10 * BlendConf(w, l) <= 9 * a
  <2>1. m * Support(w) \in Nat /\ m * Support(w) <= m * 900
    BY <1>3, <1>5, <1>7
  <2>2. \A y \in Nat : y <= m * 900 => 10 * (y \div 1000) <= 9 * m
    BY <1>3
  <2> QED
    BY <1>1, <1>3, <1>4, <2>1, <2>2
<1> QED
  BY <1>1, <1>3, <1>6, <1>7 DEF a

\* At most one side carries the blend, and never on equal strength.
THEOREM BlendTakesOneSide ==
  ASSUME NEW calls \in Sides, NEW puts \in Sides
  PROVE  /\ ~(~Contested(calls, puts) /\ ~Contested(puts, calls))
         /\ calls.strength = puts.strength => BlendSide(calls, puts) = 0
         /\ BlendSide(puts, calls) = -BlendSide(calls, puts)
BY DEF Sides, Contested, BlendSide, Mark

-----------------------------------------------------------------------------
(* Divergence *)

\* A confirmed pivot stays one however the series goes on, and no pivot is
\* added behind the bars that confirm it.
LEMMA PivotsAreFinal ==
  ASSUME NEW n \in Nat, NEW m \in Nat, n <= m, NEW from \in Nat, NEW xs, NEW d
  PROVE  Pivots(xs, from, n, d) = {i \in Pivots(xs, from, m, d) : i <= n - Right}
BY DEF Pivots, Left, Right

LEMMA NearestIsClose ==
  ASSUME NEW i \in Nat, NEW S \in SUBSET Int, S # {}, \A o \in S : Abs(o - i) <= MaxGap
  PROVE  Nearest(S, i) \in S
<1> DEFINE At(k) == i - k \in S \/ i + k \in S
<1>1. /\ \A o \in S : \E k \in 0 .. 8 : o = i - k \/ o = i + k
      /\ \A o \in S : Abs(o - i) \in 0 .. 8
  BY DEF Abs, MaxGap
<1>2. \E k \in 0 .. 8 : At(k)
  BY <1>1
<1>3. At(0) \/ At(1) \/ At(2) \/ At(3) \/ At(4) \/ At(5) \/ At(6) \/ At(7) \/ At(8)
  BY <1>2
<1> HIDE DEF At
<1>4. PICK k \in 0 .. 8 : At(k) /\ \A j \in 0 .. 8 : At(j) => k <= j
  BY <1>3
<1> DEFINE o == IF i - k \in S THEN i - k ELSE i + k
<1>5. o \in S /\ o \in Int /\ Abs(o - i) = k
  BY <1>4 DEF At, Abs
<1>6. ASSUME NEW q \in S
      PROVE  k < Abs(q - i) \/ (k = Abs(q - i) /\ o <= q)
  <2>1. q \in Int /\ Abs(q - i) \in 0 .. 8 /\ (q = i - Abs(q - i) \/ q = i + Abs(q - i))
    BY <1>1 DEF Abs
  <2>2. k <= Abs(q - i)
    BY <1>4, <2>1 DEF At
  <2> QED
    BY <2>1, <2>2
<1>7. \E x \in S : \A q \in S : Abs(x - i) < Abs(q - i) \/ (Abs(x - i) = Abs(q - i) /\ x <= q)
  BY <1>5, <1>6
<1> QED
  BY <1>7 DEF Nearest

\* While the window does not slide, an event no longer changes once the
\* oscillator's pivots within eight bars of its price pivot are themselves
\* confirmed: five bars after the code calls it confirmed, at the latest
\* (indicators/divergence.py, detect_divergence).
THEOREM EventsSettle ==
  ASSUME NEW n \in Nat, NEW m \in Nat, n <= m, From(n) = From(m),
         NEW xs, NEW os, NEW warm \in Nat, NEW d,
         NEW i \in Nat, i + MaxGap + Right <= n,
         Close2(OscPivots(os, warm, From(n), n, d), i) # {}
  PROVE  EventAt(xs, os, warm, m, i, d) = EventAt(xs, os, warm, n, i, d)
<1> DEFINE f  == From(n)
           Pn == Pivots(xs, f, n, d)
           Pm == Pivots(xs, f, m, d)
           On == OscPivots(os, warm, f, n, d)
           Om == OscPivots(os, warm, f, m, d)
           o  == Nearest(Close2(On, i), i)
<1>0. f \in Nat
  BY DEF From, High2, Lookback
<1>1. /\ Pn = {j \in Pm : j <= n - Right}
      /\ On = {j \in Om : j <= n - Right}
      /\ \A j \in Pm : j \in Int
      /\ \A j \in Om : j \in Int
  <2>1. Pn = {j \in Pm : j <= n - Right}
    BY <1>0, PivotsAreFinal
  <2>2. Pivots(os, f, n, d) = {j \in Pivots(os, f, m, d) : j <= n - Right}
    BY <1>0, PivotsAreFinal
  <2>3. On = {j \in Om : j <= n - Right}
    BY <2>2 DEF OscPivots
  <2> QED
    BY <2>1, <2>3, <1>0 DEF Pivots, OscPivots, Left, Right
<1> HIDE DEF f, Pn, Pm, On, Om
<1>2. Close2(Om, i) = Close2(On, i)
  BY <1>1 DEF Close2, Abs, MaxGap, Right
<1>3. Before(Pm, i) = Before(Pn, i)
  BY <1>1 DEF Before, MaxGap, Right
<1>4. Prior(Pm, i) = Prior(Pn, i)
  BY <1>3 DEF Prior
<1>5. Nearest(Close2(On, i), i) \in Close2(On, i)
  <2>1. Close2(On, i) \in SUBSET Int /\ \A j \in Close2(On, i) : Abs(j - i) <= MaxGap
    BY <1>1 DEF Close2
  <2>2. Close2(On, i) # {}
    BY DEF On, f
  <2> QED
    BY <2>1, <2>2, NearestIsClose
<1>6. Before(Om, o) = Before(On, o)
  <2>1. o \in On /\ o \in Int /\ o <= n - Right
    BY <1>1, <1>5 DEF Close2, Right
  <2> QED
    BY <1>1, <2>1 DEF Before, Right
<1>7. Prior(Om, o) = Prior(On, o)
  BY <1>6 DEF Prior
<1>8. /\ Advance(xs, Pm, i, d) = Advance(xs, Pn, i, d)
      /\ Advance(os, Om, o, d) = Advance(os, On, o, d)
  BY <1>4, <1>7 DEF Advance
<1>9. /\ EventAt(xs, os, warm, n, i, d)
           = [d |-> d, price |-> i, osc |-> o, confirm |-> i + Right,
              kind |-> Kind(Advance(xs, Pn, i, d), Advance(os, On, o, d))]
      /\ EventAt(xs, os, warm, m, i, d)
           = [d |-> d, price |-> i, osc |-> o, confirm |-> i + Right,
              kind |-> Kind(Advance(xs, Pm, i, d), Advance(os, Om, o, d))]
  BY <1>2 DEF EventAt, f, Pn, Pm, On, Om
<1> QED
  BY <1>8, <1>9

\* An event whose oscillator pivot lies behind its price pivot is called
\* confirmed at a bar where that oscillator pivot is not known yet: the age
\* that last_divergence reads off it is not the age of anything a trader could
\* have seen (indicators/divergence.py).
THEOREM ConfirmedTooEarly ==
  ASSUME NEW n \in Nat, NEW xs, NEW os, NEW warm \in Nat, NEW d, NEW i \in Nat,
         NEW e, e = EventAt(xs, os, warm, n, i, d), e.osc \in Int, e.osc > e.price
  PROVE  \A from \in Nat : e.osc \notin OscPivots(os, warm, from, e.confirm, d)
BY DEF EventAt, OscPivots, Pivots, Right, Left

-----------------------------------------------------------------------------
(* The ticks' flow on the tape turned upside down *)

LEMMA FlowTurns ==
  ASSUME NEW n \in Nat, NEW p \in [1 .. n -> Int], NEW q \in [1 .. n -> Int],
         \A i \in 1 .. n : q[i] = -p[i]
  PROVE  \A k \in 0 .. n :
           /\ Ups(q, k) = Downs(p, k) /\ Downs(q, k) = Ups(p, k)
           /\ Cardinality(Ups(p, k)) \in Nat /\ Cardinality(Downs(p, k)) \in Nat
           /\ RunningDelta(p, k) \in Int /\ RunningDelta(q, k) = -RunningDelta(p, k)
<1> SUFFICES ASSUME NEW k \in 0 .. n
             PROVE  /\ Ups(q, k) = Downs(p, k) /\ Downs(q, k) = Ups(p, k)
                    /\ Cardinality(Ups(p, k)) \in Nat /\ Cardinality(Downs(p, k)) \in Nat
                    /\ RunningDelta(p, k) \in Int /\ RunningDelta(q, k) = -RunningDelta(p, k)
  OBVIOUS
<1>1. \A i \in 2 .. k : p[i] \in Int /\ p[i - 1] \in Int /\ q[i] = -p[i] /\ q[i - 1] = -p[i - 1]
  OBVIOUS
<1>2. Ups(q, k) = Downs(p, k) /\ Downs(q, k) = Ups(p, k)
  <2>1. \A i \in 2 .. k : /\ q[i] > q[i - 1] <=> p[i] < p[i - 1]
                          /\ q[i] < q[i - 1] <=> p[i] > p[i - 1]
    <3> SUFFICES ASSUME NEW i \in 2 .. k
                 PROVE  /\ q[i] > q[i - 1] <=> p[i] < p[i - 1]
                        /\ q[i] < q[i - 1] <=> p[i] > p[i - 1]
      OBVIOUS
    <3>1. p[i] \in Int /\ p[i - 1] \in Int /\ q[i] = -p[i] /\ q[i - 1] = -p[i - 1]
      BY <1>1
    <3> QED
      BY <3>1
  <2> QED
    BY <2>1, Zenon DEF Ups, Downs
<1>3. IsFiniteSet(2 .. k)
  BY FS_Interval
<1>4. Ups(p, k) \in SUBSET (2 .. k) /\ Downs(p, k) \in SUBSET (2 .. k)
  BY DEF Ups, Downs
<1>5. Cardinality(Ups(p, k)) \in Nat /\ Cardinality(Downs(p, k)) \in Nat
  BY <1>3, <1>4, FS_Subset, FS_CardinalityType
<1> QED
  BY <1>2, <1>5 DEF RunningDelta

LEMMA PressTurns ==
  ASSUME NEW n \in Nat, n >= 4, NEW p \in [1 .. n -> Int], NEW q \in [1 .. n -> Int],
         \A i \in 1 .. n : q[i] = -p[i], NEW d \in {1, -1}, NEW e \in {1, -1}, d + e = 0
  PROVE  /\ Pressed(q, n, d) => Pressed(p, n, e)
         /\ Unconfirmed(q, n, d) => Unconfirmed(p, n, e)
<1>1. n \div 2 \in 0 .. n /\ (n - 1) \div 2 \in 0 .. n - 1
  OBVIOUS
<1>4. \A k \in 0 .. n : RunningDelta(p, k) \in Int /\ RunningDelta(q, k) = -RunningDelta(p, k)
  BY FlowTurns
<1>2. ASSUME Pressed(q, n, d) PROVE Pressed(p, n, e)
  <2>1. PICK i \in n \div 2 + 1 .. n : \A j \in 1 .. n \div 2 : d * q[i] > d * q[j]
    BY <1>2 DEF Pressed
  <2>2. ASSUME NEW j \in 1 .. n \div 2 PROVE e * p[i] > e * p[j]
    <3>1. i \in 1 .. n /\ j \in 1 .. n
      BY <1>1
    <3>2. p[i] \in Int /\ p[j] \in Int /\ q[i] = -p[i] /\ q[j] = -p[j]
      BY <3>1
    <3>3. d * q[i] > d * q[j]
      BY <2>1
    <3> QED
      BY <3>2, <3>3
  <2> QED
    BY <2>2 DEF Pressed
<1>3. ASSUME Unconfirmed(q, n, d) PROVE Unconfirmed(p, n, e)
  <2>1. PICK j \in 2 .. (n - 1) \div 2 + 1 :
          \A i \in (n - 1) \div 2 + 2 .. n : d * RunningDelta(q, i) < d * RunningDelta(q, j)
    BY <1>3 DEF Unconfirmed
  <2>2. ASSUME NEW i \in (n - 1) \div 2 + 2 .. n
        PROVE  e * RunningDelta(p, i) < e * RunningDelta(p, j)
    <3>1. i \in 0 .. n /\ j \in 0 .. n
      BY <1>1
    <3>2. /\ RunningDelta(p, i) \in Int /\ RunningDelta(p, j) \in Int
          /\ RunningDelta(q, i) = -RunningDelta(p, i) /\ RunningDelta(q, j) = -RunningDelta(p, j)
      BY <1>4, <3>1
    <3>3. d * RunningDelta(q, i) < d * RunningDelta(q, j)
      BY <2>1
    <3> QED
      BY <3>2, <3>3
  <2> QED
    BY <2>2 DEF Unconfirmed
<1> QED
  BY <1>2, <1>3

\* Aggression and absorption are read alike from both sides of the tape
\* (indicators/orderflow.py, tick_imbalance and delta_divergence).
THEOREM FlowVotesTurn ==
  ASSUME NEW n \in Nat, NEW p \in [1 .. n -> Int], NEW q \in [1 .. n -> Int],
         \A i \in 1 .. n : q[i] = -p[i], NEW stress \in Nat, NEW regime
  PROVE  /\ TickImbalance(q, n) = -TickImbalance(p, n)
         /\ DeltaDivergence(q, n) = -DeltaDivergence(p, n)
         /\ ImbalanceMomentum(TickImbalance(q, n), stress) = -ImbalanceMomentum(TickImbalance(p, n), stress)
         /\ AbsorptionFade(DeltaDivergence(q, n), regime) = -AbsorptionFade(DeltaDivergence(p, n), regime)
<1>1. TickImbalance(p, n) \in Int /\ TickImbalance(q, n) = -TickImbalance(p, n)
  <2> DEFINE u == Cardinality(Ups(p, n))
             v == Cardinality(Downs(p, n))
             r == RunningDelta(p, n)
  <2>1. u \in Nat /\ v \in Nat /\ r \in Int /\ r = u - v /\ RunningDelta(q, n) = -r
        /\ Cardinality(Ups(q, n)) = v /\ Cardinality(Downs(q, n)) = u
    <3>1. /\ Ups(q, n) = Downs(p, n) /\ Downs(q, n) = Ups(p, n)
          /\ u \in Nat /\ v \in Nat /\ r \in Int /\ RunningDelta(q, n) = -r
      BY FlowTurns
    <3> QED
      BY <3>1 DEF RunningDelta
  <2>2. /\ TickImbalance(p, n) = IF u + v = 0 THEN 0 ELSE Sign(r) * ((100 * Abs(r)) \div (u + v))
        /\ TickImbalance(q, n) = IF v + u = 0 THEN 0 ELSE Sign(-r) * ((100 * Abs(-r)) \div (v + u))
    BY <2>1 DEF TickImbalance
  <2> HIDE DEF u, v, r
  <2>3. Sign(-r) = -Sign(r) /\ Abs(-r) = Abs(r) /\ Abs(r) \in Nat /\ Sign(r) \in {1, 0, -1}
    BY <2>1 DEF Sign, Mark, Abs
  <2>4. u + v # 0 => (100 * Abs(r)) \div (u + v) \in Int
    BY <2>1, <2>3
  <2>5. u + v = v + u
    BY <2>1
  <2> QED
    BY <2>2, <2>3, <2>4, <2>5
<1>2. \A k \in 1 .. n : p[k] \in Int /\ q[k] = -p[k]
  OBVIOUS
<1>3. ASSUME n >= 4
      PROVE  /\ Absorbed(q, n, 1) <=> Absorbed(p, n, -1)
             /\ Absorbed(q, n, -1) <=> Absorbed(p, n, 1)
  <2>1. \A i \in 1 .. n : p[i] = -q[i]
    <3> SUFFICES ASSUME NEW i \in 1 .. n PROVE p[i] = -q[i]
      OBVIOUS
    <3> QED
      BY <1>2
  <2>a. PICK m \in {1, -1} : -1 = m
    OBVIOUS
  <2>b. PICK k \in {1, -1} : 1 = k /\ m + k = 0 /\ k + m = 0
    BY <2>a
  <2>2. \A d, e \in {1, -1} : d + e = 0 => /\ Pressed(q, n, d) => Pressed(p, n, e)
                                           /\ Unconfirmed(q, n, d) => Unconfirmed(p, n, e)
    BY <1>3, PressTurns
  <2>3. \A d, e \in {1, -1} : d + e = 0 => /\ Pressed(p, n, d) => Pressed(q, n, e)
                                           /\ Unconfirmed(p, n, d) => Unconfirmed(q, n, e)
    BY <1>3, <2>1, PressTurns
  <2>4. /\ Pressed(q, n, k) <=> Pressed(p, n, m)
        /\ Unconfirmed(q, n, k) <=> Unconfirmed(p, n, m)
        /\ Pressed(q, n, m) <=> Pressed(p, n, k)
        /\ Unconfirmed(q, n, m) <=> Unconfirmed(p, n, k)
    BY <2>b, <2>2, <2>3
  <2> QED
    BY <2>a, <2>b, <2>4, Zenon DEF Absorbed
<1>4. DeltaDivergence(p, n) \in Int /\ DeltaDivergence(q, n) = -DeltaDivergence(p, n)
  <2>1. CASE n < 4
    <3>1. 0 = DeltaDivergence(p, n) /\ 0 = DeltaDivergence(q, n)
      BY <2>1, Zenon DEF DeltaDivergence
    <3> QED
      BY <3>1
  <2>2. CASE n >= 4
    <3> DEFINE bought == Absorbed(p, n, 1)
               dn == Absorbed(p, n, -1)
    <3>1. /\ DeltaDivergence(p, n) = Mark(dn /\ ~bought, bought /\ ~dn)
          /\ DeltaDivergence(q, n) = Mark(bought /\ ~dn, dn /\ ~bought)
      <4>1. ~(n < 4)
        BY <2>2
      <4>2. DeltaDivergence(q, n) = Mark(Absorbed(q, n, -1) /\ ~Absorbed(q, n, 1),
                                         Absorbed(q, n, 1) /\ ~Absorbed(q, n, -1))
        BY <4>1 DEF DeltaDivergence
      <4>3. /\ Absorbed(q, n, -1) = bought
            /\ Absorbed(q, n, 1) = dn
        BY <1>3, <2>2, Zenon DEF Absorbed, Pressed, Unconfirmed
      <4> QED
        BY <4>1, <4>2, <4>3 DEF DeltaDivergence
    <3> HIDE DEF bought, dn
    <3> QED
      BY <3>1 DEF Mark
  <2> QED
    BY <2>1, <2>2
<1>5. \A x, y \in Int : y = -x => ImbalanceMomentum(y, stress) = -ImbalanceMomentum(x, stress)
  BY DEF ImbalanceMomentum, Mark, Abs
<1>6. \A x, y \in Int : y = -x => AbsorptionFade(y, regime) = -AbsorptionFade(x, regime)
  BY DEF AbsorptionFade, Mark
<1> QED
  BY <1>1, <1>4, <1>5, <1>6

-----------------------------------------------------------------------------
(* Indicators *)

Pos == Nat \ {0}

TypeOK ==
  /\ bars \in Nat /\ last \in Bars /\ before \in Bars
  /\ seen \in [lo : Nat, hi : Nat]
  /\ ema \in [n : Nat, num : Int, den : Pos] /\ ema.n <= Period
  /\ sig \in [n : Nat, num : Int, den : Pos, line : Int, top : Nat] /\ sig.n <= Period
  /\ rs \in [n : Nat, den : Pos, gain : Nat, loss : Nat] /\ rs.n <= Period
  /\ dm \in [n : Nat, den : Pos, up : Nat, down : Nat, range : Nat] /\ dm.n <= Period
  /\ garch \in [num : Nat, den : Pos]
  /\ trend \in [ready : BOOLEAN, aged : BOOLEAN, up : Int, dn : Int, dir : {1, -1}]
  /\ stop \in [bull : BOOLEAN, sar : Int, ep : Int, step : 1 .. 10, fresh : BOOLEAN]
  /\ cross \in [x : Int, y : Int, above : BOOLEAN]
  /\ money \in [pv : Nat, vol : Nat, obv : Int, ad : Int]

WinType ==
  win \in [n : Nat, base : Nat, hi : Nat, lo : Nat, hiAt : Nat, loAt : Nat, close : Nat,
           up : Nat, down : Nat, gross : Nat, bp : Nat, tr : Nat, mfv : Int, vol : Nat,
           pos : Nat, neg : Nat]

LEMMA BarFacts ==
  ASSUME NEW b \in Bars
  PROVE  /\ b.high \in Nat /\ b.low \in Nat /\ b.close \in Nat /\ b.volume \in Nat
         /\ b.low <= b.close /\ b.close <= b.high /\ b.low <= b.high
BY DEF Bars

LEMMA StartBar == Start \in Bars
BY DEF Start, Bars

-----------------------------------------------------------------------------
(* Averages *)

LEMMA ProductInt == \A x, y \in Int : x * y \in Int
OBVIOUS

LEMMA OneMore == \A a \in Int, n \in Nat : a * (n + 1) = (a * n) + a /\ a * n \in Int
OBVIOUS

LEMMA ProductNat == \A x, y \in Nat : x * y \in Nat
OBVIOUS

LEMMA ProductPos == \A x, y \in Pos : x * y \in Pos
BY DEF Pos

LEMMA Times ==
  ASSUME NEW x \in Int, NEW y \in Int, NEW d \in Nat, x <= y
  PROVE  x * d <= y * d
BY SMT

LEMMA TimesStrict ==
  ASSUME NEW x \in Int, NEW y \in Int, NEW d \in Pos, x < y
  PROVE  x * d < y * d
BY SMT DEF Pos

LEMMA Regroup ==
  ASSUME NEW p \in Nat, NEW x \in Int, NEW d \in Nat
  PROVE  x * ((p + 1) * d) = ((p - 1) * (x * d)) + (2 * (x * d))
BY SMTT(30)

LEMMA EmaNumType ==
  ASSUME NEW p \in Pos, NEW num \in Int, NEW x \in Int, NEW den \in Pos
  PROVE  /\ ((p - 1) * num) + (2 * (x * den)) \in Int
         /\ (p + 1) * den \in Pos
<1>1. (p - 1) * num \in Int /\ x * den \in Int /\ (p + 1) * den \in Pos
  BY ProductInt, ProductPos DEF Pos
<1> QED
  BY <1>1

\* A value and an average between two bounds leave an average between them.
LEMMA EmaBounded ==
  ASSUME NEW p \in Pos, NEW num \in Int, NEW x \in Int, NEW den \in Pos,
         NEW lo \in Int, NEW hi \in Int,
         lo <= x, x <= hi, lo * den <= num, num <= hi * den
  PROVE  /\ lo * ((p + 1) * den) <= ((p - 1) * num) + (2 * (x * den))
         /\ ((p - 1) * num) + (2 * (x * den)) <= hi * ((p + 1) * den)
<1> DEFINE L == lo * den
           H == hi * den
           X == x * den
<1>1. L \in Int /\ H \in Int /\ X \in Int
  BY ProductInt DEF Pos
<1>2. L <= X /\ X <= H /\ L <= num /\ num <= H
  BY Times DEF Pos
<1>3. (p - 1) * L <= (p - 1) * num /\ (p - 1) * num <= (p - 1) * H
  <2>1. \A y, z \in Int, d \in Nat : y <= z => d * y <= d * z
    BY SMT
  <2>2. p - 1 \in Nat
    BY DEF Pos
  <2> HIDE DEF L, H, X
  <2> QED
    BY <1>1, <1>2, <2>1, <2>2
<1>4. /\ lo * ((p + 1) * den) = ((p - 1) * L) + (2 * L)
      /\ hi * ((p + 1) * den) = ((p - 1) * H) + (2 * H)
      /\ x * den = X
  BY Regroup DEF Pos
<1>5. (p - 1) * num \in Int /\ (p - 1) * L \in Int /\ (p - 1) * H \in Int
  <2> HIDE DEF L, H
  <2> QED
    BY <1>1, ProductInt DEF Pos
<1> HIDE DEF L, H, X
<1>6. \A a, b, c \in Int : a <= b /\ b <= c =>
        /\ a + (2 * L) <= b + (2 * X) /\ b + (2 * X) <= c + (2 * H)
  BY <1>1, <1>2
<1> QED
  BY <1>1, <1>3, <1>4, <1>5, <1>6

Sizes == Period \in Nat /\ Period >= 2

LEMMA MoreType ==
  ASSUME Sizes, NEW r, r.n \in Nat, r.n <= Period
  PROVE  More(r) \in Nat /\ More(r) <= Period
BY DEF Sizes, More, Warm

LEMMA EmaType ==
  ASSUME Sizes, NEW r, r.num \in Int, r.den \in Pos, NEW x \in Int
  PROVE  EmaNum(r, x) \in Int /\ EmaDen(r) \in Pos
<1>1. Period \in Pos
  BY DEF Sizes, Pos
<1>2. /\ ((Period - 1) * r.num) + (2 * (x * r.den)) \in Int
      /\ (Period + 1) * r.den \in Pos
  BY <1>1, EmaNumType
<1> QED
  BY <1>1, <1>2 DEF EmaNum, EmaDen

LEMMA RmaType ==
  ASSUME Sizes, NEW r, r.den \in Pos, NEW old \in Nat, NEW x \in Nat
  PROVE  RmaNum(r, old, x) \in Nat /\ RmaDen(r) \in Pos
<1>1. Period \in Pos /\ Period - 1 \in Nat /\ r.den \in Nat
  BY DEF Sizes, Pos
<1>2. (Period - 1) * old \in Nat /\ x * r.den \in Nat
  BY <1>1, ProductNat
<1> QED
  BY <1>1, <1>2, ProductPos DEF RmaNum, RmaDen

LEMMA MovesType ==
  ASSUME TypeOK, NEW b \in Bars
  PROVE  /\ UpMove(b) \in Nat /\ DownMove(b) \in Nat /\ TrueRange(b) \in Nat
         /\ Gain(b.close - last.close) \in Nat /\ Gain(last.close - b.close) \in Nat
<1>1. last \in Bars
  BY DEF TypeOK
<1> QED
  BY <1>1, BarFacts DEF TypeOK, UpMove, DownMove, TrueRange, Gain, Greater, Abs

LEMMA AveragesType ==
  ASSUME Sizes, TypeOK, NEW b \in Bars, NEW x \in Int,
         EmaStep(b), SignalStep(x), RsiStep(b), AdxStep(b)
  PROVE  /\ ema' \in [n : Nat, num : Int, den : Pos] /\ ema'.n <= Period
         /\ sig' \in [n : Nat, num : Int, den : Pos, line : Int, top : Nat] /\ sig'.n <= Period
         /\ rs' \in [n : Nat, den : Pos, gain : Nat, loss : Nat] /\ rs'.n <= Period
         /\ dm' \in [n : Nat, den : Pos, up : Nat, down : Nat, range : Nat] /\ dm'.n <= Period
<1>1. ema' \in [n : Nat, num : Int, den : Pos] /\ ema'.n <= Period
  <2>1. b.close \in Int /\ ema.num \in Int /\ ema.den \in Pos /\ ema.n \in Nat /\ ema.n <= Period
    BY BarFacts DEF TypeOK
  <2> QED
    BY <2>1, MoreType, EmaType DEF EmaStep
<1>2. sig' \in [n : Nat, num : Int, den : Pos, line : Int, top : Nat] /\ sig'.n <= Period
  <2> DEFINE line == IF bars = 0 THEN 0 ELSE x
  <2>1. line \in Int /\ sig.num \in Int /\ sig.den \in Pos /\ sig.n \in Nat /\ sig.n <= Period
        /\ sig.top \in Nat
    BY DEF TypeOK
  <2>2. sig' = [n |-> More(sig), num |-> EmaNum(sig, line), den |-> EmaDen(sig),
                line |-> line, top |-> Greater(sig.top, line)]
    BY DEF SignalStep
  <2> HIDE DEF line
  <2>3. Greater(sig.top, line) \in Nat
    BY <2>1 DEF Greater
  <2> QED
    BY <2>1, <2>2, <2>3, MoreType, EmaType
<1>3. rs' \in [n : Nat, den : Pos, gain : Nat, loss : Nat] /\ rs'.n <= Period
  <2>1. /\ rs.n \in Nat /\ rs.n <= Period /\ rs.den \in Pos /\ rs.gain \in Nat /\ rs.loss \in Nat
        /\ rs \in [n : Nat, den : Pos, gain : Nat, loss : Nat]
    BY DEF TypeOK
  <2> DEFINE g == Gain(b.close - last.close)
             l == Gain(last.close - b.close)
  <2>2. g \in Nat /\ l \in Nat
    BY MovesType
  <2>3. /\ More(rs) \in Nat /\ More(rs) <= Period /\ RmaDen(rs) \in Pos
        /\ RmaNum(rs, rs.gain, g) \in Nat /\ RmaNum(rs, rs.loss, l) \in Nat
    <3> HIDE DEF g, l
    <3> QED
      BY <2>1, <2>2, MoreType, RmaType
  <2> QED
    BY <2>1, <2>3 DEF RsiStep
<1>4. dm' \in [n : Nat, den : Pos, up : Nat, down : Nat, range : Nat] /\ dm'.n <= Period
  <2>1. /\ dm.n \in Nat /\ dm.n <= Period /\ dm.den \in Pos
        /\ dm.up \in Nat /\ dm.down \in Nat /\ dm.range \in Nat
    BY DEF TypeOK
  <2> QED
    BY <2>1, MoreType, RmaType, MovesType DEF AdxStep
<1> QED
  BY <1>1, <1>2, <1>3, <1>4

Average(r) == /\ r.n \in Nat /\ r.n <= Period /\ r.num \in Int /\ r.den \in Pos
              /\ Warm(r) => r.den = Period

LEMMA OverType ==
  ASSUME Sizes, NEW r, Average(r)
  PROVE  Over(r) \in Nat /\ (r.n > 0 => Over(r) \in Pos)
BY DEF Sizes, Average, Over, Warm, Pos

\* One more value between the bounds leaves the average between them.
LEMMA AverageKeeps ==
  ASSUME Sizes, NEW r, Average(r), NEW lo \in Int, NEW hi \in Int, NEW x \in Int,
         lo <= x, x <= hi, lo * Over(r) <= r.num, r.num <= hi * Over(r),
         NEW s, s.n = More(r), s.num = EmaNum(r, x), s.den = EmaDen(r)
  PROVE  /\ Average(s)
         /\ lo * Over(s) <= s.num /\ s.num <= hi * Over(s)
<1>1. Average(s)
  <2>1. s.n \in Nat /\ s.n <= Period
    BY MoreType DEF Average
  <2>2. s.num \in Int /\ s.den \in Pos
    BY EmaType DEF Average
  <2>3. Warm(s) => s.den = Period
    BY DEF Warm, More, EmaDen, Average, Sizes
  <2> QED
    BY <2>1, <2>2, <2>3 DEF Average
<1>2. CASE Warm(r)
  <2>1. Over(s) = r.n + 1 /\ Over(r) = r.n /\ s.num = r.num + x /\ r.n \in Nat /\ r.num \in Int
    BY <1>2 DEF Over, Warm, More, EmaDen, EmaNum, Average, Sizes
  <2>2. /\ lo * (r.n + 1) = (lo * r.n) + lo /\ hi * (r.n + 1) = (hi * r.n) + hi
        /\ lo * r.n \in Int /\ hi * r.n \in Int
    BY <2>1, OneMore
  <2> QED
    BY <1>1, <2>1, <2>2
<1>3. CASE ~Warm(r)
  <2>1. /\ Over(s) = (Period + 1) * r.den /\ Over(r) = r.den
        /\ s.num = ((Period - 1) * r.num) + (2 * (x * r.den))
    BY <1>3 DEF Over, Warm, More, EmaDen, EmaNum, Average, Sizes
  <2>2. Period \in Pos /\ r.num \in Int /\ r.den \in Pos
    BY DEF Sizes, Average, Pos
  <2>3. /\ lo * ((Period + 1) * r.den) <= ((Period - 1) * r.num) + (2 * (x * r.den))
        /\ ((Period - 1) * r.num) + (2 * (x * r.den)) <= hi * ((Period + 1) * r.den)
    BY <2>1, <2>2, EmaBounded
  <2> QED
    BY <1>1, <2>1, <2>3
<1> QED
  BY <1>2, <1>3

\* An average within the bound stays within it, whatever comes in up to the
\* bound, and one below it stays below.
LEMMA AverageStaysBelow ==
  ASSUME Sizes, NEW r, Average(r), NEW hi \in Int, NEW x \in Int,
         x <= hi, r.num <= hi * Over(r),
         NEW s, s.n = More(r), s.num = EmaNum(r, x), s.den = EmaDen(r)
  PROVE  /\ Average(s)
         /\ s.num <= hi * Over(s)
         /\ r.num < hi * Over(r) => s.num < hi * Over(s)
<1>1. Average(s)
  <2>1. s.n \in Nat /\ s.n <= Period
    BY MoreType DEF Average
  <2>2. s.num \in Int /\ s.den \in Pos
    BY EmaType DEF Average
  <2>3. Warm(s) => s.den = Period
    BY DEF Warm, More, EmaDen, Average, Sizes
  <2> QED
    BY <2>1, <2>2, <2>3 DEF Average
<1>2. CASE Warm(r)
  <2>1. Over(s) = r.n + 1 /\ Over(r) = r.n /\ s.num = r.num + x /\ r.n \in Nat /\ r.num \in Int
    BY <1>2 DEF Over, Warm, More, EmaDen, EmaNum, Average, Sizes
  <2>2. hi * (r.n + 1) = (hi * r.n) + hi /\ hi * r.n \in Int
    BY <2>1, OneMore
  <2> QED
    BY <1>1, <2>1, <2>2
<1>3. CASE ~Warm(r)
  <2>1. /\ Over(s) = (Period + 1) * r.den /\ Over(r) = r.den
        /\ s.num = ((Period - 1) * r.num) + (2 * (x * r.den))
    BY <1>3 DEF Over, Warm, More, EmaDen, EmaNum, Average, Sizes
  <2>2. Period \in Pos /\ Period - 1 \in Pos /\ r.num \in Int /\ r.den \in Pos /\ r.den \in Nat
    BY DEF Sizes, Average, Pos
  <2> DEFINE H == hi * r.den
             X == x * r.den
  <2>3. H \in Int /\ X \in Int /\ X <= H /\ r.num <= H
    BY <2>1, <2>2, ProductInt, Times
  <2>4. /\ (Period - 1) * r.num <= (Period - 1) * H
        /\ r.num < H => (Period - 1) * r.num < (Period - 1) * H
    <3>1. /\ \A y, z \in Int, d \in Pos : y < z => d * y < d * z
          /\ \A y, z \in Int, d \in Pos : y <= z => d * y <= d * z
      BY SMT DEF Pos
    <3> HIDE DEF H, X
    <3> QED
      BY <2>2, <2>3, <3>1
  <2>5. hi * ((Period + 1) * r.den) = ((Period - 1) * H) + (2 * H)
    BY <2>2, Regroup DEF Sizes
  <2>8. hi * r.den = H /\ x * r.den = X
    OBVIOUS
  <2> HIDE DEF H, X
  <2>6. (Period - 1) * r.num \in Int /\ (Period - 1) * H \in Int
    BY <2>2, <2>3, ProductInt DEF Pos
  <2>7. \A a, b \in Int : /\ a < b => a + (2 * X) < b + (2 * H)
                          /\ a <= b => a + (2 * X) <= b + (2 * H)
    BY <2>3
  <2> QED
    BY <1>1, <2>1, <2>4, <2>5, <2>6, <2>7, <2>8
<1> QED
  BY <1>2, <1>3

EmaInv == Average(ema) /\ AverageInRange /\ (bars = 0 => ema.n = 0 /\ ema.num = 0)

LEMMA SeenWidens ==
  ASSUME TypeOK, NEW b \in Bars,
         seen' = IF bars = 0 THEN [lo |-> b.low, hi |-> b.high]
                 ELSE [lo |-> Lesser(seen.lo, b.low), hi |-> Greater(seen.hi, b.high)]
  PROVE  /\ seen' \in [lo : Nat, hi : Nat]
         /\ seen'.lo <= b.low /\ b.high <= seen'.hi
         /\ bars > 0 => seen'.lo <= seen.lo /\ seen.hi <= seen'.hi
  BY BarFacts DEF TypeOK, Lesser, Greater

LEMMA EmaKept ==
  ASSUME Sizes, TypeOK, EmaInv, NEW b \in Bars, EmaStep(b), bars' = bars + 1,
         seen' = IF bars = 0 THEN [lo |-> b.low, hi |-> b.high]
                 ELSE [lo |-> Lesser(seen.lo, b.low), hi |-> Greater(seen.hi, b.high)]
  PROVE  EmaInv'
<1> DEFINE lo == seen'.lo
           hi == seen'.hi
           s == ema'
<1>1. lo \in Nat /\ hi \in Nat /\ lo <= b.close /\ b.close <= hi /\ b.close \in Nat
  BY SeenWidens, BarFacts
<1>2. lo * Over(ema) <= ema.num /\ ema.num <= hi * Over(ema)
  <2>1. CASE bars = 0
    <3>1. Over(ema) = 0 /\ ema.num = 0
      BY <2>1 DEF EmaInv, Over, Warm, Sizes
    <3> QED
      BY <3>1, <1>1
  <2>2. CASE bars > 0
    <3>1. /\ lo <= seen.lo /\ seen.hi <= hi /\ seen.lo \in Int /\ seen.hi \in Int
          /\ Over(ema) \in Nat /\ ema.num \in Int
      BY <2>2, SeenWidens, OverType DEF TypeOK, EmaInv
    <3>0. lo \in Int /\ hi \in Int
      BY <1>1
    <3>2. /\ lo * Over(ema) <= seen.lo * Over(ema) /\ seen.hi * Over(ema) <= hi * Over(ema)
          /\ lo * Over(ema) \in Int /\ hi * Over(ema) \in Int
          /\ seen.lo * Over(ema) \in Int /\ seen.hi * Over(ema) \in Int
      <4> HIDE DEF lo, hi
      <4>1. lo * Over(ema) <= seen.lo * Over(ema)
        BY <3>0, <3>1, Times
      <4>2. seen.hi * Over(ema) <= hi * Over(ema)
        BY <3>0, <3>1, Times
      <4>3. Over(ema) \in Int
        BY <3>1
      <4> QED
        BY <3>0, <3>1, <4>1, <4>2, <4>3, ProductInt
    <3>3. seen.lo * Over(ema) <= ema.num /\ ema.num <= seen.hi * Over(ema)
      BY <2>2 DEF EmaInv, AverageInRange
    <3> QED
      BY <3>1, <3>2, <3>3
  <2> QED
    BY <2>1, <2>2 DEF TypeOK
<1>3. s.n = More(ema) /\ s.num = EmaNum(ema, b.close) /\ s.den = EmaDen(ema)
  BY DEF EmaStep
<1>4. Average(s) /\ lo * Over(s) <= s.num /\ s.num <= hi * Over(s)
  <2> HIDE DEF lo, hi, s
  <2> QED
    BY <1>1, <1>2, <1>3, AverageKeeps DEF EmaInv
<1> QED
  BY <1>4 DEF EmaInv, AverageInRange, Average, Over, Warm, TypeOK

SigInv == /\ Average(sig) /\ sig.num <= sig.top * Over(sig)
          /\ sig.top > 0 => sig.num < sig.top * Over(sig)
          /\ bars > 0 => sig.n > 0
          /\ bars = 0 => sig.n = 0 /\ sig.num = 0 /\ sig.top = 0

LEMMA SigKept ==
  ASSUME Sizes, TypeOK, SigInv, NEW x \in Int, SignalStep(x), bars' = bars + 1
  PROVE  SigInv'
<1> DEFINE line == IF bars = 0 THEN 0 ELSE x
           top == sig.top
           newtop == Greater(sig.top, line)
           s == sig'
<1>1. /\ s.n = More(sig) /\ s.num = EmaNum(sig, line) /\ s.den = EmaDen(sig)
      /\ s.top = newtop /\ s.n > 0
  <2>1. s.n = More(sig) /\ s.num = EmaNum(sig, line) /\ s.den = EmaDen(sig) /\ s.top = newtop
    BY DEF SignalStep
  <2>2. More(sig) > 0
    BY DEF SigInv, Average, More, Warm, Sizes
  <2> QED
    BY <2>1, <2>2
<1>2. /\ top \in Nat /\ newtop \in Nat /\ line \in Int /\ line <= newtop /\ top <= newtop
      /\ newtop # top => newtop > 0
  BY DEF TypeOK, Greater
<1>3. Over(sig) \in Nat /\ sig.num \in Int /\ top * Over(sig) \in Int /\ newtop * Over(sig) \in Int
  BY OverType, ProductInt, <1>2 DEF SigInv, Average
<1>4. sig.num <= newtop * Over(sig)
  <2>1. top * Over(sig) <= newtop * Over(sig)
    BY <1>2, <1>3, Times
  <2>2. sig.num <= top * Over(sig)
    BY DEF SigInv
  <2> QED
    BY <1>3, <2>1, <2>2
<1>5. bars > 0 /\ newtop > 0 => sig.num < newtop * Over(sig)
  <2> SUFFICES ASSUME bars > 0, newtop > 0
               PROVE  sig.num < newtop * Over(sig)
    OBVIOUS
  <2>1. CASE top > 0
    <3>1. sig.num < top * Over(sig) /\ top * Over(sig) <= newtop * Over(sig)
      BY <1>2, <1>3, <2>1, Times DEF SigInv
    <3> QED
      BY <1>3, <3>1
  <2>2. CASE top = 0
    <3>1. Over(sig) \in Pos
      BY OverType DEF SigInv
    <3>2. 0 * Over(sig) < newtop * Over(sig)
      BY <1>2, <3>1, TimesStrict
    <3>3. sig.num <= 0 * Over(sig) /\ 0 * Over(sig) \in Int
      BY <1>3, <2>2 DEF SigInv
    <3> QED
      BY <1>3, <3>2, <3>3
  <2> QED
    BY <1>2, <2>1, <2>2
<1>6. /\ Average(s)
      /\ s.num <= newtop * Over(s)
      /\ sig.num < newtop * Over(sig) => s.num < newtop * Over(s)
  <2>1. newtop \in Int
    BY <1>2
  <2> HIDE DEF line, newtop, s
  <2> QED
    BY <1>1, <1>2, <1>4, <2>1, AverageStaysBelow DEF SigInv
<1>7. bars = 0 => newtop = 0
  BY DEF SigInv, Greater
<1> QED
  <2>1. sig'.top = newtop /\ sig'.n > 0
    BY <1>1
  <2>2. Average(sig') /\ sig'.num <= sig'.top * Over(sig')
    BY <1>6, <2>1
  <2>3. sig'.top > 0 => sig'.num < sig'.top * Over(sig')
    <3> HIDE DEF newtop
    <3> QED
      BY <1>5, <1>6, <1>7, <2>1, <1>2 DEF TypeOK
  <2>4. bars' > 0
    BY DEF TypeOK
  <2> QED
    BY <2>1, <2>2, <2>3, <2>4 DEF SigInv, Average, Over, Warm

DirInv == dm.up + dm.down <= dm.range

\* In one bar the range covers both moves.
LEMMA MoveInRange ==
  ASSUME TypeOK, NEW b \in Bars
  PROVE  UpMove(b) + DownMove(b) <= TrueRange(b)
<1>1. last \in Bars
  BY DEF TypeOK
<1> QED
  BY <1>1, BarFacts DEF TypeOK, UpMove, DownMove, TrueRange, Greater, Abs

LEMMA DirKept ==
  ASSUME Sizes, TypeOK, DirInv, NEW b \in Bars, AdxStep(b)
  PROVE  DirInv'
<1> DEFINE u == UpMove(b)
           d == DownMove(b)
           t == TrueRange(b)
<1>1. u \in Nat /\ d \in Nat /\ t \in Nat /\ u + d <= t
  BY MovesType, MoveInRange
<1>2. dm.up \in Nat /\ dm.down \in Nat /\ dm.range \in Nat /\ dm.den \in Nat /\ Period - 1 \in Nat
  BY DEF TypeOK, Pos, Sizes
<1>3. dm'.up = RmaNum(dm, dm.up, u) /\ dm'.down = RmaNum(dm, dm.down, d)
      /\ dm'.range = RmaNum(dm, dm.range, t)
  BY DEF AdxStep
<1> HIDE DEF u, d, t
<1>4. CASE Warm(dm)
  BY <1>1, <1>2, <1>3, <1>4 DEF RmaNum, DirInv
<1>5. CASE ~Warm(dm)
  <2>1. \A k, x, y, z \in Nat : x + y <= z => (k * x) + (k * y) <= k * z
    <3>1. \A k, x, y \in Nat : (k * x) + (k * y) = (x + y) * k
      BY SMT
    <3>2. \A k, v, z \in Nat : v <= z => v * k <= z * k
      BY Times
    <3>3. \A k, z \in Nat : z * k = k * z
      BY SMT
    <3> QED
      BY <3>1, <3>2, <3>3
  <2>2. \A k, x, y, z \in Nat : x + y <= z => (x * k) + (y * k) <= z * k
    <3>3. \A k, z \in Nat : z * k = k * z
      BY SMT
    <3> QED
      BY <2>1, <3>3
  <2>3. ((Period - 1) * dm.up) + ((Period - 1) * dm.down) <= (Period - 1) * dm.range
    BY <1>2, <2>1 DEF DirInv
  <2>4. (u * dm.den) + (d * dm.den) <= t * dm.den
    BY <1>1, <1>2, <2>2
  <2>5. /\ (Period - 1) * dm.up \in Nat /\ (Period - 1) * dm.down \in Nat /\ (Period - 1) * dm.range \in Nat
        /\ u * dm.den \in Nat /\ d * dm.den \in Nat /\ t * dm.den \in Nat
    BY <1>1, <1>2, ProductNat
  <2>6. /\ dm'.up = ((Period - 1) * dm.up) + (u * dm.den)
        /\ dm'.down = ((Period - 1) * dm.down) + (d * dm.den)
        /\ dm'.range = ((Period - 1) * dm.range) + (t * dm.den)
    BY <1>3, <1>5 DEF RmaNum
  <2> QED
    BY <2>3, <2>4, <2>5, <2>6 DEF DirInv
<1> QED
  BY <1>4, <1>5

LEMMA RsiStays ==
  ASSUME Sizes, TypeOK, NEW b \in Bars, RsiStep(b), bars > 0, ~Warm(rs), b.close = last.close
  PROVE  Rsi(rs')[1] * Rsi(rs)[2] = Rsi(rs)[1] * Rsi(rs')[2]
<1> DEFINE k == Period - 1
           g == rs.gain
           l == rs.loss
<1>1. k \in Pos /\ g \in Nat /\ l \in Nat /\ rs.den \in Int
  BY DEF Sizes, Pos, TypeOK
<1>2. Gain(b.close - last.close) = 0 /\ Gain(last.close - b.close) = 0
  <2>1. b.close \in Nat /\ last.close \in Nat
    BY BarFacts DEF TypeOK
  <2> QED
    BY <2>1 DEF Gain, Greater
<1>3. rs'.gain = (k * g) + (0 * rs.den) /\ rs'.loss = (k * l) + (0 * rs.den)
  BY <1>2 DEF RsiStep, RmaNum
<1>4. rs'.gain = k * g /\ rs'.loss = k * l
  <2> HIDE DEF k
  <2> QED
    BY <1>1, <1>3, ProductInt DEF Pos
<1> HIDE DEF k, g, l
<1>5. \A c \in Pos, v, w \in Nat :
        /\ (c * v) + (c * w) = c * (v + w)
        /\ (c * v) + (c * w) = 0 <=> v + w = 0
        /\ c * v \in Nat /\ c * w \in Nat
        /\ (100 * (c * v)) * (v + w) = (100 * v) * ((c * v) + (c * w))
  <2>1. TAKE c \in Pos, v, w \in Nat
  <2>2. (c * v) + (c * w) = c * (v + w) /\ c * v \in Nat /\ c * w \in Nat
    BY SMT DEF Pos
  <2>3. c * (v + w) = 0 <=> v + w = 0
    BY SMT DEF Pos
  <2>4. (100 * (c * v)) * (v + w) = (100 * v) * (c * (v + w))
    BY SMT DEF Pos
  <2> QED
    BY <2>2, <2>3, <2>4
<1>6. CASE g + l = 0
  <2>1. (k * g) + (k * l) = 0
    BY <1>1, <1>5, <1>6
  <2>2. rs'.gain + rs'.loss = 0 /\ rs.gain + rs.loss = 0
    BY <1>4, <1>6, <2>1 DEF g, l
  <2> QED
    BY <2>2 DEF Rsi
<1>7. CASE g + l # 0
  <2>1. (k * g) + (k * l) # 0
    BY <1>1, <1>5, <1>7
  <2>2. rs'.gain + rs'.loss # 0 /\ rs.gain + rs.loss # 0
    BY <1>4, <1>7, <2>1 DEF g, l
  <2>3. /\ Rsi(rs')[1] = 100 * rs'.gain /\ Rsi(rs')[2] = rs'.gain + rs'.loss
        /\ Rsi(rs)[1] = 100 * rs.gain /\ Rsi(rs)[2] = rs.gain + rs.loss
    BY <2>2 DEF Rsi
  <2>4. (100 * (k * g)) * (g + l) = (100 * g) * ((k * g) + (k * l))
    BY <1>1, <1>5
  <2> QED
    BY <1>4, <2>3, <2>4 DEF g, l
<1> QED
  BY <1>6, <1>7

LEMMA GarchStays ==
  ASSUME TypeOK, GarchFloor, NEW sq \in Nat, GarchStep(sq)
  PROVE  garch' \in [num : Nat, den : Pos] /\ GarchFloor'
<1> DEFINE num == garch.num
           den == garch.den
           S == sq * den
<1>1. num \in Nat /\ den \in Pos /\ S \in Nat /\ num >= 10 * den
  BY ProductNat DEF TypeOK, GarchFloor, Pos
<1>2. CASE bars < 2
  BY <1>2 DEF GarchStep, GarchFloor, TypeOK
<1>3. CASE ~(bars < 2)
  <2>1. (100 + (8 * sq)) * den = (100 * den) + (8 * S)
    BY SMT DEF TypeOK, Pos
  <2>2. garch' = [num |-> (90 * num) + ((100 + (8 * sq)) * den), den |-> 100 * den]
    BY <1>3 DEF GarchStep
  <2> HIDE DEF num, den, S
  <2>3. garch'.num = (90 * num) + ((100 * den) + (8 * S)) /\ garch'.den = 100 * den
    BY <2>1, <2>2
  <2>4. /\ (90 * num) + ((100 * den) + (8 * S)) \in Nat /\ 100 * den \in Pos
        /\ (90 * num) + ((100 * den) + (8 * S)) >= 10 * (100 * den)
    BY <1>1 DEF Pos
  <2> QED
    BY <2>1, <2>2, <2>3, <2>4 DEF GarchFloor
<1> QED
  BY <1>2, <1>3

LEMMA CrossStays ==
  ASSUME TypeOK, CrossLatched, NEW x \in Int, NEW y \in Int, CrossStep(x, y)
  PROVE  cross' \in [x : Int, y : Int, above : BOOLEAN] /\ CrossLatched'
<1>1. cross.x \in Int /\ cross.y \in Int /\ cross.above \in BOOLEAN
  BY DEF TypeOK
<1>2. cross'.x = x /\ cross'.y = y
  BY DEF CrossStep
<1>3. cross'.above \in BOOLEAN
  BY <1>1, Zenon DEF CrossStep
<1>4. cross'.above => x >= y
  <2> SUFFICES ASSUME cross'.above, ~(x >= y)  PROVE FALSE
    OBVIOUS
  <2>1. x < y /\ ~(x > y)
    OBVIOUS
  <2>2. bars # 0 /\ ~(cross.x >= cross.y) /\ cross.above
    BY <1>1, <2>1 DEF CrossStep
  <2> QED
    BY <2>2 DEF CrossLatched
<1>5. cross' \in [x : Int, y : Int, above : BOOLEAN]
  BY <1>3, Zenon DEF CrossStep
<1> QED
  BY <1>2, <1>4, <1>5 DEF CrossLatched

-----------------------------------------------------------------------------
(* Sums over the tape *)

MoneyInv == VwapInRange /\ VolumeBounds /\ (bars = 0 => money.pv = 0 /\ money.vol = 0)

LEMMA MoneyKept ==
  ASSUME TypeOK, MoneyInv, NEW b \in Bars, NEW flow \in -b.volume .. b.volume,
         MoneyStep(b, flow), bars' = bars + 1,
         seen' = IF bars = 0 THEN [lo |-> b.low, hi |-> b.high]
                 ELSE [lo |-> Lesser(seen.lo, b.low), hi |-> Greater(seen.hi, b.high)]
  PROVE  MoneyInv' /\ money' \in [pv : Nat, vol : Nat, obv : Int, ad : Int]
<1> DEFINE lo == 3 * seen'.lo
           hi == 3 * seen'.hi
           t == Typical(b)
           v == b.volume
           vol == money.vol
           pv == money.pv
<1>1. /\ lo \in Nat /\ hi \in Nat /\ t \in Nat /\ lo <= t /\ t <= hi
      /\ v \in Nat /\ vol \in Nat /\ pv \in Nat
  BY SeenWidens, BarFacts DEF TypeOK, Typical
<1>2. lo * vol <= pv /\ pv <= hi * vol
  <2>1. CASE bars = 0
    <3>1. vol = 0 /\ pv = 0
      BY <2>1 DEF MoneyInv
    <3> QED
      BY <1>1, <3>1
  <2>2. CASE bars > 0
    <3> DEFINE l == 3 * seen.lo
               h == 3 * seen.hi
    <3>1. l \in Nat /\ h \in Nat /\ lo <= l /\ h <= hi
      BY <2>2, SeenWidens DEF TypeOK
    <3>2. l * vol <= pv /\ pv <= h * vol
      BY <2>2 DEF MoneyInv, VwapInRange
    <3> HIDE DEF l, h, lo, hi, pv, vol
    <3>3. lo * vol <= l * vol /\ h * vol <= hi * vol
      BY <1>1, <3>1, Times
    <3>4. lo * vol \in Int /\ l * vol \in Int /\ h * vol \in Int /\ hi * vol \in Int
      BY <1>1, <3>1, ProductInt
    <3> QED
      BY <1>1, <3>2, <3>3, <3>4
  <2> QED
    BY <2>1, <2>2 DEF TypeOK
<1>3. money'.pv = pv + (t * v) /\ money'.vol = vol + v
  BY DEF MoneyStep, Obv, AdLine
<1>4. lo * (vol + v) <= pv + (t * v) /\ pv + (t * v) <= hi * (vol + v) /\ t * v \in Nat
  <2> HIDE DEF lo, hi, t, v, vol, pv
  <2>1. \A a, x, y \in Nat : a * (x + y) = (a * x) + (a * y)
    BY SMT
  <2>2. lo * (vol + v) = (lo * vol) + (lo * v) /\ hi * (vol + v) = (hi * vol) + (hi * v)
    BY <1>1, <2>1
  <2>3. lo * v <= t * v /\ t * v <= hi * v
    BY <1>1, Times
  <2>4. /\ lo * vol \in Nat /\ hi * vol \in Nat /\ lo * v \in Nat /\ hi * v \in Nat
        /\ t * v \in Nat
    BY <1>1, ProductNat
  <2> QED
    BY <1>1, <1>2, <2>2, <2>3, <2>4
<1>5. VwapInRange'
  BY <1>3, <1>4 DEF VwapInRange
<1>6. /\ money'.obv \in Int /\ money'.ad \in Int /\ VolumeBounds'
  <2>1. /\ money.obv \in Int /\ money.ad \in Int /\ -vol <= money.obv /\ money.obv <= vol
        /\ -vol <= money.ad /\ money.ad <= vol
    BY DEF MoneyInv, VolumeBounds, TypeOK
  <2>2. money'.ad = money.ad + flow /\ flow \in Int /\ -v <= flow /\ flow <= v
    BY <1>1 DEF MoneyStep, Obv, AdLine
  <2>3. money'.obv \in {0, money.obv + v, money.obv - v, money.obv}
    BY DEF MoneyStep, Obv, AdLine
  <2> HIDE DEF v, vol
  <2> QED
    BY <1>1, <1>3, <2>1, <2>2, <2>3 DEF VolumeBounds
<1>7. money' \in [pv : Nat, vol : Nat, obv : Int, ad : Int]
  <2>1. pv + (t * v) \in Nat /\ vol + v \in Nat
    BY <1>1, <1>4
  <2>2. money' = [pv |-> money'.pv, vol |-> money'.vol, obv |-> money'.obv, ad |-> money'.ad]
    BY DEF MoneyStep, Obv, AdLine
  <2> QED
    BY <1>3, <1>6, <2>1, <2>2
<1> QED
  BY <1>5, <1>6, <1>7 DEF MoneyInv, TypeOK

-----------------------------------------------------------------------------
(* Stops *)

\* What a stop in force knows of the last two bars.
Clear(s, l, e) ==
  IF s.bull
  THEN /\ s.sar <= s.ep /\ l.high <= s.ep
       /\ ~s.fresh => s.sar <= l.low /\ s.sar <= e.low
  ELSE /\ s.sar >= s.ep /\ l.low >= s.ep
       /\ ~s.fresh => s.sar >= l.high /\ s.sar >= e.high

Stops == [bull : BOOLEAN, sar : Int, ep : Int, step : 1 .. 10, fresh : BOOLEAN]

LEMMA StopRecord ==
  \A x, y \in Int, k \in 1 .. 10, p, q \in BOOLEAN :
    [bull |-> p, sar |-> x, ep |-> y, step |-> k, fresh |-> q] \in Stops
BY Zenon DEF Stops

StopInv == bars > 1 => Clear(stop, last, before)

LEMMA FirstClear ==
  ASSUME TypeOK, NEW b \in Bars
  PROVE  /\ FirstStop(b) \in Stops
         /\ IF FirstStop(b).bull THEN FirstStop(b).sar <= FirstStop(b).ep
            ELSE FirstStop(b).sar >= FirstStop(b).ep
<1>1. last \in Bars
  BY DEF TypeOK
<1>2. last.high \in Int /\ last.low \in Int /\ last.low <= last.high
  BY <1>1, BarFacts
<1>3. CASE b.high > last.high
  BY <1>2, <1>3 DEF FirstStop, Stops
<1>4. CASE ~(b.high > last.high)
  BY <1>2, <1>4 DEF FirstStop, Stops
<1> QED
  BY <1>3, <1>4

LEMMA StopMoves ==
  ASSUME TypeOK, NEW b \in Bars, NEW s \in Stops,
         IF s.bull THEN s.sar <= s.ep ELSE s.sar >= s.ep,
         NEW to \in Lesser(s.sar, s.ep) .. Greater(s.sar, s.ep),
         NEW r, r = IF s.bull THEN RisingStop(s, b, to) ELSE FallingStop(s, b, to)
  PROVE  /\ r \in Stops /\ Clear(r, b, last)
         /\ Clear(s, last, before) /\ ~s.fresh /\ r.bull = s.bull =>
              IF s.bull THEN r.sar >= s.sar ELSE r.sar <= s.sar
<1>1. /\ b.high \in Int /\ b.low \in Int /\ b.low <= b.high
      /\ last.high \in Int /\ last.low \in Int /\ last.low <= last.high
      /\ before.high \in Int /\ before.low \in Int /\ before.low <= before.high
  BY BarFacts DEF TypeOK
<1>2. s.sar \in Int /\ s.ep \in Int /\ s.step \in 1 .. 10 /\ s.bull \in BOOLEAN /\ s.fresh \in BOOLEAN
  BY DEF Stops
<1>3. to \in Int /\ Faster(s) \in 1 .. 10
  BY <1>2 DEF Lesser, Greater, Faster
<1>4. CASE s.bull
  <2>1. s.sar <= to /\ to <= s.ep
    BY <1>2, <1>3, <1>4 DEF Lesser, Greater
  <2> DEFINE sar == Lesser(to, Lesser(last.low, before.low))
  <2>2. /\ sar \in Int /\ sar <= to /\ sar <= last.low /\ sar <= before.low
        /\ s.sar <= last.low /\ s.sar <= before.low => s.sar <= sar
    BY <1>1, <1>2, <1>3, <2>1 DEF Lesser
  <2>3. r = IF b.low < sar
            THEN [bull |-> FALSE, sar |-> s.ep, ep |-> b.low, step |-> 1, fresh |-> TRUE]
            ELSE [bull |-> TRUE, sar |-> sar, ep |-> Greater(s.ep, b.high),
                  step |-> IF b.high > s.ep THEN Faster(s) ELSE s.step, fresh |-> FALSE]
    BY <1>4 DEF RisingStop
  <2> HIDE DEF sar
  <2>4. CASE b.low < sar
    <3>1. r.bull = FALSE /\ r.sar = s.ep /\ r.ep = b.low /\ r.fresh = TRUE
      BY <2>3, <2>4
    <3>2. r \in Stops
      <4>1. r = [bull |-> FALSE, sar |-> s.ep, ep |-> b.low, step |-> 1, fresh |-> TRUE]
        BY <2>3, <2>4, Zenon
      <4>2. 1 \in 1 .. 10 /\ s.ep \in Int /\ b.low \in Int
        BY <1>1, <1>2
      <4> QED
        BY <4>1, <4>2, StopRecord, Zenon
    <3>3. s.ep >= b.low
      BY <1>1, <1>2, <1>3, <2>1, <2>2, <2>4
    <3>4. Clear(r, b, last)
      BY <1>1, <3>1, <3>3 DEF Clear
    <3> QED
      BY <1>4, <3>1, <3>2, <3>4
  <2>5. CASE ~(b.low < sar)
    <3>1. r.bull = TRUE /\ r.sar = sar /\ r.ep = Greater(s.ep, b.high) /\ r.fresh = FALSE
      BY <2>3, <2>5
    <3>2. Greater(s.ep, b.high) \in Int /\ sar <= Greater(s.ep, b.high) /\ b.high <= Greater(s.ep, b.high)
      BY <1>1, <1>2, <1>3, <2>1, <2>2 DEF Greater
    <3>3. (IF b.high > s.ep THEN Faster(s) ELSE s.step) \in 1 .. 10
      BY <1>2, <1>3
    <3>4. r \in Stops
      <4>1. r = [bull |-> TRUE, sar |-> sar, ep |-> Greater(s.ep, b.high),
                 step |-> IF b.high > s.ep THEN Faster(s) ELSE s.step, fresh |-> FALSE]
        BY <2>3, <2>5
      <4> QED
        BY <2>2, <3>2, <3>3, <4>1, StopRecord, Zenon
    <3>5. Clear(r, b, last)
      BY <1>1, <2>2, <2>5, <3>1, <3>2 DEF Clear
    <3>6. Clear(s, last, before) /\ ~s.fresh => r.sar >= s.sar
      BY <1>1, <1>2, <1>4, <2>2, <3>1 DEF Clear
    <3> QED
      BY <1>4, <3>4, <3>5, <3>6
  <2> QED
    BY <2>4, <2>5
<1>5. CASE ~s.bull
  <2>1. s.ep <= to /\ to <= s.sar
    BY <1>2, <1>3, <1>5 DEF Lesser, Greater
  <2> DEFINE sar == Greater(to, Greater(last.high, before.high))
  <2>2. /\ sar \in Int /\ sar >= to /\ sar >= last.high /\ sar >= before.high
        /\ s.sar >= last.high /\ s.sar >= before.high => s.sar >= sar
    BY <1>1, <1>2, <1>3, <2>1 DEF Greater
  <2>3. r = IF b.high > sar
            THEN [bull |-> TRUE, sar |-> s.ep, ep |-> b.high, step |-> 1, fresh |-> TRUE]
            ELSE [bull |-> FALSE, sar |-> sar, ep |-> Lesser(s.ep, b.low),
                  step |-> IF b.low < s.ep THEN Faster(s) ELSE s.step, fresh |-> FALSE]
    BY <1>5 DEF FallingStop
  <2> HIDE DEF sar
  <2>4. CASE b.high > sar
    <3>1. r.bull = TRUE /\ r.sar = s.ep /\ r.ep = b.high /\ r.fresh = TRUE
      BY <2>3, <2>4
    <3>2. r \in Stops
      <4>1. r = [bull |-> TRUE, sar |-> s.ep, ep |-> b.high, step |-> 1, fresh |-> TRUE]
        BY <2>3, <2>4, Zenon
      <4>2. 1 \in 1 .. 10 /\ s.ep \in Int /\ b.high \in Int
        BY <1>1, <1>2
      <4> QED
        BY <4>1, <4>2, StopRecord, Zenon
    <3>3. s.ep <= b.high
      BY <1>1, <1>2, <1>3, <2>1, <2>2, <2>4
    <3>4. Clear(r, b, last)
      BY <1>1, <3>1, <3>3 DEF Clear
    <3> QED
      BY <1>5, <3>1, <3>2, <3>4
  <2>5. CASE ~(b.high > sar)
    <3>1. r.bull = FALSE /\ r.sar = sar /\ r.ep = Lesser(s.ep, b.low) /\ r.fresh = FALSE
      BY <2>3, <2>5
    <3>2. Lesser(s.ep, b.low) \in Int /\ sar >= Lesser(s.ep, b.low) /\ b.low >= Lesser(s.ep, b.low)
      BY <1>1, <1>2, <1>3, <2>1, <2>2 DEF Lesser
    <3>3. (IF b.low < s.ep THEN Faster(s) ELSE s.step) \in 1 .. 10
      BY <1>2, <1>3
    <3>4. r \in Stops
      <4>1. r = [bull |-> FALSE, sar |-> sar, ep |-> Lesser(s.ep, b.low),
                 step |-> IF b.low < s.ep THEN Faster(s) ELSE s.step, fresh |-> FALSE]
        BY <2>3, <2>5
      <4> QED
        BY <2>2, <3>2, <3>3, <4>1, StopRecord, Zenon
    <3>5. Clear(r, b, last)
      BY <1>1, <2>2, <2>5, <3>1, <3>2 DEF Clear
    <3>6. Clear(s, last, before) /\ ~s.fresh => r.sar <= s.sar
      BY <1>1, <1>2, <1>5, <2>2, <3>1 DEF Clear
    <3> QED
      BY <1>5, <3>4, <3>5, <3>6
  <2> QED
    BY <2>4, <2>5
<1> QED
  BY <1>4, <1>5, <1>2

LEMMA StopKept ==
  ASSUME TypeOK, StopInv, NEW b \in Bars, StopStep(b),
         last' = b, before' = (IF bars = 0 THEN b ELSE last), bars' = bars + 1
  PROVE  /\ stop' \in Stops /\ StopInv'
         /\ bars > 1 /\ ~stop.fresh /\ stop'.bull = stop.bull =>
              IF stop.bull THEN stop'.sar >= stop.sar ELSE stop'.sar <= stop.sar
<1>1. stop \in Stops /\ bars \in Nat
  BY DEF TypeOK, Stops
<1>2. CASE bars = 0
  <2>1. stop' = stop /\ ~(bars' > 1)
    BY <1>2 DEF StopStep
  <2> QED
    BY <1>1, <1>2, <2>1 DEF StopInv
<1>3. CASE bars # 0
  <2> DEFINE s == IF bars = 1 THEN FirstStop(b) ELSE stop
  <2>1. s \in Stops
    BY <1>1, FirstClear
  <2>2. IF s.bull THEN s.sar <= s.ep ELSE s.sar >= s.ep
    <3>1. CASE bars = 1
      BY <3>1, FirstClear
    <3>2. CASE bars # 1
      <4>1. bars > 1
        BY <1>1, <1>3, <3>2
      <4> QED
        BY <3>2, <4>1 DEF StopInv, Clear
    <3> QED
      BY <3>1, <3>2
  <2>3. \E to \in Lesser(s.sar, s.ep) .. Greater(s.sar, s.ep) :
           stop' = IF s.bull THEN RisingStop(s, b, to) ELSE FallingStop(s, b, to)
    BY <1>3, Zenon DEF StopStep
  <2>4. PICK to \in Lesser(s.sar, s.ep) .. Greater(s.sar, s.ep) :
           stop' = IF s.bull THEN RisingStop(s, b, to) ELSE FallingStop(s, b, to)
    BY <2>3
  <2>5. /\ stop' \in Stops /\ Clear(stop', b, last)
        /\ Clear(s, last, before) /\ ~s.fresh /\ stop'.bull = s.bull =>
              IF s.bull THEN stop'.sar >= s.sar ELSE stop'.sar <= s.sar
    <3> HIDE DEF s
    <3> QED
      BY <2>1, <2>2, <2>4, StopMoves
  <2>6. StopInv'
    <3>1. last' = b /\ before' = last
      BY <1>3
    <3> QED
      BY <2>5, <3>1 DEF StopInv
  <2>7. bars > 1 => s = stop /\ Clear(stop, last, before)
    BY DEF StopInv
  <2> HIDE DEF s
  <2> QED
    BY <2>5, <2>6, <2>7
<1> QED
  BY <1>2, <1>3

Trends == [ready : BOOLEAN, aged : BOOLEAN, up : Int, dn : Int, dir : {1, -1}]

TrendInv == TrendSide /\ (trend.aged => trend.ready) /\ (trend.ready => dm.n = Period)

LEMMA TrendKept ==
  ASSUME Sizes, TypeOK, TrendInv, NEW b \in Bars, NEW width \in Nat,
         SuperTrendStep(b, width), AdxStep(b), last' = b
  PROVE  /\ trend' \in Trends /\ TrendInv'
         /\ trend.aged /\ trend.dn <= trend.up /\ trend'.dir = trend.dir =>
              IF trend.dir = 1 THEN trend'.dn >= trend.dn ELSE trend'.up <= trend.up
<1> DEFINE raw == b.high + b.low
           c == 2 * b.close
           ceil == IF trend.ready /\ 2 * last.close <= trend.up
                 THEN Lesser(raw + width, trend.up) ELSE raw + width
           dn == IF trend.ready /\ 2 * last.close >= trend.dn
                 THEN Greater(raw - width, trend.dn) ELSE raw - width
           turned == IF c < trend.dn THEN -1 ELSE IF c > trend.up THEN 1 ELSE trend.dir
           held == IF turned = 1 THEN (IF c < dn THEN -1 ELSE 1)
                   ELSE (IF c > ceil THEN 1 ELSE -1)
           dir == IF trend.ready THEN held ELSE trend.dir
<1>1. raw \in Int /\ c \in Int /\ 2 * last.close \in Int
  BY BarFacts DEF TypeOK
<1>2. /\ trend.up \in Int /\ trend.dn \in Int /\ trend.dir \in {1, -1}
      /\ trend.ready \in BOOLEAN /\ trend.aged \in BOOLEAN /\ trend \in Trends
  BY DEF TypeOK, Trends
<1>3. ceil \in Int /\ dn \in Int /\ dir \in {1, -1}
  BY <1>1, <1>2 DEF Lesser, Greater
<1>4. dm'.n = More(dm) /\ dm.n \in Nat /\ dm.n <= Period /\ More(dm) <= Period /\ More(dm) \in Nat
  BY MoreType DEF AdxStep, TypeOK
<1>5. CASE More(dm) < Period
  <2>1. ~trend.ready
    BY <1>4, <1>5 DEF TrendInv, More, Warm
  <2>2. trend' = trend /\ ~trend.aged
    BY <1>5, <2>1 DEF SuperTrendStep, TrendInv
  <2> QED
    BY <1>2, <2>1, <2>2 DEF TrendInv, TrendSide
<1>6. CASE ~(More(dm) < Period)
  <2>1. trend' = [ready |-> TRUE, aged |-> trend.ready, up |-> ceil, dn |-> dn, dir |-> dir]
    BY <1>6, Zenon DEF SuperTrendStep
  <2>2. trend'.up = ceil /\ trend'.dn = dn /\ trend'.dir = dir /\ trend'.aged = trend.ready
    BY <2>1
  <2>3. dm'.n = Period
    BY <1>4, <1>6 DEF Sizes
  <2>4. trend' \in Trends
    <3> HIDE DEF ceil, dn, dir
    <3> QED
      BY <1>2, <1>3, <2>1, Zenon DEF Trends
  <2>5. trend.ready /\ dn <= ceil => IF dir = 1 THEN c >= dn ELSE c <= ceil
    BY <1>1, <1>2, <1>3
  <2>6. TrendSide'
    <3> HIDE DEF ceil, dn, dir
    <3> QED
      BY <2>2, <2>5 DEF TrendSide
  <2>7. TrendInv'
    BY <2>1, <2>3, <2>6 DEF TrendInv
  <2>8. ASSUME trend.aged, trend.dn <= trend.up, dir = trend.dir
        PROVE  IF trend.dir = 1 THEN dn >= trend.dn ELSE ceil <= trend.up
    <3>1. trend.ready
      BY <2>8 DEF TrendInv
    <3>2. IF trend.dir = 1 THEN 2 * last.close >= trend.dn ELSE 2 * last.close <= trend.up
      BY <2>8 DEF TrendInv, TrendSide
    <3>3. CASE trend.dir = 1
      BY <1>1, <1>2, <3>1, <3>2, <3>3 DEF Greater
    <3>4. CASE trend.dir # 1
      BY <1>1, <1>2, <3>1, <3>2, <3>4 DEF Lesser
    <3> QED
      BY <3>3, <3>4
  <2> HIDE DEF ceil, dn, dir
  <2> QED
    BY <2>2, <2>4, <2>7, <2>8
<1> QED
  BY <1>5, <1>6

-----------------------------------------------------------------------------
(* Windows *)

WinInv ==
  /\ win.up + win.down = win.gross /\ win.close - win.base = win.up - win.down
  /\ win.bp <= win.tr /\ -win.vol <= win.mfv /\ win.mfv <= win.vol
  /\ win.n > 0 => /\ win.lo <= win.close /\ win.close <= win.hi
                  /\ win.hiAt < win.n /\ win.loAt < win.n
  /\ win.n = 0 => win.hiAt = 0 /\ win.loAt = 0
  /\ win.close = last.close
  /\ bars = 0 => win.base = win.close

LEMMA WinKept ==
  ASSUME TypeOK, WinType, WinInv, NEW b \in Bars, NEW flow \in -b.volume .. b.volume,
         WindowStep(b, flow), last' = b, bars' = bars + 1
  PROVE  WinType' /\ WinInv'
<1> DEFINE prev == IF bars = 0 THEN b ELSE last
           d == b.close - prev.close
           floor == Lesser(b.low, prev.close)
           ceil == Greater(b.high, prev.close)
<1>1. /\ b.high \in Nat /\ b.low \in Nat /\ b.close \in Nat /\ b.volume \in Nat
      /\ b.low <= b.close /\ b.close <= b.high
      /\ prev.high \in Nat /\ prev.low \in Nat /\ prev.close \in Nat
  BY BarFacts DEF TypeOK
<1>2. d \in Int /\ floor \in Nat /\ ceil \in Nat /\ floor <= b.close /\ b.close <= ceil
  BY <1>1 DEF Lesser, Greater
<1>3. /\ Gain(d) \in Nat /\ Gain(-d) \in Nat /\ Abs(d) \in Nat
      /\ Gain(d) + Gain(-d) = Abs(d) /\ Gain(d) - Gain(-d) = d
  BY <1>2 DEF Gain, Greater, Abs
<1>4. Typical(b) * b.volume \in Nat
  <2>1. Typical(b) \in Nat
    BY <1>1 DEF Typical
  <2> QED
    BY <1>1, <2>1, ProductNat
<1>5. flow \in Int /\ -b.volume <= flow /\ flow <= b.volume
  BY <1>1
<1>6. /\ win.n \in Nat /\ win.base \in Nat /\ win.close \in Nat /\ win.hi \in Nat /\ win.lo \in Nat
      /\ win.hiAt \in Nat /\ win.loAt \in Nat /\ win.up \in Nat /\ win.down \in Nat
      /\ win.gross \in Nat /\ win.bp \in Nat /\ win.tr \in Nat /\ win.mfv \in Int
      /\ win.vol \in Nat /\ win.pos \in Nat /\ win.neg \in Nat
  BY DEF WinType
<1>7. win' = [n |-> win.n + 1, base |-> IF bars = 0 THEN b.close ELSE win.base, close |-> b.close,
        hi |-> IF win.n = 0 THEN b.high ELSE Greater(win.hi, b.high),
        lo |-> IF win.n = 0 THEN b.low ELSE Lesser(win.lo, b.low),
        hiAt |-> IF win.n > 0 /\ b.high > win.hi THEN win.n ELSE win.hiAt,
        loAt |-> IF win.n > 0 /\ b.low < win.lo THEN win.n ELSE win.loAt,
        up |-> win.up + Gain(d), down |-> win.down + Gain(-d), gross |-> win.gross + Abs(d),
        bp |-> win.bp + (b.close - floor), tr |-> win.tr + (ceil - floor),
        mfv |-> win.mfv + flow, vol |-> win.vol + b.volume,
        pos |-> IF Typical(b) > Typical(prev) THEN win.pos + (Typical(b) * b.volume) ELSE win.pos,
        neg |-> IF Typical(b) < Typical(prev) THEN win.neg + (Typical(b) * b.volume) ELSE win.neg]
  BY Zenon DEF WindowStep
<1>8. d = IF bars = 0 THEN 0 ELSE b.close - last.close
  BY <1>1
<1> HIDE DEF d, floor, ceil, prev
<1>9. WinType'
  <2>1. /\ win'.hi \in Nat /\ win'.lo \in Nat /\ win'.hiAt \in Nat /\ win'.loAt \in Nat
        /\ win'.base \in Nat /\ win'.close \in Nat /\ win'.n \in Nat
    BY <1>1, <1>6, <1>7 DEF Greater, Lesser
  <2>2. /\ win'.up \in Nat /\ win'.down \in Nat /\ win'.gross \in Nat /\ win'.bp \in Nat
        /\ win'.tr \in Nat /\ win'.mfv \in Int /\ win'.vol \in Nat
    BY <1>1, <1>2, <1>3, <1>5, <1>6, <1>7
  <2>3. win'.pos \in Nat /\ win'.neg \in Nat
    BY <1>4, <1>6, <1>7
  <2>4. win' = [n |-> win'.n, base |-> win'.base, hi |-> win'.hi, lo |-> win'.lo,
                hiAt |-> win'.hiAt, loAt |-> win'.loAt, close |-> win'.close, up |-> win'.up,
                down |-> win'.down, gross |-> win'.gross, bp |-> win'.bp, tr |-> win'.tr,
                mfv |-> win'.mfv, vol |-> win'.vol, pos |-> win'.pos, neg |-> win'.neg]
    BY <1>7
  <2> QED
    BY <2>1, <2>2, <2>3, <2>4, Zenon DEF WinType
<1>10. WinInv'
  <2>1. win'.up + win'.down = win'.gross
    BY <1>3, <1>6, <1>7 DEF WinInv
  <2>2. win'.close - win'.base = win'.up - win'.down
    <3>1. CASE bars = 0
      BY <1>1, <1>3, <1>6, <1>7, <1>8, <3>1 DEF WinInv
    <3>2. CASE bars # 0
      <4>1. /\ win'.close = b.close /\ win'.base = win.base
            /\ win'.up = win.up + Gain(d) /\ win'.down = win.down + Gain(-d)
        BY <1>7, <3>2
      <4>2. win.close - win.base = win.up - win.down /\ d = b.close - win.close
        BY <1>8, <3>2 DEF WinInv
      <4> QED
        BY <1>1, <1>3, <1>6, <4>1, <4>2
    <3> QED
      BY <3>1, <3>2
  <2>3. win'.bp <= win'.tr /\ -win'.vol <= win'.mfv /\ win'.mfv <= win'.vol
    BY <1>1, <1>2, <1>5, <1>6, <1>7 DEF WinInv
  <2>4. win'.lo <= win'.close /\ win'.close <= win'.hi
    BY <1>1, <1>6, <1>7 DEF Greater, Lesser
  <2>5. win'.hiAt < win'.n /\ win'.loAt < win'.n /\ win'.n # 0
    BY <1>6, <1>7 DEF WinInv
  <2>6. win'.close = last'.close /\ bars' # 0
    BY <1>7 DEF TypeOK
  <2> QED
    BY <2>1, <2>2, <2>3, <2>4, <2>5, <2>6 DEF WinInv
<1> QED
  BY <1>9, <1>10

\* The readings follow from the sums.
LEMMA Readings ==
  ASSUME WinType, WinInv
  PROVE  SameStrength /\ OneOscillator /\ Scales
<1>1. /\ win.n \in Nat /\ win.base \in Nat /\ win.close \in Nat /\ win.hi \in Nat /\ win.lo \in Nat
      /\ win.hiAt \in Nat /\ win.loAt \in Nat /\ win.up \in Nat /\ win.down \in Nat
      /\ win.gross \in Nat /\ win.bp \in Nat /\ win.tr \in Nat /\ win.mfv \in Int
      /\ win.vol \in Nat /\ win.pos \in Nat /\ win.neg \in Nat
  BY DEF WinType
<1>2. SameStrength
  <2>1. win.up + win.down = win.gross /\ win.close - win.base = win.up - win.down
    BY DEF WinInv
  <2> QED
    BY <1>1, <2>1 DEF SameStrength, ChandeMomentum, TrendIntensity, Abs
<1>3. OneOscillator
  <2> SUFFICES ASSUME win.n > 0
               PROVE  IF win.lo < win.hi
                      THEN /\ StochasticK(win)[1] - WilliamsR(win)[1] = 100 * (win.hi - win.lo)
                           /\ 0 <= StochasticK(win)[1] /\ StochasticK(win)[1] <= 100 * StochasticK(win)[2]
                      ELSE StochasticK(win)[1] = 5000 /\ WilliamsR(win)[1] = 0
    BY DEF OneOscillator
  <2>1. win.lo <= win.close /\ win.close <= win.hi
    BY DEF WinInv
  <2>2. CASE win.lo < win.hi
    <3>1. /\ StochasticK(win)[1] = 100 * (win.close - win.lo) /\ StochasticK(win)[2] = win.hi - win.lo
          /\ WilliamsR(win)[1] = -100 * (win.hi - win.close)
      BY <1>1, <2>2 DEF StochasticK, WilliamsR
    <3> QED
      BY <1>1, <2>1, <2>2, <3>1
  <2>3. CASE ~(win.lo < win.hi)
    BY <1>1, <2>1, <2>3 DEF StochasticK, WilliamsR
  <2> QED
    BY <2>2, <2>3
<1>4. Scales
  <2>1. 0 <= Buying(win)[1] /\ Buying(win)[1] <= Buying(win)[2]
    BY <1>1 DEF WinInv, Buying
  <2>2. Abs(MoneyFlow(win)[1]) <= MoneyFlow(win)[2]
    BY <1>1 DEF WinInv, MoneyFlow, Abs
  <2>3. 0 <= MoneyIndex(win)[1] /\ MoneyIndex(win)[1] <= 100 * MoneyIndex(win)[2]
    BY <1>1 DEF MoneyIndex
  <2>4. win.n > 1 => /\ 0 <= AroonUp(win)[1] /\ AroonUp(win)[1] <= 100 * AroonUp(win)[2]
                     /\ 0 <= AroonDown(win)[1] /\ AroonDown(win)[1] <= 100 * AroonDown(win)[2]
    BY <1>1 DEF WinInv, AroonUp, AroonDown
  <2> QED
    BY <2>1, <2>2, <2>3, <2>4 DEF Scales
<1> QED
  BY <1>2, <1>3, <1>4

-----------------------------------------------------------------------------
(* The invariant *)

IInv == /\ TypeOK /\ WinType /\ EmaInv /\ SigInv /\ DirInv /\ GarchFloor /\ CrossLatched
        /\ MoneyInv /\ StopInv /\ TrendInv /\ WinInv

LEMMA InitIInv ==
  ASSUME Sizes
  PROVE  ReadingInit => IInv
<1> SUFFICES ASSUME ReadingInit PROVE IInv
  OBVIOUS
<1>1. TypeOK
  BY StartBar DEF ReadingInit, TypeOK, Sizes, Pos
<1>2. WinType /\ WinInv
  BY DEF ReadingInit, WinType, WinInv, NoWindow, Start
<1>3. EmaInv
  BY DEF ReadingInit, EmaInv, Average, AverageInRange, Warm, Sizes, Pos
<1>4. SigInv
  BY DEF ReadingInit, SigInv, Average, Over, Warm, Sizes, Pos
<1>5. DirInv /\ GarchFloor /\ CrossLatched /\ StopInv /\ TrendInv
  BY DEF ReadingInit, DirInv, GarchFloor, CrossLatched, StopInv, TrendInv, TrendSide
<1>6. MoneyInv
  BY DEF ReadingInit, MoneyInv, VwapInRange, VolumeBounds
<1> QED
  BY <1>1, <1>2, <1>3, <1>4, <1>5, <1>6 DEF IInv

\* A bar: each group by its own lemma.
LEMMA BarIInv ==
  ASSUME Sizes, IInv, NEW b \in Bars, NEW x \in Int, NEW y \in Int, NEW flow \in Int,
         NEW width \in Nat, NEW sq \in Nat, CloseBar(b, x, y, width, sq, flow)
  PROVE  /\ IInv'
         /\ bars > 1 /\ ~stop.fresh /\ stop'.bull = stop.bull =>
              IF stop.bull THEN stop'.sar >= stop.sar ELSE stop'.sar <= stop.sar
         /\ trend.aged /\ trend.dn <= trend.up /\ trend'.dir = trend.dir =>
              IF trend.dir = 1 THEN trend'.dn >= trend.dn ELSE trend'.up <= trend.up
<1>0. /\ TypeOK /\ WinType /\ EmaInv /\ SigInv /\ DirInv /\ GarchFloor /\ CrossLatched
      /\ MoneyInv /\ StopInv /\ TrendInv /\ WinInv
  BY DEF IInv
<1>1. /\ flow \in -b.volume .. b.volume
      /\ bars' = bars + 1
      /\ last' = b /\ before' = (IF bars = 0 THEN b ELSE last)
      /\ seen' = IF bars = 0 THEN [lo |-> b.low, hi |-> b.high]
                 ELSE [lo |-> Lesser(seen.lo, b.low), hi |-> Greater(seen.hi, b.high)]
      /\ EmaStep(b) /\ SignalStep(x) /\ RsiStep(b) /\ AdxStep(b) /\ GarchStep(sq)
      /\ SuperTrendStep(b, width) /\ StopStep(b) /\ CrossStep(x, y)
      /\ MoneyStep(b, flow) /\ WindowStep(b, flow)
  BY DEF CloseBar
<1>2. EmaInv'
  BY <1>0, <1>1, EmaKept
<1>3. SigInv'
  BY <1>0, <1>1, SigKept
<1>4. DirInv'
  BY <1>0, <1>1, DirKept
<1>5. garch' \in [num : Nat, den : Pos] /\ GarchFloor'
  BY <1>0, <1>1, GarchStays
<1>6. cross' \in [x : Int, y : Int, above : BOOLEAN] /\ CrossLatched'
  BY <1>0, <1>1, CrossStays
<1>7. MoneyInv' /\ money' \in [pv : Nat, vol : Nat, obv : Int, ad : Int]
  BY <1>0, <1>1, MoneyKept
<1>8. /\ stop' \in Stops /\ StopInv'
      /\ bars > 1 /\ ~stop.fresh /\ stop'.bull = stop.bull =>
              IF stop.bull THEN stop'.sar >= stop.sar ELSE stop'.sar <= stop.sar
  BY <1>0, <1>1, StopKept
<1>9. /\ trend' \in Trends /\ TrendInv'
      /\ trend.aged /\ trend.dn <= trend.up /\ trend'.dir = trend.dir =>
              IF trend.dir = 1 THEN trend'.dn >= trend.dn ELSE trend'.up <= trend.up
  BY <1>0, <1>1, TrendKept
<1>10. WinType' /\ WinInv'
  BY <1>0, <1>1, WinKept
<1>11. TypeOK'
  <2>1. /\ ema' \in [n : Nat, num : Int, den : Pos] /\ ema'.n <= Period
        /\ sig' \in [n : Nat, num : Int, den : Pos, line : Int, top : Nat] /\ sig'.n <= Period
        /\ rs' \in [n : Nat, den : Pos, gain : Nat, loss : Nat] /\ rs'.n <= Period
        /\ dm' \in [n : Nat, den : Pos, up : Nat, down : Nat, range : Nat] /\ dm'.n <= Period
    BY <1>0, <1>1, AveragesType
  <2>2. bars' \in Nat /\ last' \in Bars /\ before' \in Bars
    BY <1>0, <1>1 DEF TypeOK
  <2>3. seen' \in [lo : Nat, hi : Nat]
    BY <1>0, <1>1, SeenWidens
  <2> QED
    BY <1>5, <1>6, <1>7, <1>8, <1>9, <2>1, <2>2, <2>3, Zenon DEF TypeOK, Stops, Trends
<1> QED
  BY <1>2, <1>3, <1>4, <1>5, <1>6, <1>7, <1>8, <1>9, <1>10, <1>11 DEF IInv

LEMMA Rest ==
  ASSUME IInv,
         UNCHANGED <<bars, last, before, seen, ema, sig, rs, dm, garch, trend, stop, cross, money>>,
         win' = win \/ win' = NoWindow(last.close)
  PROVE  IInv'
<1>1. TypeOK'
  BY DEF IInv, TypeOK
<1>2. EmaInv' /\ SigInv' /\ DirInv' /\ GarchFloor' /\ CrossLatched'
  BY DEF IInv, EmaInv, SigInv, DirInv, GarchFloor, CrossLatched, Average, AverageInRange, Over, Warm
<1>3. MoneyInv' /\ StopInv' /\ TrendInv'
  BY DEF IInv, MoneyInv, VwapInRange, VolumeBounds, StopInv, TrendInv, TrendSide
<1>4. WinType' /\ WinInv'
  <2>1. CASE win' = win
    BY <2>1 DEF IInv, WinType, WinInv
  <2>2. CASE win' = NoWindow(last.close)
    <3>1. last.close \in Nat
      BY BarFacts DEF IInv, TypeOK
    <3> QED
      BY <2>2, <3>1 DEF WinType, WinInv, NoWindow
  <2> QED
    BY <2>1, <2>2
<1> QED
  BY <1>1, <1>2, <1>3, <1>4 DEF IInv

LEMMA NextIInv ==
  ASSUME Sizes
  PROVE  IInv /\ [ReadingNext]_readingVars => IInv'
<1> SUFFICES ASSUME IInv, [ReadingNext]_readingVars PROVE IInv'
  OBVIOUS
<1>1. ASSUME NEW b \in Bars, NEW x \in Int, NEW y \in Int, NEW flow \in Int,
             NEW width \in Nat, NEW sq \in Nat, CloseBar(b, x, y, width, sq, flow)
      PROVE  IInv'
  BY <1>1, BarIInv
<1>2. CASE OpenWindow
  BY <1>2, Rest DEF OpenWindow
<1>3. CASE UNCHANGED readingVars
  BY <1>3, Rest DEF readingVars
<1> QED
  BY <1>1, <1>2, <1>3 DEF ReadingNext

-----------------------------------------------------------------------------
(* Theorems *)

\* On a tape of any length the moving average (core.py, ema) and the
\* volume-weighted price (volume.py, vwap) lie among the prices seen, and the
\* two volume lines within the volume traded.
THEOREM AveragesStay ==
  ASSUME Sizes
  PROVE  ReadingSpec => [](AverageInRange /\ VwapInRange /\ VolumeBounds)
<1>1. IInv => AverageInRange /\ VwapInRange /\ VolumeBounds
  BY DEF IInv, EmaInv, MoneyInv
<1> QED
  BY InitIInv, NextIInv, <1>1, PTL DEF ReadingSpec

\* The smoothing of a line that starts late (core.py, _ema_ignore_none)
\* averages the zeros of its warm-up in: at its positive top the line is
\* always above its signal, so the histogram reads a pull that is not there.
THEOREM PhantomPull ==
  ASSUME Sizes
  PROVE  ReadingSpec => []PhantomHistogram
<1>1. IInv => PhantomHistogram
  BY DEF IInv, SigInv, PhantomHistogram
<1> QED
  BY InitIInv, NextIInv, <1>1, PTL DEF ReadingSpec

\* Of the two directional moves of a bar at most one counts and the true
\* range covers it, so the two indicators never sum to more than 100
\* (trend.py, adx).
THEOREM DirectionsShare ==
  ASSUME Sizes
  PROVE  ReadingSpec => []DirectionsShareRange
<1>1. IInv => DirectionsShareRange
  BY DEF IInv, TypeOK, DirInv, DirectionsShareRange
<1> QED
  BY InitIInv, NextIInv, <1>1, PTL DEF ReadingSpec

\* Both averages of the strength index shrink alike on an unchanged close: on
\* a dead tape it stays where the last move left it (core.py, rsi).
THEOREM FrozenIndex ==
  ASSUME Sizes
  PROVE  ReadingSpec => RsiFreezes
<1>1. ASSUME IInv, [ReadingNext]_readingVars, bars' > bars, bars > 0, ~Warm(rs), last'.close = last.close
      PROVE  Rsi(rs')[1] * Rsi(rs)[2] = Rsi(rs)[1] * Rsi(rs')[2]
  <2>1. ASSUME NEW b \in Bars, NEW x \in Int, NEW y \in Int, NEW flow \in Int,
               NEW width \in Nat, NEW sq \in Nat, CloseBar(b, x, y, width, sq, flow)
        PROVE  Rsi(rs')[1] * Rsi(rs)[2] = Rsi(rs)[1] * Rsi(rs')[2]
    <3>1. RsiStep(b) /\ last' = b
      BY <2>1 DEF CloseBar
    <3>2. b.close = last.close
      BY <1>1, <3>1
    <3> QED
      BY <1>1, <3>1, <3>2, RsiStays DEF IInv
  <2>2. CASE bars' = bars
    BY <1>1, <2>2 DEF IInv, TypeOK
  <2> QED
    BY <1>1, <2>1, <2>2 DEF ReadingNext, OpenWindow, readingVars
<1> QED
  BY InitIInv, NextIInv, <1>1, PTL DEF ReadingSpec, RsiFreezes

\* The variance keeps a floor of ten omegas, whatever the returns
\* (volatility.py, garch_11).
THEOREM VarianceFloor ==
  ASSUME Sizes
  PROVE  ReadingSpec => []GarchFloor
<1>1. IInv => GarchFloor
  BY DEF IInv
<1> QED
  BY InitIInv, NextIInv, <1>1, PTL DEF ReadingSpec

\* The parabolic stop keeps off the last two bars, except on a bar that
\* reverses it, and within a leg it only comes closer (trend.py, psar).
THEOREM StopStaysClear ==
  ASSUME Sizes
  PROVE  ReadingSpec => []StopClear /\ StopRatchets
<1>1. IInv => StopClear
  BY DEF IInv, StopInv, Clear, StopClear
<1>2. ASSUME IInv, [ReadingNext]_readingVars, bars > 1, ~stop.fresh, stop'.bull = stop.bull
      PROVE  IF stop.bull THEN stop'.sar >= stop.sar ELSE stop'.sar <= stop.sar
  <2>1. ASSUME NEW b \in Bars, NEW x \in Int, NEW y \in Int, NEW flow \in Int,
               NEW width \in Nat, NEW sq \in Nat, CloseBar(b, x, y, width, sq, flow)
        PROVE  IF stop.bull THEN stop'.sar >= stop.sar ELSE stop'.sar <= stop.sar
    BY <1>2, <2>1, BarIInv
  <2>2. CASE stop' = stop
    BY <1>2, <2>2 DEF IInv, TypeOK
  <2> QED
    BY <1>2, <2>1, <2>2 DEF ReadingNext, OpenWindow, readingVars
<1> QED
  BY InitIInv, NextIInv, <1>1, <1>2, PTL DEF ReadingSpec, StopRatchets

\* From its second reading on, and while its bands have not crossed, the
\* SuperTrend line is on the far side of the close and does not retreat
\* (trend.py, supertrend).
THEOREM TrendLineHolds ==
  ASSUME Sizes
  PROVE  ReadingSpec => []TrendSide /\ TrendRatchets
<1>1. IInv => TrendSide
  BY DEF IInv, TrendInv
<1>2. ASSUME IInv, [ReadingNext]_readingVars, trend.aged, trend.dn <= trend.up, trend'.dir = trend.dir
      PROVE  IF trend.dir = 1 THEN trend'.dn >= trend.dn ELSE trend'.up <= trend.up
  <2>1. ASSUME NEW b \in Bars, NEW x \in Int, NEW y \in Int, NEW flow \in Int,
               NEW width \in Nat, NEW sq \in Nat, CloseBar(b, x, y, width, sq, flow)
        PROVE  IF trend.dir = 1 THEN trend'.dn >= trend.dn ELSE trend'.up <= trend.up
    BY <1>2, <2>1, BarIInv
  <2>2. CASE trend' = trend
    BY <1>2, <2>2 DEF IInv, TypeOK
  <2> QED
    BY <1>2, <2>1, <2>2 DEF ReadingNext, OpenWindow, readingVars
<1> QED
  BY InitIInv, NextIInv, <1>1, <1>2, PTL DEF ReadingSpec, TrendRatchets

\* A cross once reported stays reported until the lines cross back, and only
\* then (core.py, crossover).
THEOREM CrossLatch ==
  ASSUME Sizes
  PROVE  ReadingSpec => []CrossLatched
<1>1. IInv => CrossLatched
  BY DEF IInv
<1> QED
  BY InitIInv, NextIInv, <1>1, PTL DEF ReadingSpec

\* Over one window the trend intensity is the momentum oscillator without its
\* sign; the stochastic and %R are a hundred apart, except on a flat window,
\* where the stochastic leaves its scale and reads 5000; the others keep to
\* theirs (momentum.py, trend.py, volume.py).
THEOREM WindowReadings ==
  ASSUME Sizes
  PROVE  ReadingSpec => [](SameStrength /\ OneOscillator /\ Scales)
<1>1. IInv => SameStrength /\ OneOscillator /\ Scales
  BY Readings DEF IInv
<1> QED
  BY InitIInv, NextIInv, <1>1, PTL DEF ReadingSpec

\* The floor pivots of any bar are in order (core.py, pivot_points).
THEOREM PivotsInOrder ==
  ASSUME NEW b \in Bars, NEW i \in 1 .. 6
  PROVE  PivotLines(b)[i] <= PivotLines(b)[i + 1]
<1>1. /\ b.high \in Nat /\ b.low \in Nat /\ b.close \in Nat
      /\ b.low <= b.close /\ b.close <= b.high
  BY BarFacts
<1> DEFINE p == Typical(b)
           h == 3 * b.high
           l == 3 * b.low
<1>2. p \in Int /\ h \in Int /\ l \in Int /\ l <= p /\ p <= h
  BY <1>1 DEF Typical
<1>3. PivotLines(b) = <<l - (2 * (h - p)), p - (h - l), (2 * p) - h, p, (2 * p) - l, p + (h - l),
                    h + (2 * (p - l))>>
  BY DEF PivotLines
<1> HIDE DEF p, h, l
<1> QED
  BY <1>2, <1>3

-----------------------------------------------------------------------------
(* Arithmetic *)

LEMMA ProductMono ==
  ASSUME NEW a \in Nat, NEW b \in Nat, NEW s \in Nat, NEW t \in Nat, a <= b, s <= t
  PROVE  a * s <= b * t /\ a * s \in Nat /\ b * t \in Nat
<1>1. a * s <= b * s
  BY SMT
<1>2. b * s <= b * t
  BY SMT
<1> QED
  BY <1>1, <1>2, SMT

LEMMA QuotientMono ==
  ASSUME NEW x \in Nat, NEW y \in Nat, NEW k \in Nat \ {0}, x <= y
  PROVE  /\ x \div k <= y \div k
         /\ x \div k \in Nat /\ y \div k \in Nat
  BY SMT

LEMMA ScaleMono ==
  ASSUME NEW a \in Nat, NEW b \in Nat, NEW s \in Nat, NEW t \in Nat, a <= b, s <= t
  PROVE  /\ (a * s) \div 1000 <= (b * t) \div 1000
         /\ (a * s) \div 1000 \in Nat /\ (b * t) \div 1000 \in Nat
  BY ProductMono, QuotientMono

LEMMA ClampMono ==
  ASSUME NEW x \in Int, NEW y \in Int, NEW lo \in Int, NEW hi \in Int, x <= y, lo <= hi
  PROVE  /\ Clamp(x, lo, hi) <= Clamp(y, lo, hi)
         /\ Clamp(x, lo, hi) \in lo .. hi /\ Clamp(y, lo, hi) \in lo .. hi
  BY DEF Clamp, Greatest, Least

-----------------------------------------------------------------------------
(* The tape *)

LEMMA StressMono ==
  ASSUME NEW e \in Evidence, NEW f \in Evidence, Harsher(e, f)
  PROVE  /\ Stress(e) \in Nat /\ Stress(f) \in Nat
         /\ Stress(e) <= Stress(f) /\ Stress(f) <= 1000
<1>0. /\ e.z \in Nat /\ f.z \in Nat /\ e.z <= f.z /\ e.vol \in Nat /\ f.vol = e.vol
      /\ f.bars = e.bars /\ e.gaps \in Nat /\ f.gaps \in Nat /\ e.gaps <= f.gaps
  BY DEF Evidence, Harsher
<1>1. /\ LastMove(e) \in 0 .. 30 /\ LastMove(f) \in 0 .. 30
      /\ LastMove(e) <= LastMove(f)
  <2>1. CASE ~e.material
    BY <1>0, <2>1 DEF LastMove, Least
  <2>2. CASE e.material
    <3>1. f.material
      BY <2>2, Zenon DEF Harsher
    <3> QED
      BY <1>0, <2>2, <3>1 DEF LastMove, Least
  <2> QED
    BY <2>1, <2>2
<1>2. Least(e.gaps, 5) \in 0 .. 5 /\ Least(f.gaps, 5) \in 0 .. 5 /\ Least(e.gaps, 5) <= Least(f.gaps, 5)
  BY <1>0 DEF Least
<1>3. Pressure(e) \in Nat /\ Pressure(f) \in Nat /\ Pressure(e) <= Pressure(f)
  BY <1>0, <1>1, <1>2 DEF Pressure
<1> QED
  BY <1>0, <1>3 DEF Stress, Least

LEMMA CrisisMono ==
  ASSUME NEW e \in Evidence, NEW f \in Evidence, Harsher(e, f), Crisis(e)
  PROVE  Crisis(f)
<1>1. /\ e.z \in Nat /\ f.z \in Nat /\ e.z <= f.z
      /\ f.vol = e.vol /\ f.vratio = e.vratio
  BY DEF Evidence, Harsher
<1>0. Stress(e) \in Nat /\ Stress(f) \in Nat /\ Stress(e) <= Stress(f)
  BY StressMono, SMT
<1>2. CASE Shock(e)
  <2>1. e.material /\ f.material
    BY <1>2, Zenon DEF Shock, Harsher
  <2>2. f.z >= 30
    BY <1>1, <1>2, SMT DEF Shock
  <2> QED
    BY <2>1, <2>2, Zenon DEF Crisis, Shock
<1>3. CASE Stress(e) >= 750
  <2>1. Stress(f) >= 750
    BY <1>0, <1>3, SMT
  <2> QED
    BY <2>1, Zenon DEF Crisis
<1>4. CASE Echoing(e)
  <2>1. e.echo /\ f.echo
    BY <1>4, Zenon DEF Echoing, Harsher
  <2>2. f.vratio >= 12 \/ f.vol >= 65 \/ Stress(f) >= 450
    BY <1>0, <1>1, <1>4, SMT DEF Echoing
  <2> QED
    BY <2>1, <2>2, Zenon DEF Crisis, Echoing
<1> QED
  BY <1>2, <1>3, <1>4, Zenon DEF Crisis

LEMMA CleanMono ==
  ASSUME NEW e \in Evidence, NEW f \in Evidence, Harsher(e, f), Clean(f)
  PROVE  Clean(e)
<1>1. ~f.echo /\ ~e.echo
  BY Zenon DEF Clean, Harsher
<1>0. Stress(e) \in Nat /\ Stress(f) \in Nat /\ Stress(e) <= Stress(f)
  BY StressMono, SMT
<1>2. e.gaps < 3 /\ Stress(e) < 550
  BY <1>0, SMT DEF Clean, Evidence, Harsher
<1> QED
  BY <1>1, <1>2, Zenon DEF Clean

Regimes == {"unknown", "crisis", "gap", "high_vol", "low_vol", "bull_trend", "bear_trend", "range"}

LEMMA RegimeType ==
  ASSUME NEW e
  PROVE  Regime(e) \in Regimes
  BY DEF Regime, Regimes, TrendOf

LEMMA RegimePostureMono ==
  ASSUME NEW e \in Evidence, NEW f \in Evidence, Harsher(e, f)
  PROVE  /\ RegimePosture(Regime(f)) <= RegimePosture(Regime(e))
         /\ RegimePosture(Regime(e)) \in 1 .. 3 /\ RegimePosture(Regime(f)) \in 1 .. 3
<1> USE DEF RegimePosture, DEFENSE, GUARD, NORMAL
<1>1. RegimePosture(Regime(e)) \in 1 .. 3 /\ RegimePosture(Regime(f)) \in 1 .. 3
  BY SMT
<1>2. f.bars = e.bars /\ f.vol = e.vol /\ f.vratio = e.vratio /\ (e.echo => f.echo)
      /\ f.trend = e.trend /\ e.gaps <= f.gaps
      /\ e.gaps \in Nat /\ f.gaps \in Nat /\ e.bars \in Nat /\ e.vol \in Nat /\ e.vratio \in Nat
  BY DEF Harsher, Evidence
<1>3. QuietTape(e) <=> QuietTape(f)
  BY <1>2 DEF QuietTape
<1>4. Ranging(e) <=> Ranging(f)
  BY <1>2 DEF Ranging
<1>5. (Crisis(e) => Crisis(f)) /\ (Clean(f) => Clean(e))
  BY CrisisMono, CleanMono
<1>6. CASE Regime(e) \in {"range", "bull_trend", "bear_trend"}
  BY <1>1, <1>6, SMT
<1>7. CASE Regime(e) = "unknown"
  <2>1. e.bars < 30
    BY <1>7 DEF Regime, TrendOf
  <2> QED
    BY <1>2, <2>1, <1>7 DEF Regime
<1>8. CASE Regime(e) = "crisis"
  <2>1. e.bars >= 30 /\ Crisis(e)
    BY <1>8, <1>2 DEF Regime, TrendOf
  <2> QED
    BY <1>2, <1>5, <2>1, <1>8 DEF Regime
<1>9. CASE Regime(e) = "gap"
  <2>1. e.bars >= 30 /\ e.gaps >= 3 /\ e.vol >= 70
    BY <1>9, <1>2 DEF Regime, TrendOf
  <2> QED
    BY <1>2, <2>1, <1>9 DEF Regime
<1>10. CASE Regime(e) = "low_vol"
  <2>1. e.bars >= 30 /\ QuietTape(e)
    BY <1>10, <1>2 DEF Regime, TrendOf
  <2> QED
    BY <1>2, <1>3, <2>1, <1>10 DEF Regime
<1>11. CASE Regime(e) = "high_vol"
  <2>1. /\ e.bars >= 30
        /\ \/ e.vol >= 90 \/ e.vratio >= 20
           \/ ~Ranging(e) /\ e.echo
    BY <1>11, <1>2 DEF Regime, TrendOf
  <2>2. CASE e.vol >= 90 \/ e.vratio >= 20
    BY <1>2, <2>1, <2>2, <1>11 DEF Regime
  <2>3. CASE ~Ranging(e) /\ e.echo
    <3>1. ~Clean(f)
      BY <1>2, <2>3 DEF Clean
    <3> QED
      BY <1>2, <1>4, <2>1, <2>3, <3>1, <1>11 DEF Regime
  <2> QED
    BY <2>1, <2>2, <2>3
<1> QED
  BY <1>1, <1>6, <1>7, <1>8, <1>9, <1>10, <1>11, RegimeType DEF Regimes

LEMMA StressPostureMono ==
  ASSUME NEW s \in Nat, NEW t \in Nat, s <= t
  PROVE  /\ StressPosture(t) <= StressPosture(s)
         /\ StressPosture(s) \in Nat /\ StressPosture(t) \in Nat
  BY DEF StressPosture, LOCKDOWN, DEFENSE, ATTACK

\* On a harder tape the survivor's posture is never bolder (Survivor.posture_for).
THEOREM PostureMono ==
  ASSUME NEW e \in Evidence, NEW f \in Evidence, NEW p, Harsher(e, f)
  PROVE  /\ PostureFor(f, p) <= PostureFor(e, p)
         /\ PostureFor(e, p) \in 0 .. 3 /\ PostureFor(f, p) \in 0 .. 3
<1>1. StressPosture(Stress(f)) <= StressPosture(Stress(e))
      /\ StressPosture(Stress(e)) \in Nat /\ StressPosture(Stress(f)) \in Nat
  <2>1. Stress(e) \in Nat /\ Stress(f) \in Nat /\ Stress(e) <= Stress(f)
    BY StressMono, SMT
  <2> QED
    BY <2>1, StressPostureMono, SMT
<1> DEFINE te == Least(RegimePosture(Regime(e)), StressPosture(Stress(e)))
           tf == Least(RegimePosture(Regime(f)), StressPosture(Stress(f)))
<1>2. tf <= te /\ te \in 0 .. 3 /\ tf \in 0 .. 3
  BY <1>1, RegimePostureMono DEF Least
<1> HIDE DEF te, tf
<1>3. PostureFor(e, p) =
        IF p.manual THEN LOCKDOWN
        ELSE IF FridayCutoff(p.time)
             THEN Least(IF ~p.otc /\ WeekendLock /\ Weekend(p.time) THEN LOCKDOWN ELSE te, DEFENSE)
             ELSE IF ~p.otc /\ WeekendLock /\ Weekend(p.time) THEN LOCKDOWN ELSE te
  BY DEF PostureFor, te
<1>4. PostureFor(f, p) =
        IF p.manual THEN LOCKDOWN
        ELSE IF FridayCutoff(p.time)
             THEN Least(IF ~p.otc /\ WeekendLock /\ Weekend(p.time) THEN LOCKDOWN ELSE tf, DEFENSE)
             ELSE IF ~p.otc /\ WeekendLock /\ Weekend(p.time) THEN LOCKDOWN ELSE tf
  BY DEF PostureFor, tf
<1> QED
  BY <1>2, <1>3, <1>4 DEF Least, LOCKDOWN, DEFENSE

-----------------------------------------------------------------------------
(* The survivor's tables *)

LEMMA Tables ==
  /\ TableScale[0] = 0 /\ TableScale[1] = 350 /\ TableScale[2] = 650 /\ TableScale[3] = 1000
  /\ MinConfidence[0] = 200 /\ MinConfidence[1] = 72 /\ MinConfidence[2] = 62 /\ MinConfidence[3] = 55
  /\ MaxExpiry[0] = 0 /\ MaxExpiry[1] = 300 /\ MaxExpiry[2] = 600 /\ MaxExpiry[3] = 3600
<1>1. TableScale[0] = 0 /\ TableScale[1] = 350 /\ TableScale[2] = 650 /\ TableScale[3] = 1000
  BY DEF TableScale
<1>2. MinConfidence[0] = 200 /\ MinConfidence[1] = 72 /\ MinConfidence[2] = 62 /\ MinConfidence[3] = 55
  BY DEF MinConfidence
<1>3. MaxExpiry[0] = 0 /\ MaxExpiry[1] = 300 /\ MaxExpiry[2] = 600 /\ MaxExpiry[3] = 3600
  BY DEF MaxExpiry
<1> QED
  BY <1>1, <1>2, <1>3

LEMMA TablesMono ==
  ASSUME NEW q \in 0 .. 3, NEW r \in 0 .. 3, r <= q
  PROVE  /\ TableScale[r] <= TableScale[q] /\ TableScale[r] \in Nat /\ TableScale[q] \in Nat
         /\ MaxExpiry[r] <= MaxExpiry[q] /\ MaxExpiry[r] \in Nat /\ MaxExpiry[q] \in Nat
         /\ MinConfidence[q] <= MinConfidence[r]
         /\ MinConfidence[r] \in Nat /\ MinConfidence[q] \in Nat
<1>1. q \in {0, 1, 2, 3} /\ r \in {0, 1, 2, 3}
  BY SMT
<1> QED
  BY <1>1, Tables, SMT

LEMMA ForbiddenMono ==
  ASSUME NEW q \in 0 .. 3, NEW r \in 0 .. 3, r <= q
  PROVE  Forbidden[q] \subseteq Forbidden[r]
<1>1. /\ Forbidden[1] \subseteq Forbidden[0] /\ Forbidden[2] \subseteq Forbidden[1]
      /\ Forbidden[3] \subseteq Forbidden[2]
  BY DEF Forbidden
<1>2. q \in {0, 1, 2, 3} /\ r \in {0, 1, 2, 3}
  BY SMT
<1> QED
  BY <1>1, <1>2, SMT

-----------------------------------------------------------------------------
(* What a tape does to slippage and to the size of an order *)

LEMMA SessionBound ==
  ASSUME NEW p
  PROVE  SessionScale(p) \in Nat
<1>1. HourScale(p.class, SessionOf(p.time.hour)) \in Nat
  BY DEF HourScale
<1> QED
  BY <1>1 DEF SessionScale, Least

LEMMA SlippageMono ==
  ASSUME NEW e \in Evidence, NEW f \in Evidence, NEW p, Harsher(e, f)
  PROVE  /\ Slippage(e, p) <= Slippage(f, p)
         /\ Slippage(e, p) \in Nat /\ Slippage(f, p) \in Nat
<1> DEFINE storm(s) == IF s > 500 THEN (s - 500) * 8 ELSE 0
           thin == IF SessionScale(p) >= 900 THEN 0
                   ELSE IF SessionScale(p) >= 600 THEN 200 ELSE 600
           cost(x) == Least(Greatest(BaseSlippage, Greatest(x, thin)), 7500)
<1>1. Stress(e) \in Nat /\ Stress(f) \in Nat /\ Stress(e) <= Stress(f)
  BY StressMono, SMT
<1>2. storm(Stress(e)) <= storm(Stress(f))
      /\ storm(Stress(e)) \in Nat /\ storm(Stress(f)) \in Nat
  BY <1>1, SMT
<1>3. thin \in Nat /\ BaseSlippage \in Nat
  BY ConfigAssumption, SMT
<1>4. ASSUME NEW x \in Nat, NEW y \in Nat, x <= y
      PROVE  cost(x) <= cost(y) /\ cost(x) \in Nat /\ cost(y) \in Nat
  <2> HIDE DEF thin
  <2> QED
    BY <1>3, <1>4 DEF Least, Greatest
<1>5. Slippage(e, p) = cost(storm(Stress(e))) /\ Slippage(f, p) = cost(storm(Stress(f)))
  BY DEF Slippage
<1> HIDE DEF storm, cost
<1> QED
  BY <1>2, <1>4, <1>5

LEMMA GovernorBound ==
  ASSUME NEW dd \in Nat
  PROVE  GovernorScale(dd) \in Nat
<1>1. DrawdownCap \in Nat \ {0}
  BY ConfigAssumption, SMT
<1>2. (800 * dd) \div DrawdownCap \in Int
  BY <1>1, SMT
<1> QED
  BY <1>2 DEF GovernorScale, Clamp, Least, Greatest

LEMMA SurvivorScaleMono ==
  ASSUME NEW e \in Evidence, NEW f \in Evidence, NEW p \in Place, Harsher(e, f)
  PROVE  /\ SurvivorScale(f, p) <= SurvivorScale(e, p)
         /\ SurvivorScale(e, p) \in Nat /\ SurvivorScale(f, p) \in Nat
<1> DEFINE table(q) == IF Enabled THEN TableScale[q] ELSE 1000
           panic(s) == PanicScale(s)
           gov == GovernorScale(p.drawdown)
<1>1. gov \in Nat
  BY GovernorBound DEF Place
<1>2. /\ table(PostureFor(f, p)) <= table(PostureFor(e, p))
      /\ table(PostureFor(e, p)) \in Nat /\ table(PostureFor(f, p)) \in Nat
  BY PostureMono, TablesMono
<1>3. Stress(e) \in Nat /\ Stress(f) \in Nat /\ Stress(e) <= Stress(f)
  BY StressMono, SMT
<1>4. /\ panic(Stress(f)) <= panic(Stress(e))
      /\ panic(Stress(e)) \in Nat /\ panic(Stress(f)) \in Nat
  BY <1>3 DEF PanicScale, Greatest
<1> HIDE DEF table, panic, gov
<1> DEFINE calm(q) == (table(q) * gov) \div 1000
<1>5. /\ calm(PostureFor(f, p)) <= calm(PostureFor(e, p))
      /\ calm(PostureFor(e, p)) \in Nat /\ calm(PostureFor(f, p)) \in Nat
  BY <1>1, <1>2, ScaleMono
<1> HIDE DEF calm
<1> DEFINE raw(q, s) == (calm(q) * panic(s)) \div 1000
<1>6. /\ raw(PostureFor(f, p), Stress(f)) <= raw(PostureFor(e, p), Stress(e))
      /\ raw(PostureFor(e, p), Stress(e)) \in Nat /\ raw(PostureFor(f, p), Stress(f)) \in Nat
  BY <1>4, <1>5, ScaleMono
<1>7. /\ SurvivorScale(e, p) = Clamp(raw(PostureFor(e, p), Stress(e)), 0, 1500)
      /\ SurvivorScale(f, p) = Clamp(raw(PostureFor(f, p), Stress(f)), 0, 1500)
  BY DEF SurvivorScale, raw, calm, table, panic, gov
<1> HIDE DEF raw
<1> QED
  BY <1>6, <1>7 DEF Clamp, Least, Greatest

LEMMA DefensiveMono ==
  ASSUME NEW e \in Evidence, NEW f \in Evidence, Harsher(e, f)
  PROVE  /\ Regime(e) \in {"crisis", "gap"} => Regime(f) \in {"crisis", "gap"}
         /\ Defensive(e) => Defensive(f)
<1>1. Regime(e) \in {"crisis", "gap"} => Regime(f) \in {"crisis", "gap"}
  BY RegimePostureMono DEF RegimePosture, DEFENSE, GUARD, NORMAL
<1>2. Stress(e) \in Nat /\ Stress(f) \in Nat /\ Stress(e) <= Stress(f)
  BY StressMono, SMT
<1> QED
  BY <1>1, <1>2 DEF Defensive

LEMMA RegimeScaleType ==
  ASSUME NEW e \in Evidence, NEW p \in Place
  PROVE  RegimeScale(e, p) \in Nat
<1>1. Harsher(e, e)
  BY DEF Harsher, Evidence
<1>2. SurvivorScale(e, p) \in Nat /\ SessionScale(p) \in Nat /\ CrisisScale \in Nat
  BY <1>1, SurvivorScaleMono, SessionBound, ConfigAssumption
<1> DEFINE part == (SurvivorScale(e, p) * SessionScale(p)) \div 1000
<1>3. part \in Nat
  BY <1>2, ProductMono, SMT
<1> HIDE DEF part
<1>4. (part * CrisisScale) \div 1000 \in Nat
  BY <1>2, <1>3, ProductMono, SMT
<1> QED
  BY <1>3, <1>4 DEF RegimeScale, part

LEMMA RegimeScaleMono ==
  ASSUME NEW e \in Evidence, NEW f \in Evidence, NEW p \in Place, Harsher(e, f),
         CrisisScale <= 1000
  PROVE  /\ RegimeScale(f, p) <= RegimeScale(e, p)
         /\ RegimeScale(e, p) \in Nat /\ RegimeScale(f, p) \in Nat
<1> DEFINE part(g) == (SurvivorScale(g, p) * SessionScale(p)) \div 1000
           small(g) == (part(g) * CrisisScale) \div 1000
<1>1. part(f) <= part(e) /\ part(e) \in Nat /\ part(f) \in Nat
  BY SurvivorScaleMono, SessionBound, ScaleMono
<1> HIDE DEF part
<1>2. CrisisScale \in Nat /\ CrisisScale <= 1000
  BY ConfigAssumption, SMT
<1>3. small(f) <= small(e) /\ small(e) \in Nat /\ small(f) \in Nat
  BY <1>1, <1>2, ScaleMono
<1>4. small(e) <= (part(e) * 1000) \div 1000 /\ small(f) <= (part(f) * 1000) \div 1000
  BY <1>1, <1>2, ScaleMono
<1>5. (part(e) * 1000) \div 1000 = part(e) /\ (part(f) * 1000) \div 1000 = part(f)
  BY <1>1, SMT
<1> HIDE DEF small
<1>6. /\ RegimeScale(e, p) = IF Defensive(e) THEN small(e) ELSE part(e)
      /\ RegimeScale(f, p) = IF Defensive(f) THEN small(f) ELSE part(f)
  BY DEF RegimeScale, small, part
<1> QED
  BY <1>1, <1>3, <1>4, <1>5, <1>6, DefensiveMono

LEMMA FullStake ==
  ASSUME NEW p \in Place, NEW conf \in 0 .. 100
  PROVE  ByDrawdown(ByConfidence(VolScaled(p.balance), conf), p.drawdown) \in Nat
<1>1. VolScaled(p.balance) \in Nat
  <2>1. p.balance \in Nat /\ StakeFraction \in Nat /\ MinStake \in Nat /\ MaxStake \in Nat
    BY ConfigAssumption DEF Place
  <2>2. p.balance * StakeFraction \in Nat
    BY <2>1, SMT
  <2>3. (p.balance * StakeFraction) \div 1000 \in Nat
    BY <2>2, SMT
  <2> QED
    BY <2>1, <2>3 DEF VolScaled, Clamp, Least, Greatest
<1>2. ASSUME NEW x \in Nat PROVE ByConfidence(x, conf) \in Nat
  <2>1. Clamp(50 + 2 * (conf - 40), 50, 150) \in Nat
    BY DEF Clamp, Least, Greatest
  <2> HIDE DEF Clamp
  <2>2. x * Clamp(50 + 2 * (conf - 40), 50, 150) \in Nat
    BY <2>1, SMT
  <2> QED
    BY <2>2 DEF ByConfidence
<1>3. ASSUME NEW x \in Nat PROVE ByDrawdown(x, p.drawdown) \in Nat
  <2>1. p.drawdown \in Nat /\ DrawdownCap \in Nat /\ DrawdownCap > 0
    BY ConfigAssumption DEF Place
  <2> DEFINE dd == Least(p.drawdown, DrawdownCap)
  <2>2. dd \in Nat /\ dd <= DrawdownCap
    BY <2>1 DEF Least
  <2> HIDE DEF dd
  <2>3. (700 * dd) \div DrawdownCap \in Nat /\ (700 * dd) \div DrawdownCap <= 700
    BY <2>1, <2>2, SMT
  <2>4. 1000 - (700 * dd) \div DrawdownCap \in Nat
    BY <2>3, SMT
  <2>5. x * (1000 - (700 * dd) \div DrawdownCap) \in Nat
    BY <2>4, SMT
  <2> QED
    BY <2>5 DEF ByDrawdown, dd
<1> QED
  BY <1>1, <1>2, <1>3

LEMMA ScaledMono ==
  ASSUME NEW x \in Nat, NEW s \in Nat, NEW t \in Nat, s <= t
  PROVE  ByScale(x, s) <= ByScale(x, t) /\ ByScale(x, s) \in Nat /\ ByScale(x, t) \in Nat
<1>1. /\ (x * s) \div 1000 <= (x * t) \div 1000
      /\ (x * s) \div 1000 \in Nat /\ (x * t) \div 1000 \in Nat
  BY ScaleMono
<1>2. s < 1000 => (x * s) \div 1000 <= (x * 1000) \div 1000
  BY ScaleMono
<1>3. (x * 1000) \div 1000 = x
  BY SMT
<1> QED
  BY <1>1, <1>2, <1>3 DEF ByScale

LEMMA RoundedMono ==
  ASSUME NEW x \in Nat, NEW y \in Nat, x <= y
  PROVE  /\ StakeRound(Greatest(MinStake \div 2, x)) <= StakeRound(Greatest(MinStake \div 2, y))
         /\ StakeRound(Greatest(MinStake \div 2, x)) \in Nat
         /\ StakeRound(Greatest(MinStake \div 2, y)) \in Nat
<1>1. MinStake \div 2 \in Nat
  BY ConfigAssumption, SMT
<1> DEFINE floor == MinStake \div 2
<1> HIDE DEF floor
<1>2. /\ Greatest(floor, x) <= Greatest(floor, y)
      /\ Greatest(floor, x) \in Nat /\ Greatest(floor, y) \in Nat
  BY <1>1 DEF floor, Greatest
<1> QED
  BY <1>2, QuotientMono DEF StakeRound, floor

\* Whatever the tape, the hour and the confidence, an order is never sized
\* outside half the smallest and the largest stake (RiskManager.size_stake).
THEOREM StakeBand ==
  ASSUME NEW e \in Evidence, NEW p \in Place, NEW conf \in 0 .. 100
  PROVE  /\ SizeStake(e, p, conf) \in Nat
         /\ MinStake \div 2 <= SizeStake(e, p, conf) /\ SizeStake(e, p, conf) <= MaxStake
<1>2. RegimeScale(e, p) \in Nat
  BY RegimeScaleType
<1>3. /\ MinStake \div 2 \in Nat /\ MaxStake \in Nat /\ MinStake \div 2 <= MaxStake
  BY ConfigAssumption, SMT
<1> DEFINE full == ByDrawdown(ByConfidence(VolScaled(p.balance), conf), p.drawdown)
           cut  == ByScale(full, RegimeScale(e, p))
<1>4. cut \in Nat
  <2>1. full \in Nat
    BY FullStake
  <2> HIDE DEF full
  <2>2. RegimeScale(e, p) <= RegimeScale(e, p)
    BY <1>2, SMT
  <2> QED
    BY <1>2, <2>1, <2>2, ScaledMono
<1>5. StakeRound(Greatest(MinStake \div 2, cut)) \in Nat
  <2> HIDE DEF cut
  <2> QED
    BY <1>4, RoundedMono
<1> HIDE DEF cut
<1>6. SizeStake(e, p, conf) = Clamp(StakeRound(Greatest(MinStake \div 2, cut)), MinStake \div 2, MaxStake)
  BY DEF SizeStake, cut, full
<1> DEFINE x == StakeRound(Greatest(MinStake \div 2, cut))
           lo == MinStake \div 2
<1> HIDE DEF x, lo
<1> QED
  BY <1>3, <1>5, <1>6 DEF Clamp, Least, Greatest, x, lo

LEMMA SizeMono ==
  ASSUME NEW e \in Evidence, NEW f \in Evidence, NEW p \in Place, NEW conf \in 0 .. 100,
         Harsher(e, f), CrisisScale <= 1000
  PROVE  SizeStake(f, p, conf) <= SizeStake(e, p, conf)
<1> DEFINE full == ByDrawdown(ByConfidence(VolScaled(p.balance), conf), p.drawdown)
<1>1. full \in Nat
  BY FullStake
<1> HIDE DEF full
<1> DEFINE cut(g) == ByScale(full, RegimeScale(g, p))
           round(g) == StakeRound(Greatest(MinStake \div 2, cut(g)))
<1>2. cut(f) <= cut(e) /\ cut(e) \in Nat /\ cut(f) \in Nat
  BY <1>1, RegimeScaleMono, ScaledMono
<1> HIDE DEF cut
<1>3. round(f) <= round(e) /\ round(e) \in Nat /\ round(f) \in Nat
  BY <1>2, RoundedMono
<1> HIDE DEF round
<1>4. MinStake \div 2 \in Nat /\ MaxStake \in Nat /\ MinStake \div 2 <= MaxStake
  BY ConfigAssumption, SMT
<1>5. /\ SizeStake(e, p, conf) = Clamp(round(e), MinStake \div 2, MaxStake)
      /\ SizeStake(f, p, conf) = Clamp(round(f), MinStake \div 2, MaxStake)
  BY DEF SizeStake, round, cut, full
<1> DEFINE lo == MinStake \div 2
<1> HIDE DEF lo
<1> QED
  BY <1>3, <1>4, <1>5 DEF Clamp, Least, Greatest, lo

-----------------------------------------------------------------------------
(* What may be played *)

LEMMA PlayableMono ==
  ASSUME NEW e \in Evidence, NEW f \in Evidence, NEW p \in Place, NEW c \in Candidate,
         Harsher(e, f), Playable(f, p, c), TrendFilter => WithTrend(e, c)
  PROVE  Playable(e, p, c)
<1> DEFINE q == PostureFor(e, p)
           r == PostureFor(f, p)
<1>1. r <= q /\ q \in 0 .. 3 /\ r \in 0 .. 3 /\ q \in Nat /\ r \in Nat
  BY PostureMono
<1> HIDE DEF q, r
<1>2. /\ r # LOCKDOWN
      /\ p.liquidity >= LiquidityFloor /\ p.spread <= SpreadLimit
      /\ Slippage(f, p) <= MaxSlippage
      /\ c.expiry <= MaxExpiry[r] /\ c.conf >= MinConfidence[r]
      /\ c.family \notin Forbidden[r]
      /\ Regime(f) \in {"crisis", "gap"} => c.family \notin {"meanrev", "pattern"}
  BY DEF Playable, r
<1>3. q # LOCKDOWN
  BY <1>1, <1>2 DEF LOCKDOWN
<1>4. Slippage(e, p) <= MaxSlippage
  <2>1. MaxSlippage \in Nat
    BY ConfigAssumption, SMT
  <2> QED
    BY <1>2, <2>1, SlippageMono
<1>5. c.expiry <= MaxExpiry[q] /\ c.conf >= MinConfidence[q]
  <2>1. c.expiry \in Nat /\ c.conf \in Nat
    BY DEF Candidate
  <2> QED
    BY <1>1, <1>2, <2>1, TablesMono
<1>6. c.family \notin Forbidden[q]
  BY <1>1, <1>2, ForbiddenMono
<1>7. Regime(e) \in {"crisis", "gap"} => c.family \notin {"meanrev", "pattern"}
  BY <1>2, DefensiveMono
<1> QED
  BY <1>2, <1>3, <1>4, <1>5, <1>6, <1>7 DEF Playable, q

\* The playbook heeds harder times: bolder, bigger or freer on the harder of
\* two tapes is not possible (Survivor.evaluate, RiskManager.size_stake), save
\* that the trend filter has no trend to hold to on an unclean tape.  The
\* configuration does not bound crisis_stake_scale: over 1 it would grow stakes.
THEOREM HarderTimesHeeded ==
  ASSUME NEW e \in Evidence, NEW f \in Evidence, NEW p \in Place, NEW c \in Candidate,
         CrisisScale <= 1000
  PROVE  Heeded(e, f, p, c)
<1> SUFFICES ASSUME Harsher(e, f)
             PROVE  /\ PostureFor(f, p) <= PostureFor(e, p)
                    /\ SizeStake(f, p, c.conf) <= SizeStake(e, p, c.conf)
                    /\ Allowed(f, p, c) =>
                         Allowed(e, p, c) \/ (Enabled /\ TrendFilter /\ ~WithTrend(e, c))
  BY DEF Heeded
<1>1. PostureFor(f, p) <= PostureFor(e, p)
  BY PostureMono
<1>2. SizeStake(f, p, c.conf) <= SizeStake(e, p, c.conf)
  <2>1. c.conf \in 0 .. 100
    BY DEF Candidate
  <2> QED
    BY <2>1, SizeMono
<1>3. ASSUME Allowed(f, p, c), ~(Enabled /\ TrendFilter /\ ~WithTrend(e, c))
      PROVE  Allowed(e, p, c)
  <2>1. CASE ~Enabled
    BY <1>3, <2>1 DEF Allowed
  <2>2. CASE Enabled
    <3>1. Playable(e, p, c)
      BY <1>3, <2>2, PlayableMono DEF Allowed
    <3> QED
      BY <1>3, <3>1 DEF Allowed
  <2> QED
    BY <2>1, <2>2
<1> QED
  BY <1>1, <1>2, <1>3

\* In crisis and gap the survivor stands in DEFENSE or LOCKDOWN, whatever the
\* hour (scenario_expectations), and a stressed tape (over 0.6) is never traded
\* with the default slippage limit of 8 bps: the table of DEFENSE is then moot.
THEOREM CrisisStandsDown ==
  ASSUME NEW e \in Evidence, NEW p \in Place, NEW c \in Candidate
  PROVE  /\ Regime(e) \in {"crisis", "gap"} => PostureFor(e, p) <= DEFENSE
         /\ Enabled /\ MaxSlippage <= 800 /\ Stress(e) > 600 => ~Allowed(e, p, c)
<1>1. Harsher(e, e)
  BY DEF Harsher, Evidence
<1>2. ASSUME Regime(e) \in {"crisis", "gap"} PROVE PostureFor(e, p) <= DEFENSE
  <2>1. RegimePosture(Regime(e)) = 1
    BY <1>2 DEF RegimePosture, DEFENSE
  <2>2. StressPosture(Stress(e)) \in Nat
    BY DEF StressPosture, LOCKDOWN, DEFENSE, ATTACK
  <2>3. Least(RegimePosture(Regime(e)), StressPosture(Stress(e))) \in {0, 1}
    BY <2>1, <2>2 DEF Least
  <2> QED
    BY <2>3 DEF PostureFor, Least, LOCKDOWN, DEFENSE
<1>3. ASSUME Enabled, MaxSlippage <= 800, Stress(e) > 600 PROVE ~Allowed(e, p, c)
  <2>1. /\ Stress(e) \in Nat /\ Slippage(e, p) \in Nat
    BY <1>1, StressMono, SlippageMono
  <2>2. (Stress(e) - 500) * 8 \in Nat /\ (Stress(e) - 500) * 8 > 800
    BY <1>3, <2>1, SMT
  <2>3. Stress(e) > 500
    BY <1>3, <2>1, SMT
  <2> DEFINE thin == IF SessionScale(p) >= 900 THEN 0
                     ELSE IF SessionScale(p) >= 600 THEN 200 ELSE 600
             x == (Stress(e) - 500) * 8
  <2>4. thin \in Nat /\ BaseSlippage \in Nat /\ MaxSlippage \in Nat
    BY ConfigAssumption, SMT
  <2>5. Slippage(e, p) = Least(Greatest(BaseSlippage, Greatest(x, thin)), 7500)
    BY <2>3 DEF Slippage
  <2>6. x \in Nat /\ x > 800
    BY <2>2
  <2> HIDE DEF x, thin
  <2>7. Slippage(e, p) > 800
    BY <2>4, <2>5, <2>6 DEF Least, Greatest
  <2>8. ~(Slippage(e, p) <= MaxSlippage)
    BY <1>3, <2>1, <2>4, <2>7, SMT
  <2> QED
    BY <1>3, <2>8 DEF Allowed, Playable
<1> QED
  BY <1>2, <1>3

\* The gate that is meant to shrink a stake on a thin edge grows one that sizing
\* put under the minimum (a posture or session scale can: StakeBand): it is
\* raised to the minimum, however thin the edge.  That is the only stake it
\* raises (TradingEngine._try_execute).
THEOREM EdgeGateRaisesToTheMinimum ==
  ASSUME NEW stake \in Nat, NEW edge \in Nat, Gate = "scale", edge < MinEdge
  PROVE  /\ stake < MinStake => ByEdge(stake, edge) = MinStake
         /\ stake < MinStake <=> ByEdge(stake, edge) > stake
<1>1. /\ MinStake \in Nat /\ MinEdge \in Nat \ {0}
  BY ConfigAssumption, SMT
<1> DEFINE part == Greatest(250, (1000 * edge) \div MinEdge)
           cut == (stake * part) \div 1000
<1>2. (1000 * edge) \div MinEdge \in Nat /\ (1000 * edge) \div MinEdge <= 1000
  BY <1>1, SMT
<1>3. part \in Nat /\ part <= 1000
  BY <1>2 DEF Greatest
<1> HIDE DEF part
<1>4. stake * part \in Nat /\ stake * part <= stake * 1000
  BY <1>3, ProductMono, SMT
<1>5. cut \in Nat /\ cut <= stake
  BY <1>4, SMT
<1>6. ByEdge(stake, edge) = Greatest(MinStake, cut)
  BY DEF ByEdge, part
<1> HIDE DEF cut
<1> QED
  BY <1>1, <1>5, <1>6 DEF Greatest

-----------------------------------------------------------------------------
(* The loop *)

\* A check that comes to its end leaves exactly the decaying of the names that
\* speak in the ward.
LEMMA WardedSpeaks ==
  ASSUME NEW js, NEW n \in Speakers(js)
  PROVE  n \in Warded(js) <=> Decaying(js, n)
  BY DEF Warded, Seen

\* Whatever earlier checks left half done, one that comes to its end puts the
\* quarantine ward in step with the journal and with the ensemble
\* (TradingEngine._check_decay, strategy_decay).
THEOREM WardInStep == Spec => []WardFollowsJournal
<1>1. Init => WardFollowsJournal
  BY DEF Init, WardFollowsJournal
<1>2. ASSUME WardFollowsJournal, [Next]_vars PROVE WardFollowsJournal'
  <2>1. ASSUME UNCHANGED <<rows, ward, skipped, checked>> PROVE WardFollowsJournal'
    <3>1. rows' = rows /\ ward' = ward /\ skipped' = skipped /\ checked' = checked
      BY <2>1
    <3>2. Speakers(rows') = Speakers(rows) /\ \A n : Decaying(rows', n) = Decaying(rows, n)
      BY <3>1
    <3> QED
      BY <1>2, <3>1, <3>2 DEF WardFollowsJournal
  <2>2. CASE Candle
    BY <2>1, <2>2 DEF Candle
  <2>3. CASE Execute
    BY <2>1, <2>3 DEF Execute
  <2>4. CASE InjectSignal
    BY <2>1, <2>4 DEF InjectSignal
  <2>5. CASE Settle
    <3>1. CheckDecay
      BY <2>5 DEF Settle
    <3>2. CASE checked' = FALSE
      BY <3>2 DEF WardFollowsJournal
    <3>3. CASE checked' = TRUE
      <4>1. ward' = Warded(rows') /\ skipped' = ward'
        BY <3>1, <3>3 DEF CheckDecay, WardAfter
      <4>2. \A n \in Speakers(rows') : n \in ward' <=> Decaying(rows', n)
        BY <4>1, WardedSpeaks
      <4> QED
        BY <4>1, <4>2 DEF WardFollowsJournal
    <3> QED
      BY <3>1, <3>2, <3>3 DEF CheckDecay
  <2>6. CASE Boot
    BY <2>1, <2>6 DEF Boot
  <2>7. ASSUME Gone PROVE WardFollowsJournal'
    BY <2>7 DEF Gone, WardFollowsJournal
  <2>8. CASE Release
    BY <2>7, <2>8 DEF Release
  <2>9. CASE Crash
    BY <2>7, <2>9 DEF Crash
  <2>10. CASE PersistCalibration
    BY <2>1, <2>10 DEF PersistCalibration
  <2>11. CASE UNCHANGED vars
    BY <2>1, <2>11 DEF vars
  <2> QED
    BY <1>2, <2>2, <2>3, <2>4, <2>5, <2>6, <2>8, <2>9, <2>10, <2>11 DEF Next
<1> QED
  BY <1>1, <1>2, PTL DEF Spec

\* What the loop is about to try is a candidate on one of the tapes.
Planned ==
  /\ tape \in Tapes
  /\ plan # NoPlan => plan.side \in {"call", "put"} /\ plan.conf \in SignalConfs

LEMMA PlansAreCandidates == Spec => []Planned
<1>1. Init => Planned
  BY DEF Init, Planned
<1>2. ASSUME Planned, [Next]_vars PROVE Planned'
  <2>1. ASSUME tape' = tape, plan' = plan \/ plan' = NoPlan PROVE Planned'
    BY <1>2, <2>1 DEF Planned
  <2>2. CASE Candle
    <3>1. PICK e \in Tapes :
            /\ tape' = e
            /\ \/ \E calls \in SUBSET Asked : \E puts \in SUBSET (Asked \ calls), side \in {"call", "put"}, conf \in SignalConfs :
                    /\ Carried(calls, puts, side, e)
                    /\ plan' = [from |-> Blob, side |-> side, conf |-> conf, votes |-> calls \cup puts,
                                name |-> Attributed(IF side = "call" THEN calls ELSE puts)]
               \/ plan' = plan
      BY <2>2 DEF Candle
    <3>2. CASE plan' = plan
      BY <1>2, <3>1, <3>2 DEF Planned
    <3>3. CASE plan' # plan
      <4>1. \E calls \in SUBSET Asked : \E puts \in SUBSET (Asked \ calls), side \in {"call", "put"}, conf \in SignalConfs :
              plan' = [from |-> Blob, side |-> side, conf |-> conf, votes |-> calls \cup puts,
                       name |-> Attributed(IF side = "call" THEN calls ELSE puts)]
        BY <3>1, <3>3, Zenon
      <4>2. \E side \in {"call", "put"}, conf \in SignalConfs : plan'.side = side /\ plan'.conf = conf
        BY <4>1
      <4> QED
        BY <3>1, <4>2 DEF Planned
    <3> QED
      BY <3>2, <3>3
  <2>3. CASE Execute
    BY <2>1, <2>3 DEF Execute
  <2>4. CASE InjectSignal
    BY <2>1, <2>4 DEF InjectSignal
  <2>5. CASE Settle
    BY <2>1, <2>5 DEF Settle
  <2>6. CASE Boot
    BY <2>1, <2>6 DEF Boot
  <2>7. CASE Release
    BY <2>1, <2>7 DEF Release, Gone
  <2>8. CASE Crash
    BY <2>1, <2>8 DEF Crash, Gone
  <2>9. CASE PersistCalibration
    BY <2>1, <2>9 DEF PersistCalibration
  <2>10. CASE UNCHANGED vars
    BY <2>1, <2>10 DEF vars
  <2> QED
    BY <1>2, <2>2, <2>3, <2>4, <2>5, <2>6, <2>7, <2>8, <2>9, <2>10 DEF Next
<1> QED
  BY <1>1, <1>2, PTL DEF Spec

\* Whatever the loop is about to try, a harder tape would not have treated it
\* more freely, as long as crisis_stake_scale does not grow stakes
\* (Survivor.evaluate, RiskManager.size_stake).
THEOREM TapeIsHeeded ==
  ASSUME CrisisScale <= 1000
  PROVE  Spec => []TapeHeeded
<1>1. ASSUME Planned PROVE TapeHeeded
  <2>1. ASSUME plan # NoPlan, NEW f \in Tapes, NEW p \in Places
        PROVE  Heeded(tape, f, p, CandidateOf(plan))
    <3>1. tape \in Evidence /\ f \in Evidence /\ p \in Place
      BY <1>1, <2>1, LoopAssumption DEF Planned
    <3>2. CandidateOf(plan) \in Candidate
      <4>1. plan.side \in {"call", "put"} /\ plan.conf \in 0 .. 100
        BY <1>1, <2>1, LoopAssumption DEF Planned
      <4>2. Expiry \in Nat
        BY DEF Expiry
      <4>3. "ensemble" \in Families
        BY DEF Families
      <4> QED
        BY <4>1, <4>2, <4>3, Zenon DEF CandidateOf, Candidate
    <3> QED
      BY <3>1, <3>2, HarderTimesHeeded
  <2> QED
    BY <2>1 DEF TapeHeeded
<1>2. Planned => TapeHeeded
  BY <1>1
<1> QED
  BY <1>2, PlansAreCandidates, PTL

\* What a session knows that the file may lack, or nothing at all.
Ahead(b) == file # <<>> => b.observed = 0 \/ b.observed >= file[1].observed

\* While every session boots after the one before has saved, at most one has
\* still to save and none is up meanwhile; the file then holds at most what that
\* one or the one that is up knows, as long as every boot could read it.
LessonsInv ==
  /\ book.observed \in Nat /\ \A b \in late : b.observed \in Nat
  /\ file # <<>> => file[1].observed \in Nat
  /\ up # "up" => book.observed = 0
  /\ ~overlap => (up # "down" => late = {}) /\ \A b, c \in late : b = c
  /\ ~overlap /\ ~unread /\ up = "up" /\ file # <<>> => book.observed >= file[1].observed
  /\ ~overlap /\ ~unread => \A b \in late : Ahead(b)
  /\ plan # NoPlan => plan.votes \subseteq Members
  /\ \A o \in open : o.votes \subseteq Members

\* A settlement teaches one lesson for the name on the order and one for each
\* voter.
LEMMA LessonsCounted ==
  ASSUME NEW o, NEW won, o.votes \subseteq Members, book.observed \in Nat
  PROVE  /\ Lessons(o, won).observed \in Nat
         /\ Lessons(o, won).observed >= book.observed
<1> DEFINE b == Observe(book, TaughtAs(o.name), o.conf, won, o.regime)
<1>1. b.observed = book.observed + 1
  BY DEF Observe
<1>2. Lessons(o, won).observed = b.observed + Cardinality(o.votes)
  BY DEF Lessons, ObserveVotes
<1>3. Cardinality(o.votes) \in Nat
  BY LoopAssumption, FS_Subset, FS_CardinalityType
<1> QED
  BY <1>1, <1>2, <1>3

\* Orders carry the voters of the plan they came from.
LEMMA OrdersKeepVotes ==
  ASSUME NEW s, NEW e, s.votes \subseteq Members, LessonsInv, TryExecute(s, e)
  PROVE  \A o \in open' : o.votes \subseteq Members
<1>1. Order(s, e).votes = s.votes
  BY DEF Order
<1> QED
  BY <1>1 DEF TryExecute, LessonsInv

LEMMA LessonsInvInit == Init => LessonsInv
  BY DEF Init, LessonsInv, Blank

\* The steps that leave the sessions' books and the file alone.
LEMMA LessonsRest ==
  ASSUME LessonsInv, UNCHANGED <<up, late, book, file, unread, overlap>>,
         plan' = NoPlan \/ plan' = plan \/ plan'.votes \subseteq Members,
         \A o \in open' : o.votes \subseteq Members
  PROVE  LessonsInv' /\ KeepsLessons
<1>1. KeepsLessons
  BY DEF LessonsInv, KeepsLessons
<1>2. \A b \in late : Ahead(b) <=> Ahead(b)'
  BY DEF Ahead
<1> QED
  BY <1>1, <1>2 DEF LessonsInv

LEMMA LessonsSettle ==
  ASSUME LessonsInv, Settle
  PROVE  LessonsInv' /\ KeepsLessons
<1>1. PICK o \in open, won \in BOOLEAN : open' = open \ {o} /\ book' = Lessons(o, won)
  BY DEF Settle
<1>2. book'.observed \in Nat /\ book'.observed >= book.observed
  BY <1>1, LessonsCounted DEF LessonsInv
<1>3. UNCHANGED <<up, late, plan, file, unread, overlap>> /\ up = "up"
  BY DEF Settle
<1>4. KeepsLessons
  BY <1>3 DEF LessonsInv, KeepsLessons
<1>5. \A b \in late : Ahead(b) <=> Ahead(b)'
  BY <1>3 DEF Ahead
<1> QED
  BY <1>1, <1>2, <1>3, <1>4, <1>5 DEF LessonsInv

LEMMA LessonsBoot ==
  ASSUME LessonsInv, Boot
  PROVE  LessonsInv' /\ KeepsLessons
<1>1. UNCHANGED <<late, plan, file>> /\ up = "down" /\ overlap' = (overlap \/ late # {})
  BY DEF Boot
<1>2. KeepsLessons
  BY <1>1 DEF LessonsInv, KeepsLessons
<1>3. \A b \in late : Ahead(b) <=> Ahead(b)'
  BY <1>1 DEF Ahead
<1>4. ~overlap' => ~overlap /\ late' = {}
  BY <1>1
<1>5. \A o \in open' : o.votes \subseteq Members
  <2>1. CASE Adopted
    <3>1. CASE open' = open
      BY <3>1 DEF LessonsInv
    <3>2. CASE open' = {Stray}
      <4>1. Stray.votes = {}
        BY DEF Stray
      <4> QED
        BY <3>2, <4>1
    <3> QED
      BY <2>1, <3>1, <3>2 DEF Adopted
  <2>2. CASE UNCHANGED open
    BY <2>2 DEF LessonsInv
  <2> QED
    BY <2>1, <2>2 DEF Boot
<1>6. CASE up' = "up" /\ book' = (IF file = <<>> THEN Blank ELSE file[1]) /\ UNCHANGED unread
  <2>1. book'.observed \in Nat /\ (file # <<>> => book'.observed >= file[1].observed)
    BY <1>6 DEF LessonsInv, Blank
  <2> QED
    BY <1>1, <1>2, <1>3, <1>4, <1>5, <1>6, <2>1 DEF LessonsInv
<1>7. CASE up' = "up" /\ file # <<>> /\ book' = Blank /\ unread' = TRUE
  <2>1. book'.observed = 0
    BY <1>7 DEF Blank
  <2> QED
    BY <1>1, <1>2, <1>3, <1>4, <1>5, <1>7, <2>1 DEF LessonsInv
<1>8. CASE up' = "refused" /\ UNCHANGED <<book, unread>>
  BY <1>1, <1>2, <1>3, <1>4, <1>5, <1>8 DEF LessonsInv
<1> QED
  BY <1>6, <1>7, <1>8 DEF Boot

\* A session that goes leaves nothing behind but, on an orderly way out, its book.
LEMMA LessonsGone ==
  ASSUME LessonsInv, up # "down", Gone, late' = late \cup {book} \/ late' = late
  PROVE  LessonsInv' /\ KeepsLessons
<1>1. /\ up' = "down" /\ plan' = NoPlan /\ open' = {} /\ book'.observed = 0
      /\ UNCHANGED <<file, unread, overlap>>
  BY DEF Gone, Blank
<1>2. KeepsLessons
  BY <1>1 DEF LessonsInv, KeepsLessons
<1>3. \A b : Ahead(b)' <=> Ahead(b)
  BY <1>1 DEF Ahead
<1>4. ~overlap => late = {} /\ \A b, c \in late' : b = c
  BY DEF LessonsInv
<1>5. ~overlap /\ ~unread => Ahead(book)
  BY DEF LessonsInv, Ahead
<1> QED
  BY <1>1, <1>2, <1>3, <1>4, <1>5 DEF LessonsInv

\* With no overlap the session that saves is the only one left.
LEMMA LessonsPersist ==
  ASSUME LessonsInv, PersistCalibration
  PROVE  /\ LessonsInv'
         /\ ~unread /\ ~overlap => KeepsLessons
<1>1. PICK b \in late : late' = late \ {b} /\ file' \in {file, Saved(b, file)}
  BY DEF PersistCalibration
<1>2. UNCHANGED <<up, plan, open, book, unread, overlap>>
  BY DEF PersistCalibration
<1>3. file' = file \/ (file' = <<b>> /\ ~(b.observed = 0 /\ file # <<>>))
  BY <1>1 DEF Saved
<1>4. file' = <<b>> => file' # <<>> /\ file'[1] = b
  OBVIOUS
<1>5. b.observed \in Nat
  BY <1>1 DEF LessonsInv
<1>6. file' # <<>> => file'[1].observed \in Nat
  BY <1>3, <1>4, <1>5 DEF LessonsInv
<1>7. ~overlap => late' = {} /\ up = "down"
  BY <1>1 DEF LessonsInv
<1>8. ~unread /\ ~overlap => Ahead(b)
  BY <1>1 DEF LessonsInv
<1>9. ~unread /\ ~overlap => KeepsLessons
  BY <1>3, <1>4, <1>5, <1>8 DEF LessonsInv, KeepsLessons, Ahead
<1>10. LessonsInv'
  BY <1>1, <1>2, <1>6, <1>7 DEF LessonsInv
<1> QED
  BY <1>9, <1>10

LEMMA LessonsInvNext ==
  ASSUME LessonsInv, [Next]_vars
  PROVE  /\ LessonsInv'
         /\ ~unread /\ ~overlap => KeepsLessons
<1>1. CASE Candle
  <2>1. plan' = plan \/ plan'.votes \subseteq Members
    BY <1>1 DEF Candle, Asked
  <2> QED
    BY <1>1, <2>1, LessonsRest DEF Candle, LessonsInv
<1>2. CASE Execute
  <2>1. plan.votes \subseteq Members /\ TryExecute(plan, tape)
    BY <1>2 DEF Execute, LessonsInv
  <2> QED
    BY <1>2, <2>1, LessonsRest, OrdersKeepVotes DEF Execute
<1>3. CASE InjectSignal
  <2>1. PICK side \in {"call", "put"}, conf \in SignalConfs :
          TryExecute([from |-> Manual, side |-> side, conf |-> conf, votes |-> {}, name |-> Manual], tape)
    BY <1>3 DEF InjectSignal
  <2>2. \A o \in open' : o.votes \subseteq Members
    BY <2>1, OrdersKeepVotes
  <2> QED
    BY <1>3, <2>2, LessonsRest DEF InjectSignal
<1>4. CASE Settle
  BY <1>4, LessonsSettle
<1>5. CASE Boot
  BY <1>5, LessonsBoot
<1>6. CASE Release
  BY <1>6, LessonsGone DEF Release
<1>7. CASE PersistCalibration
  BY <1>7, LessonsPersist
<1>8. CASE Crash
  BY <1>8, LessonsGone DEF Crash
<1>9. CASE UNCHANGED vars
  BY <1>9, LessonsRest DEF vars, LessonsInv
<1> QED
  BY <1>1, <1>2, <1>3, <1>4, <1>5, <1>6, <1>7, <1>8, <1>9 DEF Next

\* What the calibrator's file knows is never replaced by less, unless a boot
\* could not read it or came before an earlier session's save, whatever the
\* sessions, crashes and failed saves (CalibrationTracker.save).
THEOREM LessonsAreKept == Spec => LessonsKept
<1>1. LessonsInv /\ [Next]_vars => LessonsInv'
  BY LessonsInvNext
<1>2. LessonsInv /\ [Next]_vars => [~unread /\ ~overlap => KeepsLessons]_vars
  BY LessonsInvNext
<1> QED
  BY LessonsInvInit, <1>1, <1>2, PTL DEF Spec, LessonsKept

=============================================================================
