------------------------------ MODULE Patterns ------------------------------
(***************************************************************************)
(* Candlestick patterns and the strategies that trade them.  Prices are    *)
(* whole ticks.  A mark is 1 (bullish), -1 (bearish) or 0.  A window s of   *)
(* bars is given by how far back a bar lies: s[0] is the newest.           *)
(* The code floors a flat bar's range at 1e-12, which no wick or body of a *)
(* flat bar reaches: here a flat bar has no shape.                         *)
(***************************************************************************)
EXTENDS Integers

Low2(a, b)  == IF a <= b THEN a ELSE b
High2(a, b) == IF a >= b THEN a ELSE b
Abs(x)      == IF x >= 0 THEN x ELSE -x

\* The open and the close lie within the bar.
Bar == {b \in [o : Int, h : Int, l : Int, c : Int] :
          b.l <= Low2(b.o, b.c) /\ High2(b.o, b.c) <= b.h}

Body(b)      == Abs(b.c - b.o)
Height(b)    == b.h - b.l
UpperWick(b) == b.h - High2(b.o, b.c)
LowerWick(b) == Low2(b.o, b.c) - b.l
Up(b)        == b.c > b.o
Down(b)      == b.c < b.o

Mark(up, down) == IF up THEN 1 ELSE IF down THEN -1 ELSE 0

-----------------------------------------------------------------------------
(* The detectors *)

\* A long lower shadow, a small body, hardly an upper shadow.
HammerShape(b) ==
  /\ Height(b) > 0
  /\ 100 * LowerWick(b) >= 55 * Height(b) /\ 100 * Body(b) <= 35 * Height(b)
  /\ 100 * UpperWick(b) <= 15 * Height(b)
  /\ 200 * LowerWick(b) >= 3 * High2(100 * Body(b), 5 * Height(b))

\* Bullish after a decline, and bearish after anything else; without three
\* bars of context it is bullish.
Hammer(s, context) ==
  IF ~HammerShape(s[0]) THEN 0
  ELSE IF context /\ s[1].c >= s[3].c THEN -1 ELSE 1

Engulfing(s) ==
  LET bigger == Body(s[0]) > Body(s[1]) IN
  Mark(Up(s[0]) /\ Down(s[1]) /\ s[0].c >= s[1].o /\ s[0].o <= s[1].c /\ bigger,
       Down(s[0]) /\ Up(s[1]) /\ s[0].c <= s[1].o /\ s[0].o >= s[1].c /\ bigger)

\* A pause after a strong bar.
Pause(s) == 100 * Body(s[1]) < 35 * Body(s[2])

MorningStar(s) ==
  Mark(Down(s[2]) /\ Pause(s) /\ Up(s[0]) /\ 2 * s[0].c > s[2].o + s[2].c, FALSE)

EveningStar(s) ==
  Mark(FALSE, Up(s[2]) /\ Pause(s) /\ Down(s[0]) /\ 2 * s[0].c < s[2].o + s[2].c)

ThreeSoldiers(s) ==
  Mark((\A j \in 0 .. 2 : Up(s[j])) /\ s[0].c > s[1].c /\ s[1].c > s[2].c,
       (\A j \in 0 .. 2 : Down(s[j])) /\ s[0].c < s[1].c /\ s[1].c < s[2].c)

PinBar(s) ==
  LET b == s[0]
      small == Height(b) > 0 /\ 10 * Body(b) <= 3 * Height(b)
  IN  Mark(small /\ 10 * LowerWick(b) >= 6 * Height(b),
           small /\ 10 * UpperWick(b) >= 6 * Height(b))

Marubozu(s) ==
  LET full == Height(s[0]) > 0 /\ 10 * Body(s[0]) >= 9 * Height(s[0])
  IN  Mark(full /\ Up(s[0]), full /\ ~Up(s[0]))

OutsideBar(s) ==
  LET wider == s[0].h >= s[1].h /\ s[0].l <= s[1].l /\ Height(s[0]) > Height(s[1])
  IN  Mark(wider /\ Up(s[0]), wider /\ ~Up(s[0]))

Tweezer(s) ==
  LET r == High2(Height(s[0]), Height(s[1])) IN
  Mark(100 * Abs(s[0].l - s[1].l) <= 5 * r /\ Down(s[1]) /\ Up(s[0]),
       100 * Abs(s[0].h - s[1].h) <= 5 * r /\ Up(s[1]) /\ Down(s[0]))

Harami(s) ==
  LET inside ==
        /\ Body(s[1]) > 0 /\ 10 * Body(s[0]) < 6 * Body(s[1])
        /\ Low2(s[0].o, s[0].c) >= Low2(s[1].o, s[1].c)
        /\ High2(s[0].o, s[0].c) <= High2(s[1].o, s[1].c)
  IN  Mark(inside /\ Down(s[1]) /\ Up(s[0]), inside /\ Up(s[1]) /\ Down(s[0]))

\* The ten detectors blended, in tenths.
PatternScore(s, context) ==
  Hammer(s, context) + Engulfing(s) + MorningStar(s) + EveningStar(s) + ThreeSoldiers(s)
    + PinBar(s) + Marubozu(s) + OutsideBar(s) + Tweezer(s) + Harami(s)

-----------------------------------------------------------------------------
(* The strategies: 1 is a call, -1 a put, 0 no vote.  dev is how far the   *)
(* last price lies from the drift line, in thousandths of it; rsi is       *)
(* centred on 50, in tenths.                                               *)

EngulfingEdge(s, dev) ==
  Mark(Engulfing(s) = 1 /\ dev > -2, Engulfing(s) = -1 /\ dev < 2)

HammerHook(s, dev) ==
  Mark(Hammer(s, TRUE) = 1 /\ dev <= 2, Hammer(s, TRUE) = -1 /\ dev >= -2)

SoldiersCrows(s) == ThreeSoldiers(s)

PinBarRevert(s, rsi) == Mark(PinBar(s) = 1 /\ rsi < 50, PinBar(s) = -1 /\ rsi > -50)

InsideBreakout(s) ==
  LET inside == s[1].h <= s[2].h /\ s[1].l >= s[2].l
  IN  Mark(inside /\ s[0].c > s[1].h, inside /\ s[0].c < s[1].l)

\* Two wicks of more than half the bar on the same side, at one level.
DoubleWick(s) ==
  LET moved == Height(s[0]) > 0 /\ Height(s[1]) > 0
      near(x) == 4 * Abs(x) <= Height(s[0])
  IN  Mark(moved /\ (\A j \in 0 .. 1 : 2 * LowerWick(s[j]) > Height(s[j])) /\ near(s[0].l - s[1].l),
           moved /\ (\A j \in 0 .. 1 : 2 * UpperWick(s[j]) > Height(s[j])) /\ near(s[0].h - s[1].h))

-----------------------------------------------------------------------------
(* The same tape upside down *)

Flip(b) == [o |-> -b.o, h |-> -b.l, l |-> -b.h, c |-> -b.c]

FlipTape(s) == [j \in 0 .. 3 |-> Flip(s[j])]

Tape == [0 .. 3 -> Bar]

=============================================================================
