------------------------ MODULE RiskGovernor_proofs ------------------------
(***************************************************************************)
(* The governor's limits for every account, budget, clock and number of    *)
(* restarts.  Whatever a limit reads is kept true of the running governor  *)
(* and of the one on disk alike, for a restart exchanges the second for    *)
(* the first: an authorization rolls the clock without saving it.          *)
(***************************************************************************)
EXTENDS RiskGovernor, TLAPS

-----------------------------------------------------------------------------
(* Arithmetic *)

LEMMA Times ==
  ASSUME NEW m \in Nat, NEW a \in Nat, NEW b \in Nat, a <= b
  PROVE  m * a <= m * b /\ m * a \in Nat /\ m * b \in Nat
BY SMT

LEMMA OneMore ==
  ASSUME NEW m \in Nat, NEW a \in Nat, NEW b \in Nat, a < b
  PROVE  m * a + m <= m * b /\ m * a \in Nat /\ m * b \in Nat
<1>1. m * (a + 1) <= m * b
  BY Times
<1>2. m * (a + 1) = m * a + m
  BY SMT
<1> QED
  BY <1>1, <1>2, Times

LEMMA Quotient ==
  ASSUME NEW x \in Nat, NEW h \in Nat \ {0}
  PROVE  /\ x \div h \in Nat
         /\ h * (x \div h) <= x
         /\ x < h * (x \div h) + h
BY Z3

LEMMA QuotientGrows ==
  ASSUME NEW x \in Nat, NEW y \in Nat, NEW h \in Nat \ {0}, x <= y
  PROVE  x \div h <= y \div h
<1> DEFINE p == x \div h
           q == y \div h
<1>1. p \in Nat /\ q \in Nat /\ h * p <= x /\ y < h * q + h
  BY Quotient
<1>2. ASSUME q < p PROVE FALSE
  <2>1. h * q + h <= h * p
    BY <1>1, <1>2, OneMore
  <2> HIDE DEF p, q
  <2> QED
    BY <1>1, <2>1, Times
<1> QED
  BY <1>1, <1>2

\* A whole window more is one more in the quotient.
LEMMA QuotientSteps ==
  ASSUME NEW x \in Nat, NEW y \in Nat, NEW h \in Nat \ {0}, x + h <= y
  PROVE  x \div h < y \div h
<1> DEFINE p == x \div h
           q == y \div h
<1>1. p \in Nat /\ q \in Nat /\ h * p <= x /\ y < h * q + h
  BY Quotient
<1>2. ASSUME q <= p PROVE FALSE
  <2>1. h * q <= h * p /\ h * q \in Nat /\ h * p \in Nat
    BY <1>1, <1>2, Times
  <2> HIDE DEF p, q
  <2> QED
    BY <1>1, <2>1
<1> QED
  BY <1>1, <1>2

LEMMA DayIsNat ==
  ASSUME NEW t \in Nat
  PROVE  Day(t) \in Nat /\ NextDailyBoundary(t) \in Nat /\ t < NextDailyBoundary(t)
<1>1. Day(t) \in Nat /\ t < DayLength * Day(t) + DayLength
  BY Quotient, ClockAssumption DEF Day
<1>2. DayLength * (Day(t) + 1) = DayLength * Day(t) + DayLength
  BY <1>1, ClockAssumption, SMT
<1>3. DayLength * (Day(t) + 1) \in Nat
  BY <1>1, ClockAssumption, Times
<1> QED
  BY <1>1, <1>2, <1>3 DEF NextDailyBoundary

LEMMA DayGrows ==
  ASSUME NEW s \in Nat, NEW t \in Nat, s <= t
  PROVE  Day(s) <= Day(t) /\ NextDailyBoundary(s) <= NextDailyBoundary(t)
<1>1. Day(s) <= Day(t) /\ Day(s) \in Nat /\ Day(t) \in Nat
  BY QuotientGrows, DayIsNat, ClockAssumption DEF Day
<1>2. DayLength * (Day(s) + 1) <= DayLength * (Day(t) + 1)
  BY <1>1, Times, ClockAssumption
<1> QED
  BY <1>1, <1>2 DEF NextDailyBoundary

-----------------------------------------------------------------------------
(* Budgets, as numbers *)

\* What a governor in its day d with n orders in it can have let out.
DayBudget(d, n, s, c, f, l) ==
  /\ Day(f) <= d /\ d <= Day(l) /\ n <= MaxPerDay
  /\ s <= MaxPerDay * (d - Day(f)) + n + c

HourBudget(h, n, s, c, f, l) ==
  /\ f <= h /\ h <= l /\ n <= MaxPerHour
  /\ s <= MaxPerHour * ((h - f) \div HourLength) + n + c

LEMMA DayBudgetRolls ==
  ASSUME NEW d \in Nat, NEW n \in Nat, NEW s \in Nat, NEW c \in Nat,
         NEW f \in Nat, NEW l \in Nat, NEW now \in Nat,
         DayBudget(d, n, s, c, f, l), Day(now) > d
  PROVE  DayBudget(Day(now), 0, s, c, f, Larger(l, now))
<1> DEFINE a == d - Day(f)
           b == Day(now) - Day(f)
<1>1. Day(f) \in Nat /\ Day(now) \in Nat /\ Day(l) \in Nat
  BY DayIsNat
<1>2. a \in Nat /\ b \in Nat /\ a < b
  BY <1>1 DEF DayBudget
<1>3. MaxPerDay * a + MaxPerDay <= MaxPerDay * b /\ MaxPerDay * a \in Nat /\ MaxPerDay * b \in Nat
  BY <1>2, OneMore, LimitAssumption
<1>4. s <= MaxPerDay * a + n + c /\ n <= MaxPerDay
  BY DEF DayBudget
<1>5. s <= MaxPerDay * b + 0 + c
  <2> HIDE DEF a, b
  <2> QED
    BY <1>3, <1>4, LimitAssumption
<1>6. Larger(l, now) \in Nat /\ now <= Larger(l, now)
  BY DEF Larger
<1>7. Day(now) <= Day(Larger(l, now))
  BY <1>6, DayGrows
<1> QED
  BY <1>1, <1>2, <1>5, <1>7, LimitAssumption DEF DayBudget

LEMMA DayBudgetKeeps ==
  ASSUME NEW d \in Nat, NEW n \in Nat, NEW s \in Nat, NEW c \in Nat,
         NEW f \in Nat, NEW l \in Nat, NEW now \in Nat,
         DayBudget(d, n, s, c, f, l)
  PROVE  DayBudget(d, n, s, c, f, Larger(l, now))
<1>1. Larger(l, now) \in Nat /\ l <= Larger(l, now)
  BY DEF Larger
<1>2. Day(l) <= Day(Larger(l, now)) /\ Day(l) \in Nat /\ Day(Larger(l, now)) \in Nat
  BY <1>1, DayGrows, DayIsNat
<1>3. d <= Day(Larger(l, now))
  BY <1>2 DEF DayBudget
<1> QED
  BY <1>3 DEF DayBudget

LEMMA DayBudgetSpends ==
  ASSUME NEW d \in Nat, NEW n \in Nat, NEW s \in Nat, NEW c \in Nat,
         NEW f \in Nat, NEW l \in Nat, DayBudget(d, n, s, c, f, l)
  PROVE  /\ n < MaxPerDay => DayBudget(d, n + 1, s + 1, c, f, l)
         /\ DayBudget(d, n, s + 1, c + 1, f, l)
         /\ DayBudget(d, n, s, c + 1, f, l)
<1> DEFINE P == MaxPerDay * (d - Day(f))
<1>1. Day(f) \in Nat /\ Day(f) <= d
  BY DayIsNat DEF DayBudget
<1>2. P \in Nat
  BY <1>1, Times, LimitAssumption
<1>3. s <= P + n + c /\ Day(f) <= d /\ d <= Day(l) /\ n <= MaxPerDay
  BY DEF DayBudget
<1>4. /\ s + 1 <= P + (n + 1) + c
      /\ s + 1 <= P + n + (c + 1)
      /\ s <= P + n + (c + 1)
  <2> HIDE DEF P
  <2> QED
    BY <1>2, <1>3
<1>5. n < MaxPerDay => n + 1 <= MaxPerDay
  BY LimitAssumption
<1> QED
  BY <1>3, <1>4, <1>5 DEF DayBudget

LEMMA DayBudgetBounds ==
  ASSUME NEW d \in Nat, NEW n \in Nat, NEW s \in Nat, NEW c \in Nat,
         NEW f \in Nat, NEW l \in Nat, DayBudget(d, n, s, c, f, l)
  PROVE  s <= MaxPerDay * (Day(l) - Day(f) + 1) + c
<1> DEFINE a == d - Day(f)
           b == Day(l) - Day(f) + 1
<1>1. Day(f) \in Nat /\ Day(l) \in Nat
  BY DayIsNat
<1>2. a \in Nat /\ b \in Nat /\ a < b
  BY <1>1 DEF DayBudget
<1>3. MaxPerDay * a + MaxPerDay <= MaxPerDay * b /\ MaxPerDay * a \in Nat /\ MaxPerDay * b \in Nat
  BY <1>2, OneMore, LimitAssumption
<1>4. s <= MaxPerDay * a + n + c /\ n <= MaxPerDay
  BY DEF DayBudget
<1>5. s <= MaxPerDay * b + c
  <2> HIDE DEF a, b
  <2> QED
    BY <1>3, <1>4, LimitAssumption
<1> QED
  BY <1>5

LEMMA HourBudgetRolls ==
  ASSUME NEW h \in Nat, NEW n \in Nat, NEW s \in Nat, NEW c \in Nat,
         NEW f \in Nat, NEW l \in Nat, NEW now \in Nat,
         HourBudget(h, n, s, c, f, l), now - h >= HourLength
  PROVE  HourBudget(now, 0, s, c, f, Larger(l, now))
<1> DEFINE a == (h - f) \div HourLength
           b == (now - f) \div HourLength
<1>1. h - f \in Nat /\ now - f \in Nat /\ (h - f) + HourLength <= now - f
  BY ClockAssumption DEF HourBudget
<1>2. a \in Nat /\ b \in Nat /\ a < b
  BY <1>1, Quotient, QuotientSteps, ClockAssumption
<1>3. MaxPerHour * a + MaxPerHour <= MaxPerHour * b /\ MaxPerHour * a \in Nat /\ MaxPerHour * b \in Nat
  BY <1>2, OneMore, LimitAssumption
<1>4. s <= MaxPerHour * a + n + c /\ n <= MaxPerHour
  BY DEF HourBudget
<1>5. s <= MaxPerHour * b + 0 + c
  <2> HIDE DEF a, b
  <2> QED
    BY <1>3, <1>4, LimitAssumption
<1>6. f <= now /\ now <= Larger(l, now)
  BY <1>1 DEF Larger
<1> QED
  BY <1>5, <1>6, LimitAssumption DEF HourBudget

LEMMA HourBudgetKeeps ==
  ASSUME NEW h \in Nat, NEW n \in Nat, NEW s \in Nat, NEW c \in Nat,
         NEW f \in Nat, NEW l \in Nat, NEW now \in Nat,
         HourBudget(h, n, s, c, f, l)
  PROVE  HourBudget(h, n, s, c, f, Larger(l, now))
<1>1. h <= Larger(l, now)
  BY DEF Larger, HourBudget
<1> QED
  BY <1>1 DEF HourBudget

LEMMA HourBudgetSpends ==
  ASSUME NEW h \in Nat, NEW n \in Nat, NEW s \in Nat, NEW c \in Nat,
         NEW f \in Nat, NEW l \in Nat, HourBudget(h, n, s, c, f, l)
  PROVE  /\ n < MaxPerHour => HourBudget(h, n + 1, s + 1, c, f, l)
         /\ HourBudget(h, n, s + 1, c + 1, f, l)
         /\ HourBudget(h, n, s, c + 1, f, l)
<1> DEFINE a == (h - f) \div HourLength
           P == MaxPerHour * a
<1>1. h - f \in Nat /\ f <= h /\ h <= l /\ n <= MaxPerHour /\ s <= P + n + c
  BY DEF HourBudget
<1>2. a \in Nat
  BY <1>1, Quotient, ClockAssumption
<1>3. P \in Nat
  BY <1>2, Times, LimitAssumption
<1>4. /\ s + 1 <= P + (n + 1) + c
      /\ s + 1 <= P + n + (c + 1)
      /\ s <= P + n + (c + 1)
  <2> HIDE DEF a, P
  <2> QED
    BY <1>1, <1>3
<1>5. n < MaxPerHour => n + 1 <= MaxPerHour
  BY LimitAssumption
<1> QED
  BY <1>1, <1>4, <1>5 DEF HourBudget

LEMMA HourBudgetBounds ==
  ASSUME NEW h \in Nat, NEW n \in Nat, NEW s \in Nat, NEW c \in Nat,
         NEW f \in Nat, NEW l \in Nat, HourBudget(h, n, s, c, f, l)
  PROVE  s <= MaxPerHour * ((l - f) \div HourLength + 1) + c
<1> DEFINE a == (h - f) \div HourLength
           b == (l - f) \div HourLength
<1>1. h - f \in Nat /\ l - f \in Nat /\ h - f <= l - f
  BY DEF HourBudget
<1>2. a \in Nat /\ b \in Nat /\ a <= b
  BY <1>1, Quotient, QuotientGrows, ClockAssumption
<1>3. /\ MaxPerHour * a + MaxPerHour <= MaxPerHour * (b + 1)
      /\ MaxPerHour * a \in Nat /\ MaxPerHour * (b + 1) \in Nat
  <2> HIDE DEF a, b
  <2> QED
    BY <1>2, OneMore, LimitAssumption
<1>4. s <= MaxPerHour * a + n + c /\ n <= MaxPerHour
  BY DEF HourBudget
<1>5. s <= MaxPerHour * (b + 1) + c
  <2> HIDE DEF a, b
  <2> QED
    BY <1>3, <1>4, LimitAssumption
<1> QED
  BY <1>5

-----------------------------------------------------------------------------
(* The invariant.  Each part is asked of the running governor and of the   *)
(* one on disk.                                                            *)

Typed ==
  TypeOK /\ (busy => 2 * Stake <= gov.balance)

InDay(g)  == DayBudget(g.day, g.tradesDay, sent, crashes, span.first, span.latest)
InHour(g) == HourBudget(g.hourStart, g.tradesHour, sent, crashes, span.first, span.latest)

Budgets ==
  /\ InDay(gov) /\ InDay(disk.gov)
  /\ InHour(gov) /\ InHour(disk.gov)
  /\ busy => gov.tradesDay < MaxPerDay /\ gov.tradesHour < MaxPerHour

Peaks ==
  /\ gov.peak = top /\ disk.gov.peak = top /\ disk.gov.balance = gov.balance
  /\ gov.open > 0 => top > 0
  /\ FloorHolds
  /\ busy => ~DrawdownReached(gov)

AboveDayFloor(g) ==
  100 * (g.dayStart - g.balance) < DailyLossPct * g.dayStart + 100 * Stake

DayFloors ==
  /\ ~drained => AboveDayFloor(gov) /\ AboveDayFloor(disk.gov)
  /\ busy => ~DailyLossReached(gov)

\* While the clock has only gone forward.
Serves(g) == verdict.lockEnd <= clock \/ verdict.lockEnd <= g.lockedUntil

Locks ==
  steps = 0 =>
    /\ disk.savedAt <= clock
    /\ verdict.lockEnd <= NextDailyBoundary(clock)
    /\ Serves(gov) /\ Serves(disk.gov)

Cools(g) == g.cooldownUntil = verdict.coolEnd /\ g.losses = verdict.streak

Cooldowns == Cools(gov) /\ Cools(disk.gov)

Breaches == verdict.breached => gov.kill /\ disk.gov.kill

IInv == Typed /\ Budgets /\ Peaks /\ DayFloors /\ Locks /\ Cooldowns /\ Breaches

-----------------------------------------------------------------------------
(* What each step leaves behind *)

SameMoney(g, h) ==
  /\ g.balance = h.balance /\ g.peak = h.peak /\ g.losses = h.losses
  /\ g.cooldownUntil = h.cooldownUntil /\ g.kill = h.kill /\ g.open = h.open

SameDay(g, h) ==
  /\ g.day = h.day /\ g.tradesDay = h.tradesDay /\ g.dayStart = h.dayStart

SameHour(g, h) == g.hourStart = h.hourStart /\ g.tradesHour = h.tradesHour

LEMMA GovernorUpdates ==
  ASSUME NEW g \in Governors, NEW m \in Nat, NEW n \in Nat, NEW k \in Nat
  PROVE  /\ [g EXCEPT !.hourStart = m, !.tradesHour = n] \in Governors
         /\ [g EXCEPT !.open = m] \in Governors
         /\ [g EXCEPT !.open = m, !.tradesDay = n, !.tradesHour = k] \in Governors
<1>1. [g EXCEPT !.hourStart = m, !.tradesHour = n] \in Governors
  BY Zenon DEF Governors
<1>2. [g EXCEPT !.open = m] \in Governors
  BY Zenon DEF Governors
<1>3. [g EXCEPT !.open = m, !.tradesDay = n, !.tradesHour = k] \in Governors
  BY Zenon DEF Governors
<1> QED
  BY <1>1, <1>2, <1>3

LEMMA Numbers ==
  ASSUME NEW g \in Governors
  PROVE  /\ g.dayStart \in Nat /\ g.balance \in Nat /\ g.peak \in Nat /\ g.day \in Nat
         /\ g.hourStart \in Nat /\ g.tradesHour \in Nat /\ g.tradesDay \in Nat
         /\ g.losses \in Nat /\ g.cooldownUntil \in Nat /\ g.lockedUntil \in Nat
         /\ g.open \in Nat
BY DEF Governors

LEMMA RolledFields ==
  ASSUME NEW g \in Governors, NEW now \in Nat
  PROVE  LET r == Rolled(g, now) IN
         /\ r \in Governors /\ SameMoney(r, g)
         /\ \/ Day(now) <= g.day /\ SameDay(r, g) /\ r.lockedUntil = g.lockedUntil
            \/ /\ Day(now) > g.day /\ r.day = Day(now) /\ r.tradesDay = 0
               /\ r.dayStart = g.balance
               /\ r.lockedUntil = IF g.lockedUntil <= now THEN 0 ELSE g.lockedUntil
         /\ \/ now - g.hourStart < HourLength /\ SameHour(r, g)
            \/ now - g.hourStart >= HourLength /\ r.hourStart = now /\ r.tradesHour = 0
<1> DEFINE h == HourRolled(g, now)
<1>0. h \in Governors
  <2>1. CASE now - g.hourStart >= HourLength
    BY <2>1, GovernorUpdates DEF HourRolled
  <2>2. CASE ~(now - g.hourStart >= HourLength)
    BY <2>2 DEF HourRolled
  <2> QED
    BY <2>1, <2>2
<1>1. /\ SameMoney(h, g) /\ SameDay(h, g) /\ h.lockedUntil = g.lockedUntil
      /\ \/ now - g.hourStart < HourLength /\ SameHour(h, g)
         \/ now - g.hourStart >= HourLength /\ h.hourStart = now /\ h.tradesHour = 0
  BY ClockAssumption DEF HourRolled, Governors, SameMoney, SameDay, SameHour
<1>2. Day(now) \in Nat
  BY DayIsNat
<1>3. ASSUME NEW k \in Governors
      PROVE  DayRolled(k, now) \in Governors
  <2>1. CASE Day(now) > k.day
    <3> DEFINE j == IF k.lockedUntil <= now THEN 0 ELSE k.lockedUntil
    <3>1. j \in Nat /\ k.balance \in Nat
      BY Numbers
    <3>2. DayRolled(k, now)
            = [k EXCEPT !.dayStart = k.balance, !.day = Day(now), !.tradesDay = 0, !.lockedUntil = j]
      BY <2>1 DEF DayRolled
    <3> HIDE DEF j
    <3>3. [k EXCEPT !.dayStart = k.balance, !.day = Day(now), !.tradesDay = 0, !.lockedUntil = j]
            \in Governors
      BY <1>2, <3>1, Zenon DEF Governors
    <3> QED
      BY <3>2, <3>3, Zenon
  <2>2. CASE ~(Day(now) > k.day)
    BY <2>2 DEF DayRolled
  <2> QED
    BY <2>1, <2>2
<1>4. ASSUME NEW k \in Governors
      PROVE  LET r == DayRolled(k, now) IN
             /\ SameMoney(r, k) /\ SameHour(r, k)
             /\ \/ Day(now) <= k.day /\ SameDay(r, k) /\ r.lockedUntil = k.lockedUntil
                \/ /\ Day(now) > k.day /\ r.day = Day(now) /\ r.tradesDay = 0
                   /\ r.dayStart = k.balance
                   /\ r.lockedUntil = IF k.lockedUntil <= now THEN 0 ELSE k.lockedUntil
  BY <1>2 DEF DayRolled, Governors, SameMoney, SameDay, SameHour
<1> HIDE DEF h
<1> QED
  BY <1>0, <1>1, <1>3, <1>4 DEF Rolled, SameMoney, SameDay, SameHour, h

\* What Open, Close and Restart make of a governor, field by field.
LEMMA OpenFields ==
  ASSUME NEW g \in Governors, g.balance <= g.peak, 2 * Stake <= g.balance
  PROVE  LET r == Balance(OnOpen(g), g.balance - Stake) IN
         /\ r \in Governors /\ r.balance = g.balance - Stake /\ r.peak = g.peak
         /\ r.open = g.open + 1 /\ r.tradesDay = g.tradesDay + 1 /\ r.tradesHour = g.tradesHour + 1
         /\ r.day = g.day /\ r.dayStart = g.dayStart /\ r.hourStart = g.hourStart
         /\ r.lockedUntil = g.lockedUntil /\ r.cooldownUntil = g.cooldownUntil
         /\ r.losses = g.losses /\ r.kill = g.kill
<1> DEFINE o == OnOpen(g)
           b == g.balance - Stake
<1>1. b \in Nat /\ b <= g.peak /\ Larger(g.peak, b) = g.peak /\ g.peak \in Nat
  BY Numbers, LimitAssumption DEF Larger
<1>2. /\ o.balance = g.balance /\ o.peak = g.peak
      /\ o.open = g.open + 1 /\ o.tradesDay = g.tradesDay + 1 /\ o.tradesHour = g.tradesHour + 1
      /\ o.day = g.day /\ o.dayStart = g.dayStart /\ o.hourStart = g.hourStart
      /\ o.lockedUntil = g.lockedUntil /\ o.cooldownUntil = g.cooldownUntil
      /\ o.losses = g.losses /\ o.kill = g.kill
  BY DEF OnOpen, Governors
<1>3. o \in Governors
  <2>1. g.open + 1 \in Nat /\ g.tradesDay + 1 \in Nat /\ g.tradesHour + 1 \in Nat
    BY Numbers
  <2> QED
    BY <2>1, GovernorUpdates DEF OnOpen
<1>4. Balance(o, b) = [o EXCEPT !.balance = b, !.peak = g.peak]
  BY <1>1, <1>2 DEF Balance
<1> HIDE DEF o, b
<1>5. Balance(o, b) \in Governors
  <2>1. [o EXCEPT !.balance = b, !.peak = g.peak] \in Governors
    BY <1>1, <1>3, Zenon DEF Governors
  <2> QED
    BY <1>4, <2>1, Zenon
<1>6. LET r == Balance(o, b) IN
      /\ r.balance = b /\ r.peak = g.peak
      /\ r.open = o.open /\ r.tradesDay = o.tradesDay /\ r.tradesHour = o.tradesHour
      /\ r.day = o.day /\ r.dayStart = o.dayStart /\ r.hourStart = o.hourStart
      /\ r.lockedUntil = o.lockedUntil /\ r.cooldownUntil = o.cooldownUntil
      /\ r.losses = o.losses /\ r.kill = o.kill
  BY <1>3, <1>4 DEF Governors
<1> QED
  BY <1>2, <1>5, <1>6 DEF o, b

LEMMA BalanceFields ==
  ASSUME NEW g \in Governors, NEW b \in Nat
  PROVE  LET q == Balance(g, b) IN
         /\ q \in Governors /\ q.open = g.open /\ q.kill = g.kill
         /\ q.balance = b /\ q.peak = Larger(g.peak, b)
         /\ SameDay(q, g) /\ SameHour(q, g) /\ q.lockedUntil = g.lockedUntil
         /\ q.losses = g.losses /\ q.cooldownUntil = g.cooldownUntil
<1> DEFINE p == Larger(g.peak, b)
<1>1. p \in Nat
  BY Numbers DEF Larger
<1>2. Balance(g, b) = [g EXCEPT !.balance = b, !.peak = p]
  BY DEF Balance
<1> HIDE DEF p
<1>3. Balance(g, b) \in Governors
  <2>1. [g EXCEPT !.balance = b, !.peak = p] \in Governors
    BY <1>1, Zenon DEF Governors
  <2> QED
    BY <1>2, <2>1, Zenon
<1>4. LET q == Balance(g, b) IN
         /\ q.open = g.open /\ q.kill = g.kill
         /\ q.balance = b /\ q.peak = p
         /\ SameDay(q, g) /\ SameHour(q, g) /\ q.lockedUntil = g.lockedUntil
         /\ q.losses = g.losses /\ q.cooldownUntil = g.cooldownUntil
  BY <1>2 DEF Governors, SameDay, SameHour
<1> QED
  BY <1>3, <1>4 DEF p

LEMMA RestoredFields ==
  ASSUME NEW b \in Nat, disk.gov \in Governors, clock \in Nat
  PROVE  LET r == Rolled(disk.gov, clock)
             q == Restored(b) IN
         /\ q \in Governors /\ q.balance = b /\ q.peak = Larger(disk.gov.peak, b) /\ q.open = 0
         /\ SameDay(q, r) /\ SameHour(q, r) /\ q.lockedUntil = r.lockedUntil
         /\ q.cooldownUntil = r.cooldownUntil /\ q.losses = r.losses /\ q.kill = r.kill
<1> DEFINE r == Rolled(disk.gov, clock)
<1>1. r \in Governors /\ r.peak = disk.gov.peak
  BY RolledFields DEF SameMoney
<1> HIDE DEF r
<1>2. Restored(b) = Balance([r EXCEPT !.open = 0], b)
  BY DEF Restored, r
<1>3. [r EXCEPT !.open = 0] \in Governors
  BY <1>1, GovernorUpdates
<1>4. LET k == [r EXCEPT !.open = 0] IN
      /\ k.open = 0 /\ k.peak = r.peak /\ SameDay(k, r) /\ SameHour(k, r)
      /\ k.lockedUntil = r.lockedUntil /\ k.cooldownUntil = r.cooldownUntil
      /\ k.losses = r.losses /\ k.kill = r.kill
  BY <1>1 DEF Governors, SameDay, SameHour
<1> DEFINE k == [r EXCEPT !.open = 0]
<1> HIDE DEF k
<1>5. k \in Governors
  BY <1>3 DEF k
<1>6. LET q == Balance(k, b) IN
         /\ q \in Governors /\ q.open = k.open /\ q.kill = k.kill
         /\ q.balance = b /\ q.peak = Larger(k.peak, b)
         /\ SameDay(q, k) /\ SameHour(q, k) /\ q.lockedUntil = k.lockedUntil
         /\ q.losses = k.losses /\ q.cooldownUntil = k.cooldownUntil
  BY <1>5, BalanceFields
<1> QED
  BY <1>1, <1>2, <1>4, <1>6 DEF SameDay, SameHour, r, k

LEMMA ReturnedIsNat ==
  ASSUME NEW o \in {"won", "refunded", "lost"}
  PROVE  Returned(o) \in Nat
BY LimitAssumption DEF Returned

\* The governor a settlement books its cash into, before the locks.
Booked(o) ==
  LET g == Streaked([Rolled(gov, clock) EXCEPT !.open = @ - 1], o = "won")
  IN  Balance(g, g.balance + Returned(o))

LEMMA BookedFields ==
  ASSUME NEW o \in {"won", "refunded", "lost"}, TypeOK, gov.open > 0
  PROVE  LET r == Rolled(gov, clock)
             q == Booked(o)
             s == IF o = "won" THEN 0 ELSE gov.losses + 1 IN
         /\ q \in Governors /\ q.open = gov.open - 1 /\ q.kill = gov.kill
         /\ q.balance = gov.balance + Returned(o) /\ q.peak = Larger(gov.peak, q.balance)
         /\ SameDay(q, r) /\ SameHour(q, r) /\ q.lockedUntil = r.lockedUntil
         /\ q.losses = IF TripsCooldown(s) THEN 0 ELSE s
         /\ q.cooldownUntil = IF TripsCooldown(s) THEN clock + CooldownLength ELSE gov.cooldownUntil
<1> DEFINE r == Rolled(gov, clock)
           k == [r EXCEPT !.open = @ - 1]
           s == IF o = "won" THEN 0 ELSE gov.losses + 1
           g == Streaked(k, o = "won")
<1>1. r \in Governors /\ SameMoney(r, gov)
  BY RolledFields DEF TypeOK
<1> HIDE DEF r
<1>2. /\ k \in Governors /\ k.open = gov.open - 1 /\ k.kill = gov.kill
      /\ k.balance = gov.balance /\ k.peak = gov.peak /\ SameDay(k, r) /\ SameHour(k, r)
      /\ k.lockedUntil = r.lockedUntil /\ k.losses = gov.losses /\ k.cooldownUntil = gov.cooldownUntil
  BY <1>1 DEF Governors, SameMoney, SameDay, SameHour
<1>3. Streak(k, o = "won") = s /\ s \in Nat
  BY <1>2 DEF Streak, Governors
<1>4. clock + CooldownLength \in Nat
  BY LimitAssumption DEF TypeOK
<1>5. Booked(o) = Balance(g, g.balance + Returned(o))
  BY DEF Booked, r
<1> HIDE DEF k, s
<1>6. /\ g \in Governors /\ g.open = k.open /\ g.kill = k.kill
      /\ g.balance = k.balance /\ g.peak = k.peak /\ SameDay(g, k) /\ SameHour(g, k)
      /\ g.lockedUntil = k.lockedUntil
      /\ g.losses = IF TripsCooldown(s) THEN 0 ELSE s
      /\ g.cooldownUntil = IF TripsCooldown(s) THEN clock + CooldownLength ELSE k.cooldownUntil
  BY <1>2, <1>3, <1>4 DEF Streaked, Governors, SameDay, SameHour
<1> HIDE DEF g
<1>7. Returned(o) \in Nat
  BY ReturnedIsNat
<1>8. LET q == Balance(g, g.balance + Returned(o)) IN
      /\ q \in Governors /\ q.open = g.open /\ q.kill = g.kill
      /\ q.balance = g.balance + Returned(o) /\ q.peak = Larger(g.peak, q.balance)
      /\ SameDay(q, g) /\ SameHour(q, g) /\ q.lockedUntil = g.lockedUntil
      /\ q.losses = g.losses /\ q.cooldownUntil = g.cooldownUntil
  <2>1. g.balance + Returned(o) \in Nat
    BY <1>6, <1>7, Numbers
  <2> QED
    BY <1>6, <2>1, BalanceFields
<1> QED
  BY <1>2, <1>5, <1>6, <1>8 DEF SameDay, SameHour, r, s

LEMMA LockedFields ==
  ASSUME NEW g \in Governors, clock \in Nat
  PROVE  LET q == Locked(g) IN
         /\ q \in Governors /\ q.open = g.open /\ q.balance = g.balance /\ q.peak = g.peak
         /\ SameDay(q, g) /\ SameHour(q, g)
         /\ q.losses = g.losses /\ q.cooldownUntil = g.cooldownUntil
         /\ q.lockedUntil = IF DailyLossReached(g) THEN NextDailyBoundary(clock) ELSE g.lockedUntil
<1>1. NextDailyBoundary(clock) \in Nat
  BY DayIsNat
<1>2. (g.kill \/ DrawdownReached(g)) \in BOOLEAN
  BY DEF Governors, DrawdownReached
<1> DEFINE n == IF DailyLossReached(g) THEN NextDailyBoundary(clock) ELSE g.lockedUntil
           k == g.kill \/ DrawdownReached(g)
<1>3. Locked(g) = [g EXCEPT !.lockedUntil = n, !.kill = k]
  BY DEF Locked
<1>4. n \in Nat
  BY <1>1 DEF Governors
<1> HIDE DEF n, k
<1>5. k \in BOOLEAN
  BY <1>2 DEF k
<1> QED
  BY <1>3, <1>4, <1>5 DEF Governors, SameDay, SameHour, n

LEMMA LockedKill ==
  ASSUME NEW g \in Governors
  PROVE  Locked(g).kill <=> g.kill \/ DrawdownReached(g)
BY DEF Locked, Governors

LEMMA CloseBooks ==
  ASSUME NEW o \in {"won", "refunded", "lost"}, Close(o)
  PROVE  gov' = Locked(Booked(o))
BY DEF Close, Booked

-----------------------------------------------------------------------------
(* Every step keeps every part *)

LEMMA SeenFields ==
  ASSUME TypeOK, Seen
  PROVE  /\ span'.first = span.first /\ span'.latest = Larger(span.latest, clock)
         /\ span' \in [first : Nat, latest : Nat]
<1>1. Larger(span.latest, clock) \in Nat
  BY DEF TypeOK, Larger
<1> QED
  BY <1>1 DEF Seen, TypeOK

LEMMA InitIInv == Init => IInv
<1> SUFFICES ASSUME Init PROVE IInv
  OBVIOUS
<1>1. PICK b \in VenueBalances : gov = Fresh(b, clock) /\ top = b
  BY DEF Init
<1>2. b \in Nat /\ clock \in Nat /\ Day(clock) \in Nat /\ NextDailyBoundary(clock) \in Nat
  BY DayIsNat, ClockAssumption, LimitAssumption DEF Init
<1>3. gov \in Governors
  BY <1>1, <1>2, Zenon DEF Fresh, Governors
<1>4. /\ gov.dayStart = b /\ gov.balance = b /\ gov.peak = b /\ gov.day = Day(clock)
      /\ gov.hourStart = clock /\ gov.tradesHour = 0 /\ gov.tradesDay = 0 /\ gov.losses = 0
      /\ gov.cooldownUntil = 0 /\ gov.lockedUntil = 0 /\ gov.open = 0
  BY <1>1 DEF Fresh
<1>5. disk.gov = gov /\ disk.savedAt = clock /\ busy = FALSE /\ steps = 0 /\ sent = 0
      /\ crashes = 0 /\ span.first = clock /\ span.latest = clock /\ verdict.breached = FALSE
      /\ verdict.lockEnd = 0 /\ verdict.coolEnd = 0 /\ verdict.streak = 0 /\ drained = FALSE
  BY DEF Init
<1>6. Typed
  <2>1. disk \in [gov : Governors, savedAt : Nat]
    BY <1>2, <1>3, Zenon DEF Init
  <2>2. /\ span \in [first : Nat, latest : Nat]
        /\ verdict \in [lockDay : Nat, lockEnd : Nat, coolEnd : Nat, streak : Nat, breached : BOOLEAN]
    BY <1>2, 0 \in Nat, Zenon DEF Init
  <2>3. /\ sent \in Nat /\ crashes \in Nat /\ steps \in Nat /\ top \in Nat
        /\ gov.balance <= gov.peak /\ disk.gov.balance <= disk.gov.peak
    BY <1>1, <1>2, <1>4, <1>5
  <2>4. busy \in BOOLEAN /\ drained \in BOOLEAN /\ ~busy
    BY <1>5, Zenon
  <2> QED
    BY <1>2, <1>3, <2>1, <2>2, <2>3, <2>4, Zenon DEF Typed, TypeOK
<1>7. Budgets
  <2>1. DayBudget(Day(clock), 0, 0, 0, clock, clock)
    BY <1>2, LimitAssumption, SMT DEF DayBudget
  <2>2. (clock - clock) \div HourLength \in Nat
    <3>1. clock - clock = 0
      BY <1>2
    <3> QED
      BY <3>1, Quotient, ClockAssumption
  <2>3. HourBudget(clock, 0, 0, 0, clock, clock)
    <3> DEFINE q == (clock - clock) \div HourLength
    <3>1. MaxPerHour * q \in Nat
      BY <2>2, Times, LimitAssumption
    <3> HIDE DEF q
    <3> QED
      BY <1>2, <3>1, LimitAssumption DEF HourBudget, q
  <2> QED
    BY <1>4, <1>5, <2>1, <2>3 DEF Budgets, InDay, InHour
<1>8. Peaks
  <2>1. FloorHolds
    <3>1. DrawdownPct * b \in Nat
      BY <1>2, Times, LimitAssumption
    <3> QED
      BY <1>1, <1>2, <1>4, <3>1, LimitAssumption DEF FloorHolds
  <2> QED
    BY <1>1, <1>2, <1>4, <1>5, <2>1 DEF Peaks
<1>9. DayFloors
  <2>1. DailyLossPct * b \in Nat
    BY <1>2, Times, LimitAssumption
  <2> QED
    BY <1>2, <1>4, <1>5, <2>1, LimitAssumption DEF DayFloors, AboveDayFloor
<1>10. Locks /\ Cooldowns /\ Breaches
  BY <1>2, <1>4, <1>5 DEF Locks, Serves, Cooldowns, Cools, Breaches
<1> QED
  BY <1>6, <1>7, <1>8, <1>9, <1>10 DEF IInv

\* A roll keeps what a part says of a governor, at the instant it rolls.
LEMMA RollKeepsBudgets ==
  ASSUME NEW g \in Governors, TypeOK, InDay(g), InHour(g)
  PROVE  LET r == Rolled(g, clock)
             l == Larger(span.latest, clock) IN
         /\ DayBudget(r.day, r.tradesDay, sent, crashes, span.first, l)
         /\ HourBudget(r.hourStart, r.tradesHour, sent, crashes, span.first, l)
<1> DEFINE r == Rolled(g, clock)
           l == Larger(span.latest, clock)
<1>1. /\ g.day \in Nat /\ g.tradesDay \in Nat /\ g.hourStart \in Nat /\ g.tradesHour \in Nat
      /\ sent \in Nat /\ crashes \in Nat /\ span.first \in Nat /\ span.latest \in Nat /\ clock \in Nat
  BY Numbers DEF TypeOK
<1>2. DayBudget(g.day, g.tradesDay, sent, crashes, span.first, l)
  BY <1>1, DayBudgetKeeps DEF InDay
<1>3. Day(clock) > g.day => DayBudget(Day(clock), 0, sent, crashes, span.first, l)
  BY <1>1, DayBudgetRolls DEF InDay
<1>4. HourBudget(g.hourStart, g.tradesHour, sent, crashes, span.first, l)
  BY <1>1, HourBudgetKeeps DEF InHour
<1>5. clock - g.hourStart >= HourLength => HourBudget(clock, 0, sent, crashes, span.first, l)
  BY <1>1, HourBudgetRolls DEF InHour
<1>6. /\ \/ SameDay(r, g)
         \/ Day(clock) > g.day /\ r.day = Day(clock) /\ r.tradesDay = 0
      /\ \/ SameHour(r, g)
         \/ clock - g.hourStart >= HourLength /\ r.hourStart = clock /\ r.tradesHour = 0
  BY <1>1, RolledFields
<1> HIDE DEF r, l
<1> QED
  BY <1>2, <1>3, <1>4, <1>5, <1>6 DEF SameDay, SameHour, r, l

LEMMA RollKeepsDayFloor ==
  ASSUME NEW g \in Governors, NEW b \in Nat, clock \in Nat, AboveDayFloor(g), g.balance <= b
  PROVE  LET r == Rolled(g, clock) IN
         100 * (r.dayStart - b) < DailyLossPct * r.dayStart + 100 * Stake
<1> DEFINE r == Rolled(g, clock)
<1>1. r.dayStart = g.dayStart \/ r.dayStart = g.balance
  BY RolledFields DEF SameDay
<1>2. g.dayStart \in Nat /\ g.balance \in Nat
  BY Numbers
<1>3. DailyLossPct * g.balance \in Nat /\ DailyLossPct * g.dayStart \in Nat
  BY <1>2, Times, LimitAssumption
<1>4. /\ 100 * (g.dayStart - b) < DailyLossPct * g.dayStart + 100 * Stake
      /\ 100 * (g.balance - b) < DailyLossPct * g.balance + 100 * Stake
  <2> DEFINE u == DailyLossPct * g.balance
             v == DailyLossPct * g.dayStart
  <2>1. u \in Nat /\ v \in Nat /\ 100 * (g.dayStart - g.balance) < v + 100 * Stake
    BY <1>3 DEF AboveDayFloor
  <2> HIDE DEF u, v
  <2>2. /\ 100 * (g.dayStart - b) < v + 100 * Stake
        /\ 100 * (g.balance - b) < u + 100 * Stake
    BY <1>2, <2>1, LimitAssumption
  <2> QED
    BY <2>2 DEF u, v
<1> QED
  BY <1>1, <1>4

LEMMA RollServes ==
  ASSUME NEW g \in Governors, TypeOK, Serves(g)
  PROVE  LET r == Rolled(g, clock) IN
         verdict.lockEnd <= clock \/ verdict.lockEnd <= r.lockedUntil
<1>1. g.lockedUntil \in Nat /\ clock \in Nat /\ verdict.lockEnd \in Nat
  BY Numbers DEF TypeOK
<1> DEFINE r == Rolled(g, clock)
<1>2. r.lockedUntil = g.lockedUntil \/ g.lockedUntil <= clock
  <2>1. \/ r.lockedUntil = g.lockedUntil
        \/ r.lockedUntil = IF g.lockedUntil <= clock THEN 0 ELSE g.lockedUntil
    BY <1>1, RolledFields
  <2> HIDE DEF r
  <2> QED
    BY <2>1
<1> HIDE DEF r
<1> QED
  BY <1>1, <1>2 DEF Serves, r

\* The steps in which the governor, the disk and the history stay.
LEMMA QuietSteps ==
  ASSUME IInv,
         UNCHANGED <<gov, busy, disk, sent, crashes, drained, span, top, verdict>>,
         clock' \in Nat, steps' \in Nat,
         steps' = 0 => steps = 0 /\ clock <= clock'
  PROVE  IInv'
<1>1. Typed'
  BY DEF IInv, Typed, TypeOK
<1>2. Budgets'
  BY DEF IInv, Budgets, InDay, InHour
<1>3. Peaks' /\ DayFloors' /\ Cooldowns' /\ Breaches'
  BY DEF IInv, Peaks, DayFloors, Cooldowns, Cools, Breaches, FloorHolds, AboveDayFloor
<1>4. Locks'
  <2> SUFFICES ASSUME steps' = 0 PROVE Locks'
    BY DEF Locks
  <2>1. Locks /\ steps = 0 /\ clock <= clock'
    BY DEF IInv
  <2>2. /\ clock \in Nat /\ verdict.lockEnd \in Nat /\ gov.lockedUntil \in Nat
        /\ disk.gov.lockedUntil \in Nat /\ disk.savedAt \in Nat
    BY Numbers DEF IInv, Typed, TypeOK
  <2>3. /\ NextDailyBoundary(clock) <= NextDailyBoundary(clock')
        /\ NextDailyBoundary(clock) \in Nat /\ NextDailyBoundary(clock') \in Nat
    BY <2>1, <2>2, DayGrows, DayIsNat
  <2> QED
    BY <2>1, <2>2, <2>3 DEF Locks, Serves
<1> QED
  BY <1>1, <1>2, <1>3, <1>4 DEF IInv

\* Authorize rolls the running governor and leaves the disk behind.
LEMMA AuthorizeSteps ==
  ASSUME IInv, Authorize
  PROVE  IInv'
<1> DEFINE r == Rolled(gov, clock)
<1>1. TypeOK /\ gov \in Governors /\ disk.gov \in Governors /\ clock \in Nat
  BY DEF IInv, Typed, TypeOK
<1>2. /\ gov' = r /\ busy' = TRUE /\ ~busy /\ Permits(r, clock) /\ Seen
      /\ UNCHANGED <<clock, disk, sent, crashes, steps, drained, top, verdict>>
  BY DEF Authorize, bookkeeping
<1>3. /\ r \in Governors /\ SameMoney(r, gov)
  BY <1>1, RolledFields
<1>4. /\ span'.first = span.first /\ span'.latest = Larger(span.latest, clock)
      /\ span' \in [first : Nat, latest : Nat]
  BY <1>1, <1>2, SeenFields
<1>5. /\ ~DailyLossReached(r) /\ ~DrawdownReached(r) /\ 2 * Stake <= r.balance
      /\ r.tradesHour < MaxPerHour /\ r.tradesDay < MaxPerDay
  BY <1>2 DEF Permits, LossesOK, RatesOK
<1>6. Typed'
  <2>1. gov' \in Governors /\ gov'.balance <= gov'.peak /\ 2 * Stake <= gov'.balance
    BY <1>1, <1>2, <1>3, <1>5 DEF TypeOK, SameMoney
  <2>2. disk' = disk /\ verdict' = verdict /\ clock' = clock /\ sent' = sent /\ crashes' = crashes
        /\ steps' = steps /\ top' = top
    BY <1>2
  <2>3. busy' \in BOOLEAN /\ drained' \in BOOLEAN
    BY <1>1, <1>2, Zenon DEF TypeOK
  <2> QED
    BY <1>1, <1>4, <2>1, <2>2, <2>3, Zenon DEF Typed, TypeOK
<1>7. Budgets'
  <2>1. InDay(gov)' /\ InHour(gov)'
    <3>1. /\ DayBudget(r.day, r.tradesDay, sent, crashes, span.first, Larger(span.latest, clock))
          /\ HourBudget(r.hourStart, r.tradesHour, sent, crashes, span.first, Larger(span.latest, clock))
      BY <1>1, RollKeepsBudgets DEF IInv, Budgets
    <3> HIDE DEF r
    <3> QED
      BY <1>2, <1>4, <3>1 DEF InDay, InHour
  <2>2. InDay(disk.gov)' /\ InHour(disk.gov)'
    <3>1. /\ InDay(disk.gov) /\ InHour(disk.gov)
          /\ disk.gov.day \in Nat /\ disk.gov.tradesDay \in Nat /\ disk.gov.hourStart \in Nat
          /\ disk.gov.tradesHour \in Nat /\ sent \in Nat /\ crashes \in Nat
          /\ span.first \in Nat /\ span.latest \in Nat
      BY <1>1, Numbers DEF IInv, Budgets, TypeOK
    <3>2. /\ DayBudget(disk.gov.day, disk.gov.tradesDay, sent, crashes, span.first, Larger(span.latest, clock))
          /\ HourBudget(disk.gov.hourStart, disk.gov.tradesHour, sent, crashes, span.first, Larger(span.latest, clock))
      BY <1>1, <3>1, DayBudgetKeeps, HourBudgetKeeps DEF InDay, InHour
    <3> QED
      BY <1>2, <1>4, <3>2 DEF InDay, InHour
  <2> QED
    BY <1>2, <1>5, <2>1, <2>2 DEF Budgets
<1>8. Peaks'
  <2> HIDE DEF r
  <2> QED
    BY <1>2, <1>3, <1>5 DEF IInv, Peaks, FloorHolds, SameMoney
<1>9. DayFloors'
  <2>1. ASSUME ~drained PROVE AboveDayFloor(r)
    <3>1. gov.balance <= gov.balance /\ gov.balance \in Nat
      BY <1>1, Numbers
    <3>2. AboveDayFloor(gov)
      BY <2>1 DEF IInv, DayFloors
    <3>3. r.balance = gov.balance
      BY <1>3 DEF SameMoney
    <3> QED
      BY <1>1, <3>1, <3>2, <3>3, RollKeepsDayFloor DEF AboveDayFloor
  <2> HIDE DEF r
  <2> QED
    BY <1>2, <1>5, <2>1 DEF IInv, DayFloors, AboveDayFloor
<1>10. Locks'
  <2>1. Serves(gov) => verdict.lockEnd <= clock \/ verdict.lockEnd <= r.lockedUntil
    BY <1>1, RollServes
  <2> HIDE DEF r
  <2> QED
    BY <1>2, <2>1 DEF IInv, Locks, Serves
<1>11. Cooldowns' /\ Breaches'
  <2> HIDE DEF r
  <2>1. Cooldowns'
    BY <1>2, <1>3 DEF IInv, Cooldowns, Cools, SameMoney
  <2>2. Breaches'
    BY <1>2, <1>3, Zenon DEF IInv, Breaches, SameMoney
  <2> QED
    BY <2>1, <2>2
<1> QED
  BY <1>6, <1>7, <1>8, <1>9, <1>10, <1>11 DEF IInv

\* Reject rolls and saves.
LEMMA RejectSteps ==
  ASSUME IInv, Reject
  PROVE  IInv'
<1> DEFINE r == Rolled(gov, clock)
<1>1. TypeOK /\ gov \in Governors /\ clock \in Nat
  BY DEF IInv, Typed, TypeOK
<1>2. /\ gov' = r /\ ~busy /\ Seen /\ disk' = [gov |-> r, savedAt |-> clock]
      /\ UNCHANGED <<clock, busy, sent, crashes, steps, drained, top, verdict>>
  BY DEF Reject, Commit, bookkeeping
<1>3. /\ r \in Governors /\ SameMoney(r, gov)
  BY <1>1, RolledFields
<1>4. /\ span'.first = span.first /\ span'.latest = Larger(span.latest, clock)
      /\ span' \in [first : Nat, latest : Nat]
  BY <1>1, <1>2, SeenFields
<1>5. disk'.gov = r /\ disk'.savedAt = clock
  BY <1>2
<1>6. Typed'
  <2>1. gov' \in Governors /\ gov'.balance <= gov'.peak
    BY <1>1, <1>2, <1>3 DEF TypeOK, SameMoney
  <2>2. disk' \in [gov : Governors, savedAt : Nat] /\ disk'.gov = gov'
    BY <1>1, <1>2, <1>3, <1>5
  <2>3. verdict' = verdict /\ clock' = clock /\ sent' = sent /\ crashes' = crashes
        /\ steps' = steps /\ top' = top /\ busy' = busy /\ drained' = drained
    BY <1>2
  <2>a. ~busy /\ busy \in BOOLEAN /\ drained \in BOOLEAN
    BY <1>1, <1>2 DEF TypeOK
  <2>4. ~busy' /\ busy' \in BOOLEAN /\ drained' \in BOOLEAN
    BY <2>a, <2>3, Zenon
  <2>5. disk'.gov.balance <= disk'.gov.peak
    BY <2>1, <2>2
  <2> QED
    BY <1>1, <1>4, <2>1, <2>2, <2>3, <2>4, <2>5, Zenon DEF Typed, TypeOK
<1>7. Budgets'
  <2>1. /\ DayBudget(r.day, r.tradesDay, sent, crashes, span.first, Larger(span.latest, clock))
        /\ HourBudget(r.hourStart, r.tradesHour, sent, crashes, span.first, Larger(span.latest, clock))
    BY <1>1, RollKeepsBudgets DEF IInv, Budgets
  <2> HIDE DEF r
  <2> QED
    BY <1>2, <1>4, <1>5, <2>1 DEF Budgets, InDay, InHour
<1>8. Peaks'
  <2> HIDE DEF r
  <2> QED
    BY <1>2, <1>3, <1>5 DEF IInv, Peaks, FloorHolds, SameMoney
<1>9. DayFloors'
  <2>1. ASSUME ~drained PROVE AboveDayFloor(r)
    <3>1. gov.balance <= gov.balance /\ gov.balance \in Nat
      BY <1>1, Numbers
    <3>2. AboveDayFloor(gov)
      BY <2>1 DEF IInv, DayFloors
    <3>3. r.balance = gov.balance
      BY <1>3 DEF SameMoney
    <3> QED
      BY <1>1, <3>1, <3>2, <3>3, RollKeepsDayFloor DEF AboveDayFloor
  <2> HIDE DEF r
  <2> QED
    BY <1>2, <1>5, <2>1 DEF DayFloors, AboveDayFloor
<1>10. Locks'
  <2>1. Serves(gov) => verdict.lockEnd <= clock \/ verdict.lockEnd <= r.lockedUntil
    BY <1>1, RollServes
  <2> HIDE DEF r
  <2> QED
    BY <1>1, <1>2, <1>5, <2>1 DEF IInv, Locks, Serves
<1>11. Cooldowns' /\ Breaches'
  <2> HIDE DEF r
  <2>1. Cooldowns'
    BY <1>2, <1>3, <1>5 DEF IInv, Cooldowns, Cools, SameMoney
  <2>2. Breaches'
    BY <1>2, <1>3, <1>5, Zenon DEF IInv, Breaches, SameMoney
  <2> QED
    BY <2>1, <2>2
<1> QED
  BY <1>6, <1>7, <1>8, <1>9, <1>10, <1>11 DEF IInv

\* Refuse saves the governor the authorization rolled.
LEMMA RefuseSteps ==
  ASSUME IInv, Refuse
  PROVE  IInv'
<1>1. TypeOK /\ gov \in Governors /\ clock \in Nat
  BY DEF IInv, Typed, TypeOK
<1>2. /\ ~busy' /\ busy' \in BOOLEAN /\ disk' = [gov |-> gov, savedAt |-> clock]
      /\ UNCHANGED <<clock, gov, sent, crashes, steps, drained, span, top, verdict>>
  BY DEF Refuse, Commit, bookkeeping
<1>3. disk'.gov = gov /\ disk'.savedAt = clock
  BY <1>2
<1>4. Typed'
  <2>1. disk' \in [gov : Governors, savedAt : Nat]
    BY <1>1, <1>2
  <2> QED
    BY <1>1, <1>2, <1>3, <2>1, Zenon DEF Typed, TypeOK
<1>5. Budgets'
  BY <1>2, <1>3 DEF IInv, Budgets, InDay, InHour
<1>6. Peaks' /\ DayFloors'
  BY <1>2, <1>3 DEF IInv, Peaks, FloorHolds, DayFloors, AboveDayFloor
<1>7. Locks'
  BY <1>1, <1>2, <1>3 DEF IInv, Locks, Serves
<1>8. Cooldowns' /\ Breaches'
  BY <1>2, <1>3, Zenon DEF IInv, Cooldowns, Cools, Breaches
<1> QED
  BY <1>4, <1>5, <1>6, <1>7, <1>8 DEF IInv

\* Open spends one unit of each budget and one stake.
LEMMA OpenSteps ==
  ASSUME IInv, Open
  PROVE  IInv'
<1> DEFINE r == Balance(OnOpen(gov), gov.balance - Stake)
<1>1. /\ TypeOK /\ gov \in Governors /\ clock \in Nat /\ sent \in Nat /\ crashes \in Nat
      /\ span.first \in Nat /\ span.latest \in Nat /\ gov.balance <= gov.peak /\ top \in Nat
  BY DEF IInv, Typed, TypeOK
<1>2. /\ gov' = r /\ busy /\ ~busy' /\ busy' \in BOOLEAN /\ sent' = sent + 1
      /\ disk' = [gov |-> r, savedAt |-> clock]
      /\ UNCHANGED <<clock, crashes, steps, drained, span, top, verdict>>
  BY DEF Open, Commit
<1>3. disk'.gov = r /\ disk'.savedAt = clock
  BY <1>2
<1>4. 2 * Stake <= gov.balance
  BY <1>2 DEF IInv, Typed
<1>5. /\ r \in Governors /\ r.balance = gov.balance - Stake /\ r.peak = gov.peak
      /\ r.open = gov.open + 1 /\ r.tradesDay = gov.tradesDay + 1 /\ r.tradesHour = gov.tradesHour + 1
      /\ r.day = gov.day /\ r.dayStart = gov.dayStart /\ r.hourStart = gov.hourStart
      /\ r.lockedUntil = gov.lockedUntil /\ r.cooldownUntil = gov.cooldownUntil
      /\ r.losses = gov.losses /\ r.kill = gov.kill
  BY <1>1, <1>4, OpenFields
<1> HIDE DEF r
<1>6. /\ gov.balance \in Nat /\ gov.peak \in Nat /\ gov.dayStart \in Nat /\ gov.day \in Nat
      /\ gov.tradesDay \in Nat /\ gov.tradesHour \in Nat /\ gov.hourStart \in Nat
  BY <1>1, Numbers
<1>7. Typed'
  <2>1. disk' \in [gov : Governors, savedAt : Nat]
    BY <1>1, <1>2, <1>5
  <2>2. sent' \in Nat /\ r.balance <= r.peak
    BY <1>1, <1>2, <1>5, <1>6, LimitAssumption
  <2> QED
    BY <1>1, <1>2, <1>3, <1>5, <2>1, <2>2, Zenon DEF Typed, TypeOK
<1>8. Budgets'
  <2>1. /\ DayBudget(gov.day, gov.tradesDay, sent, crashes, span.first, span.latest)
        /\ HourBudget(gov.hourStart, gov.tradesHour, sent, crashes, span.first, span.latest)
        /\ gov.tradesDay < MaxPerDay /\ gov.tradesHour < MaxPerHour
    BY <1>2 DEF IInv, Budgets, InDay, InHour
  <2>2. /\ DayBudget(gov.day, gov.tradesDay + 1, sent + 1, crashes, span.first, span.latest)
        /\ HourBudget(gov.hourStart, gov.tradesHour + 1, sent + 1, crashes, span.first, span.latest)
    BY <1>1, <1>6, <2>1, DayBudgetSpends, HourBudgetSpends
  <2> QED
    BY <1>2, <1>3, <1>5, <2>2 DEF Budgets, InDay, InHour
<1>9. Peaks'
  <2>1. /\ gov.peak = top /\ 100 * (gov.peak - gov.balance) < DrawdownPct * gov.peak /\ top > 0
    BY <1>1, <1>2, <1>4, <1>6, LimitAssumption DEF IInv, Peaks, DrawdownReached
  <2> DEFINE u == DrawdownPct * top
  <2>2. u \in Nat /\ 100 * (top - gov.balance) < u
    BY <1>1, <2>1, Times, LimitAssumption
  <2> HIDE DEF u
  <2>3. 100 * (top - (gov.balance - Stake)) < u + 100 * Stake
    BY <1>1, <1>6, <2>2, LimitAssumption
  <2>4. FloorHolds'
    BY <1>2, <1>5, <2>3 DEF FloorHolds, u
  <2> QED
    BY <1>2, <1>3, <1>5, <2>1, <2>4 DEF Peaks
<1>10. DayFloors'
  <2>1. gov.dayStart = 0 \/ 100 * (gov.dayStart - gov.balance) < DailyLossPct * gov.dayStart
    BY <1>2, <1>6, LimitAssumption DEF IInv, DayFloors, DailyLossReached
  <2> DEFINE u == DailyLossPct * gov.dayStart
  <2>2. u \in Nat
    BY <1>6, Times, LimitAssumption
  <2>3. gov.dayStart = 0 \/ 100 * (gov.dayStart - gov.balance) < u
    BY <2>1
  <2> HIDE DEF u
  <2>4. 100 * (gov.dayStart - (gov.balance - Stake)) < u + 100 * Stake
    BY <1>4, <1>6, <2>2, <2>3, LimitAssumption
  <2> QED
    BY <1>2, <1>3, <1>5, <2>4 DEF DayFloors, AboveDayFloor, u
<1>11. Locks'
  <2>1. /\ clock' = clock /\ steps' = steps /\ verdict' = verdict
        /\ gov'.lockedUntil = gov.lockedUntil /\ disk'.gov.lockedUntil = gov.lockedUntil
        /\ disk'.savedAt = clock'
    BY <1>2, <1>3, <1>5
  <2>2. steps = 0 => verdict.lockEnd <= NextDailyBoundary(clock) /\ Serves(gov)
    BY DEF IInv, Locks
  <2> QED
    BY <1>1, <2>1, <2>2 DEF Locks, Serves
<1>12. Cooldowns' /\ Breaches'
  BY <1>2, <1>3, <1>5, Zenon DEF IInv, Cooldowns, Cools, Breaches
<1> QED
  BY <1>7, <1>8, <1>9, <1>10, <1>11, <1>12 DEF IInv

\* The operator's kill and its clearance, saved at once.
LEMMA KillSteps ==
  ASSUME IInv, EngageKill \/ ReleaseKill
  PROVE  IInv'
<1>1. TypeOK /\ gov \in Governors /\ clock \in Nat
  BY DEF IInv, Typed, TypeOK
<1>2. PICK k \in BOOLEAN :
        /\ gov' = [gov EXCEPT !.kill = k] /\ ~busy
        /\ disk' = [gov |-> gov', savedAt |-> clock]
        /\ UNCHANGED <<clock, busy, sent, crashes, steps, drained, span, top>>
        /\ k \/ verdict'.breached = FALSE
        /\ verdict'.lockEnd = verdict.lockEnd /\ verdict'.coolEnd = verdict.coolEnd
        /\ verdict'.streak = verdict.streak
        /\ verdict' \in [lockDay : Nat, lockEnd : Nat, coolEnd : Nat, streak : Nat, breached : BOOLEAN]
  <2>1. CASE EngageKill
    BY <1>1, <2>1 DEF EngageKill, Commit, bookkeeping, TypeOK
  <2>2. CASE ReleaseKill
    BY <1>1, <2>2 DEF ReleaseKill, Commit, bookkeeping, TypeOK
  <2> QED
    BY <2>1, <2>2
<1>3. /\ gov'.kill = k /\ gov'.balance = gov.balance /\ gov'.peak = gov.peak /\ gov'.losses = gov.losses
      /\ gov'.cooldownUntil = gov.cooldownUntil /\ gov'.lockedUntil = gov.lockedUntil
      /\ gov'.open = gov.open /\ SameDay(gov', gov) /\ SameHour(gov', gov)
  BY <1>1, <1>2 DEF Governors, SameDay, SameHour
<1>4. gov' \in Governors
  BY <1>1, <1>2, Zenon DEF Governors
<1>5. disk'.gov = gov' /\ disk'.savedAt = clock
  BY <1>2
<1>6. Typed'
  <2>1. disk' \in [gov : Governors, savedAt : Nat]
    BY <1>1, <1>2, <1>4
  <2>2. gov'.balance <= gov'.peak
    BY <1>1, <1>3 DEF TypeOK
  <2> QED
    BY <1>1, <1>2, <1>4, <1>5, <2>1, <2>2, Zenon DEF Typed, TypeOK
<1>7. Budgets'
  BY <1>2, <1>3, <1>5 DEF IInv, Budgets, InDay, InHour, SameDay, SameHour
<1>8. Peaks'
  BY <1>2, <1>3, <1>5 DEF IInv, Peaks, FloorHolds
<1>9. DayFloors'
  BY <1>2, <1>3, <1>5 DEF IInv, DayFloors, AboveDayFloor, SameDay
<1>10. Locks'
  <2>1. /\ clock' = clock /\ steps' = steps /\ verdict'.lockEnd = verdict.lockEnd
        /\ gov'.lockedUntil = gov.lockedUntil /\ disk'.gov.lockedUntil = gov.lockedUntil
        /\ disk'.savedAt = clock'
    BY <1>2, <1>3, <1>5
  <2>2. steps = 0 => verdict.lockEnd <= NextDailyBoundary(clock) /\ Serves(gov)
    BY DEF IInv, Locks
  <2> QED
    BY <1>1, <2>1, <2>2 DEF Locks, Serves
<1>11. Cooldowns'
  BY <1>2, <1>3, <1>5 DEF IInv, Cooldowns, Cools
<1>12. Breaches'
  BY <1>2, <1>3, <1>5, Zenon DEF Breaches
<1> QED
  BY <1>6, <1>7, <1>8, <1>9, <1>10, <1>11, <1>12 DEF IInv

\* Close rolls, books and locks.
LEMMA CloseSteps ==
  ASSUME IInv, NEW o \in {"won", "refunded", "lost"}, Close(o)
  PROVE  IInv'
<1> DEFINE r == Rolled(gov, clock)
           q == Booked(o)
           s == IF o = "won" THEN 0 ELSE gov.losses + 1
<1>1. /\ TypeOK /\ gov \in Governors /\ clock \in Nat /\ gov.balance <= gov.peak /\ top \in Nat
      /\ verdict \in [lockDay : Nat, lockEnd : Nat, coolEnd : Nat, streak : Nat, breached : BOOLEAN]
  BY DEF IInv, Typed, TypeOK
<1>2. /\ gov' = Locked(q) /\ ~busy /\ gov.open > 0 /\ Seen
      /\ disk' = [gov |-> gov', savedAt |-> clock]
      /\ UNCHANGED <<clock, busy, sent, crashes, steps, drained>>
  BY CloseBooks DEF Close, Commit, bookkeeping
<1>3. /\ r \in Governors /\ SameMoney(r, gov)
  BY <1>1, RolledFields
<1>4. /\ q \in Governors /\ q.open = gov.open - 1 /\ q.kill = gov.kill
      /\ q.balance = gov.balance + Returned(o) /\ q.peak = Larger(gov.peak, q.balance)
      /\ SameDay(q, r) /\ SameHour(q, r) /\ q.lockedUntil = r.lockedUntil
      /\ q.losses = IF TripsCooldown(s) THEN 0 ELSE s
      /\ q.cooldownUntil = IF TripsCooldown(s) THEN clock + CooldownLength ELSE gov.cooldownUntil
  BY <1>1, <1>2, BookedFields
<1>5. gov.losses = verdict.streak /\ gov.cooldownUntil = verdict.coolEnd
  BY DEF IInv, Cooldowns, Cools
<1>6. s = IF o = "won" THEN 0 ELSE verdict.streak + 1
  BY <1>5
<1>7. /\ top' = Larger(top, q.balance)
      /\ verdict'.lockEnd = IF DailyLossReached(q) THEN Larger(verdict.lockEnd, NextDailyBoundary(clock))
                                                   ELSE verdict.lockEnd
      /\ verdict'.lockDay = IF DailyLossReached(q) THEN q.day ELSE verdict.lockDay
      /\ verdict'.coolEnd = IF TripsCooldown(s) THEN clock + CooldownLength ELSE verdict.coolEnd
      /\ verdict'.streak = IF TripsCooldown(s) THEN 0 ELSE s
  BY <1>6 DEF Close, Booked
<1>8. verdict'.breached <=> verdict.breached \/ 100 * (top' - q.balance) >= DrawdownPct * top'
  BY <1>1 DEF Close, Booked
<1>9. verdict' \in [lockDay : Nat, lockEnd : Nat, coolEnd : Nat, streak : Nat, breached : BOOLEAN]
  <2>1. NextDailyBoundary(clock) \in Nat /\ clock + CooldownLength \in Nat /\ s \in Nat
    BY <1>1, DayIsNat, Numbers, LimitAssumption
  <2>2. /\ verdict'.lockDay \in Nat /\ verdict'.lockEnd \in Nat /\ verdict'.coolEnd \in Nat
        /\ verdict'.streak \in Nat
    <3> HIDE DEF s, q
    <3>1. q.day \in Nat
      BY <1>4, Numbers
    <3> QED
      BY <1>1, <1>7, <2>1, <3>1 DEF Larger
  <2>3. verdict' = [lockDay |-> verdict'.lockDay, lockEnd |-> verdict'.lockEnd,
                    coolEnd |-> verdict'.coolEnd, streak |-> verdict'.streak,
                    breached |-> verdict'.breached]
    BY DEF Close
  <2>4. verdict'.breached \in BOOLEAN
    BY <1>1 DEF Close
  <2> QED
    BY <2>2, <2>3, <2>4, Zenon
<1>10. /\ gov' \in Governors /\ gov'.open = q.open /\ gov'.balance = q.balance /\ gov'.peak = q.peak
       /\ SameDay(gov', q) /\ SameHour(gov', q)
       /\ gov'.losses = q.losses /\ gov'.cooldownUntil = q.cooldownUntil
       /\ gov'.lockedUntil = IF DailyLossReached(q) THEN NextDailyBoundary(clock) ELSE q.lockedUntil
  BY <1>1, <1>2, <1>4, LockedFields
<1>11. gov'.kill <=> q.kill \/ DrawdownReached(q)
  BY <1>2, <1>4, LockedKill
<1>12. disk'.gov = gov' /\ disk'.savedAt = clock
  BY <1>2
<1>13. /\ span'.first = span.first /\ span'.latest = Larger(span.latest, clock)
       /\ span' \in [first : Nat, latest : Nat]
  BY <1>1, <1>2, SeenFields
<1>14. /\ gov.balance \in Nat /\ gov.peak \in Nat /\ gov.dayStart \in Nat /\ Returned(o) \in Nat
       /\ gov.lockedUntil \in Nat /\ q.balance \in Nat
  BY <1>1, <1>4, Numbers, ReturnedIsNat
<1>15. top = gov.peak /\ top' = q.peak /\ top' \in Nat /\ q.balance <= q.peak /\ gov.balance <= q.balance
       /\ top <= top'
  <2>1. top = gov.peak
    BY DEF IInv, Peaks
  <2> HIDE DEF q
  <2> QED
    BY <1>1, <1>4, <1>7, <1>14, <2>1 DEF Larger
<1>16. top > 0
  BY <1>2 DEF IInv, Peaks
<1> HIDE DEF q, s, r
<1>17. Typed'
  <2>1. disk' \in [gov : Governors, savedAt : Nat]
    BY <1>1, <1>2, <1>10
  <2>2. gov'.balance <= gov'.peak
    BY <1>10, <1>15
  <2>3. clock' \in Nat /\ sent' \in Nat /\ crashes' \in Nat /\ steps' \in Nat
    BY <1>1, <1>2 DEF TypeOK
  <2>4. ~busy' /\ busy' \in BOOLEAN /\ drained' \in BOOLEAN
    <3>1. busy' = busy /\ drained' = drained
      BY <1>2
    <3> QED
      BY <1>1, <1>2, <3>1 DEF TypeOK
  <2> QED
    BY <1>9, <1>10, <1>12, <1>13, <1>15, <2>1, <2>2, <2>3, <2>4, Zenon DEF Typed, TypeOK
<1>18. Budgets'
  <2>1. /\ DayBudget(r.day, r.tradesDay, sent, crashes, span.first, Larger(span.latest, clock))
        /\ HourBudget(r.hourStart, r.tradesHour, sent, crashes, span.first, Larger(span.latest, clock))
    BY <1>1, RollKeepsBudgets DEF IInv, Budgets, r
  <2>2. /\ gov'.day = r.day /\ gov'.tradesDay = r.tradesDay
        /\ gov'.hourStart = r.hourStart /\ gov'.tradesHour = r.tradesHour
    BY <1>4, <1>10 DEF SameDay, SameHour
  <2> QED
    BY <1>2, <1>12, <1>13, <2>1, <2>2 DEF Budgets, InDay, InHour
<1>19. Peaks'
  <2> DEFINE u == DrawdownPct * top
             v == DrawdownPct * top'
  <2>1. u \in Nat /\ v \in Nat /\ u <= v
    BY <1>1, <1>15, Times, LimitAssumption
  <2>2. ~drained => 100 * (top - gov.balance) < u + 100 * Stake
    BY DEF IInv, Peaks, FloorHolds
  <2>3. top' = top \/ top' = q.balance
    BY <1>7 DEF Larger
  <2> HIDE DEF u, v
  <2>4. ~drained => 100 * (top' - q.balance) < v + 100 * Stake
    BY <1>1, <1>14, <1>15, <2>1, <2>2, <2>3, LimitAssumption
  <2>5. FloorHolds'
    BY <1>2, <1>10, <2>4 DEF FloorHolds, v
  <2>6. top' > 0
    BY <1>1, <1>15, <1>16
  <2> QED
    BY <1>2, <1>10, <1>12, <1>15, <2>5, <2>6 DEF Peaks
<1>20. DayFloors'
  <2>1. ASSUME ~drained
        PROVE  100 * (r.dayStart - q.balance) < DailyLossPct * r.dayStart + 100 * Stake
    <3>1. AboveDayFloor(gov)
      BY <2>1 DEF IInv, DayFloors
    <3> QED
      BY <1>1, <1>14, <1>15, <3>1, RollKeepsDayFloor DEF r
  <2>2. gov'.dayStart = r.dayStart /\ gov'.balance = q.balance
    BY <1>4, <1>10 DEF SameDay
  <2> QED
    BY <1>2, <1>12, <2>1, <2>2 DEF DayFloors, AboveDayFloor
<1>21. Locks'
  <2>1. NextDailyBoundary(clock) \in Nat /\ verdict.lockEnd \in Nat
    BY <1>1, DayIsNat
  <2>2. Serves(gov) => verdict.lockEnd <= clock \/ verdict.lockEnd <= r.lockedUntil
    BY <1>1, RollServes DEF r
  <2>3. steps = 0 => verdict.lockEnd <= NextDailyBoundary(clock) /\ Serves(gov)
    BY DEF IInv, Locks
  <2>4. /\ clock' = clock /\ steps' = steps /\ disk'.savedAt = clock'
        /\ disk'.gov.lockedUntil = gov'.lockedUntil
    BY <1>2, <1>12
  <2>5. ASSUME steps = 0
        PROVE  /\ verdict'.lockEnd <= NextDailyBoundary(clock)
               /\ verdict'.lockEnd <= clock \/ verdict'.lockEnd <= gov'.lockedUntil
    BY <1>1, <1>4, <1>7, <1>10, <2>1, <2>2, <2>3, <2>5 DEF Larger
  <2> QED
    BY <1>1, <2>4, <2>5 DEF Locks, Serves
<1>22. Cooldowns'
  BY <1>4, <1>5, <1>7, <1>10, <1>12 DEF Cooldowns, Cools
<1>23. Breaches'
  <2>1. verdict'.breached => gov'.kill
    <3>1. verdict.breached => q.kill
      BY <1>4 DEF IInv, Breaches
    <3>2. 100 * (top' - q.balance) >= DrawdownPct * top' => DrawdownReached(q)
      BY <1>1, <1>15, <1>16 DEF DrawdownReached
    <3> QED
      BY <1>8, <1>11, <3>1, <3>2
  <2> QED
    BY <1>12, <2>1, Zenon DEF Breaches
<1> QED
  BY <1>17, <1>18, <1>19, <1>20, <1>21, <1>22, <1>23 DEF IInv

\* Restart exchanges the running governor for the saved one; an order on its
\* way may have left unseen, one for each crash.
LEMMA RestartSteps ==
  ASSUME IInv, NEW b \in VenueBalances, Restart(b)
  PROVE  IInv'
<1> DEFINE d == disk.gov
           r == Rolled(d, clock)
           q == Restored(b)
<1>1. /\ TypeOK /\ d \in Governors /\ gov \in Governors /\ clock \in Nat /\ top \in Nat /\ b \in Nat
      /\ sent \in Nat /\ crashes \in Nat /\ span.first \in Nat /\ span.latest \in Nat
  BY LimitAssumption DEF IInv, Typed, TypeOK
<1>2. /\ gov' = q /\ ~busy' /\ busy' \in BOOLEAN /\ Seen
      /\ disk' = [gov |-> gov', savedAt |-> clock]
      /\ clock' = clock /\ steps' = steps /\ verdict' = verdict
      /\ crashes' = crashes + 1 /\ top' = Larger(top, b)
      /\ drained' = (drained \/ b < gov.balance)
  BY DEF Restart, Commit
<1>3. sent' = sent \/ sent' = sent + 1
  <2>1. PICK n \in (IF busy THEN {0, 1} ELSE {0}) : sent' = sent + n
    BY DEF Restart
  <2>2. n = 0 \/ n = 1
    BY <2>1
  <2> QED
    BY <1>1, <2>1, <2>2
<1>4. /\ r \in Governors /\ SameMoney(r, d)
  BY <1>1, RolledFields
<1>5. /\ q \in Governors /\ q.balance = b /\ q.peak = Larger(d.peak, b) /\ q.open = 0
      /\ SameDay(q, r) /\ SameHour(q, r) /\ q.lockedUntil = r.lockedUntil
      /\ q.cooldownUntil = r.cooldownUntil /\ q.losses = r.losses /\ q.kill = r.kill
  BY <1>1, RestoredFields
<1>6. disk'.gov = gov' /\ disk'.savedAt = clock
  BY <1>2
<1>7. /\ span'.first = span.first /\ span'.latest = Larger(span.latest, clock)
      /\ span' \in [first : Nat, latest : Nat] /\ Larger(span.latest, clock) \in Nat
  BY <1>1, <1>2, SeenFields DEF Larger
<1>8. d.peak = top /\ d.balance = gov.balance /\ d.balance \in Nat /\ gov.balance \in Nat
  BY <1>1, Numbers DEF IInv, Peaks
<1>9. q.peak = top' /\ top' \in Nat /\ b <= top' /\ top <= top' /\ (top' = top \/ top' = b)
  <2> HIDE DEF q, d
  <2> QED
    BY <1>1, <1>2, <1>5, <1>8 DEF Larger
<1>10. drained' \in BOOLEAN /\ (~drained' => ~drained /\ gov.balance <= b)
  <2>1. drained' \in BOOLEAN /\ (~drained' => ~drained /\ ~(b < gov.balance))
    BY <1>2, Zenon
  <2>2. ~(b < gov.balance) => gov.balance <= b
    BY <1>1, <1>8
  <2> QED
    BY <2>1, <2>2
<1> HIDE DEF q, r, d
<1>11. Typed'
  <2>1. disk' \in [gov : Governors, savedAt : Nat]
    BY <1>1, <1>2, <1>5
  <2>2. gov'.balance <= gov'.peak
    BY <1>2, <1>5, <1>9
  <2>3. clock' \in Nat /\ sent' \in Nat /\ crashes' \in Nat /\ steps' \in Nat
    BY <1>1, <1>2, <1>3 DEF TypeOK
  <2>4. verdict' \in [lockDay : Nat, lockEnd : Nat, coolEnd : Nat, streak : Nat, breached : BOOLEAN]
    BY <1>1, <1>2 DEF TypeOK
  <2>5. gov' \in Governors
    BY <1>2, <1>5
  <2> QED
    BY <1>2, <1>6, <1>7, <1>9, <1>10, <2>1, <2>2, <2>3, <2>4, <2>5, Zenon DEF Typed, TypeOK
<1>12. Budgets'
  <2>1. /\ DayBudget(r.day, r.tradesDay, sent, crashes, span.first, Larger(span.latest, clock))
        /\ HourBudget(r.hourStart, r.tradesHour, sent, crashes, span.first, Larger(span.latest, clock))
    BY <1>1, RollKeepsBudgets DEF IInv, Budgets, r, d
  <2>2. r.day \in Nat /\ r.tradesDay \in Nat /\ r.hourStart \in Nat /\ r.tradesHour \in Nat
    BY <1>4, Numbers
  <2>3. /\ DayBudget(r.day, r.tradesDay, sent', crashes', span.first, Larger(span.latest, clock))
        /\ HourBudget(r.hourStart, r.tradesHour, sent', crashes', span.first, Larger(span.latest, clock))
    <3> DEFINE l == Larger(span.latest, clock)
    <3>1. l \in Nat
      BY <1>7
    <3> HIDE DEF l
    <3>2. /\ DayBudget(r.day, r.tradesDay, sent, crashes, span.first, l)
          /\ HourBudget(r.hourStart, r.tradesHour, sent, crashes, span.first, l)
      BY <2>1 DEF l
    <3>3. /\ DayBudget(r.day, r.tradesDay, sent + 1, crashes + 1, span.first, l)
          /\ DayBudget(r.day, r.tradesDay, sent, crashes + 1, span.first, l)
          /\ HourBudget(r.hourStart, r.tradesHour, sent + 1, crashes + 1, span.first, l)
          /\ HourBudget(r.hourStart, r.tradesHour, sent, crashes + 1, span.first, l)
      BY <1>1, <2>2, <3>1, <3>2, DayBudgetSpends, HourBudgetSpends
    <3> QED
      BY <1>2, <1>3, <3>3 DEF l
  <2>4. /\ gov'.day = r.day /\ gov'.tradesDay = r.tradesDay
        /\ gov'.hourStart = r.hourStart /\ gov'.tradesHour = r.tradesHour
    BY <1>2, <1>5 DEF SameDay, SameHour
  <2> QED
    BY <1>2, <1>6, <1>7, <2>3, <2>4 DEF Budgets, InDay, InHour
<1>13. Peaks'
  <2> DEFINE u == DrawdownPct * top
             v == DrawdownPct * top'
  <2>1. u \in Nat /\ v \in Nat /\ u <= v
    <3>1. top \in Nat /\ top' \in Nat /\ top <= top' /\ DrawdownPct \in Nat
      BY <1>1, <1>9, LimitAssumption
    <3> QED
      BY <3>1, Times
  <2>2. ~drained => 100 * (top - gov.balance) < u + 100 * Stake
    BY DEF IInv, Peaks, FloorHolds
  <2> HIDE DEF u, v
  <2>3. ASSUME ~drained' PROVE 100 * (top' - b) < v + 100 * Stake
    <3>1. 100 * (top - gov.balance) < u + 100 * Stake /\ gov.balance <= b
      BY <1>10, <2>2, <2>3
    <3>2. CASE top' = top
      BY <1>1, <1>8, <2>1, <3>1, <3>2, LimitAssumption
    <3>3. CASE top' = b
      BY <1>1, <2>1, <3>3, LimitAssumption
    <3> QED
      BY <1>9, <3>2, <3>3
  <2>4. FloorHolds'
    BY <1>2, <1>5, <2>3 DEF FloorHolds, v
  <2> QED
    BY <1>2, <1>5, <1>6, <1>9, <2>4 DEF Peaks
<1>14. DayFloors'
  <2>1. ASSUME ~drained'
        PROVE  100 * (r.dayStart - b) < DailyLossPct * r.dayStart + 100 * Stake
    <3>1. AboveDayFloor(d) /\ d.balance <= b
      BY <1>8, <1>10, <2>1 DEF IInv, DayFloors, d
    <3> QED
      BY <1>1, <3>1, RollKeepsDayFloor DEF r
  <2>2. gov'.dayStart = r.dayStart /\ gov'.balance = b
    BY <1>2, <1>5 DEF SameDay
  <2> QED
    BY <1>2, <1>6, <2>1, <2>2 DEF DayFloors, AboveDayFloor
<1>15. Locks'
  <2>1. Serves(d) => verdict.lockEnd <= clock \/ verdict.lockEnd <= r.lockedUntil
    BY <1>1, RollServes DEF r
  <2>2. steps = 0 => verdict.lockEnd <= NextDailyBoundary(clock) /\ Serves(d)
    BY DEF IInv, Locks, d
  <2>3. /\ clock' = clock /\ steps' = steps /\ disk'.savedAt = clock' /\ verdict' = verdict
        /\ disk'.gov.lockedUntil = r.lockedUntil /\ gov'.lockedUntil = r.lockedUntil
    BY <1>2, <1>5, <1>6
  <2> QED
    BY <1>1, <2>1, <2>2, <2>3 DEF Locks, Serves
<1>16. Cooldowns'
  BY <1>2, <1>4, <1>5, <1>6 DEF IInv, Cooldowns, Cools, SameMoney, d
<1>17. Breaches'
  <2>1. verdict.breached => d.kill
    BY DEF IInv, Breaches, d
  <2>2. gov'.kill = d.kill /\ disk'.gov.kill = d.kill
    BY <1>2, <1>4, <1>5, <1>6, Zenon DEF SameMoney
  <2>3. verdict' = verdict
    BY <1>2
  <2> QED
    BY <2>1, <2>2, <2>3, Zenon DEF Breaches
<1> QED
  BY <1>11, <1>12, <1>13, <1>14, <1>15, <1>16, <1>17 DEF IInv

LEMMA NextIInv == IInv /\ [Next]_vars => IInv'
<1> SUFFICES ASSUME IInv, [Next]_vars PROVE IInv'
  OBVIOUS
<1>0. clock \in Nat /\ steps \in Nat
  BY DEF IInv, Typed, TypeOK
<1>1. CASE Authorize
  BY <1>1, AuthorizeSteps
<1>2. CASE Reject
  BY <1>2, RejectSteps
<1>3. CASE Refuse
  BY <1>3, RefuseSteps
<1>4. CASE Open
  BY <1>4, OpenSteps
<1>5. ASSUME NEW o \in {"won", "refunded", "lost"}, Close(o) PROVE IInv'
  BY <1>5, CloseSteps
<1>6. CASE EngageKill \/ ReleaseKill
  BY <1>6, KillSteps
<1>7. ASSUME NEW b \in VenueBalances, Restart(b) PROVE IInv'
  BY <1>7, RestartSteps
<1>8. ASSUME NEW t \in 0 .. MaxClock, ClockForward(t) PROVE IInv'
  <2>1. t \in Nat /\ clock' = t /\ clock <= t /\ steps' = steps
    BY <1>0, <1>8, ClockAssumption DEF ClockForward, bookkeeping
  <2>2. UNCHANGED <<gov, busy, disk, sent, crashes, drained, span, top, verdict>>
    BY <1>8 DEF ClockForward, bookkeeping
  <2> QED
    BY <1>0, <2>1, <2>2, QuietSteps
<1>9. ASSUME NEW t \in 0 .. MaxClock, ClockBack(t) PROVE IInv'
  <2>1. t \in Nat /\ clock' = t /\ steps' = steps + 1 /\ steps' # 0 /\ steps' \in Nat
    BY <1>0, <1>9, ClockAssumption DEF ClockBack
  <2>2. UNCHANGED <<gov, busy, disk, sent, crashes, drained, span, top, verdict>>
    BY <1>9 DEF ClockBack
  <2> QED
    BY <2>1, <2>2, QuietSteps
<1>10. CASE UNCHANGED vars
  <2>1. /\ UNCHANGED <<gov, busy, disk, sent, crashes, drained, span, top, verdict>>
        /\ clock' = clock /\ steps' = steps
    BY <1>10 DEF vars, bookkeeping
  <2> QED
    BY <1>0, <2>1, QuietSteps
<1> QED
  BY <1>1, <1>2, <1>3, <1>4, <1>5, <1>6, <1>7, <1>8, <1>9, <1>10 DEF Next

-----------------------------------------------------------------------------
(* The theorems *)

THEOREM Invariant == Spec => []IInv
BY InitIInv, NextIInv, PTL DEF Spec

\* Types, and cash between zero and its peak: every checkpoint the governor
\* writes is one decode_state accepts (risk/manager.py, statestore.py).
THEOREM TypeCorrect == Spec => []TypeOK
<1>1. IInv => TypeOK
  BY DEF IInv, Typed
<1> QED
  BY <1>1, Invariant, PTL

LEMMA BudgetsBound ==
  ASSUME IInv
  PROVE  DayQuota /\ HourQuota
<1>1. /\ gov.day \in Nat /\ gov.tradesDay \in Nat /\ gov.hourStart \in Nat /\ gov.tradesHour \in Nat
      /\ sent \in Nat /\ crashes \in Nat /\ span.first \in Nat /\ span.latest \in Nat
      /\ InDay(gov) /\ InHour(gov)
  BY Numbers DEF IInv, Typed, TypeOK, Budgets
<1> QED
  BY <1>1, DayBudgetBounds, HourBudgetBounds DEF InDay, InHour, DayQuota, HourQuota

\* The order budgets hold over the whole life of an account, for every clock
\* that steps back and every number of restarts, up to one order for each
\* crash: the daily one for each day the clock ever reached, the hourly one for
\* each window of elapsed time (RiskManager._roll_clock, check and on_open).
THEOREM QuotasKept == Spec => []Quotas
<1>1. IInv => Quotas
  BY BudgetsBound DEF Quotas
<1> QED
  BY <1>1, Invariant, PTL

\* Cash never falls below the drawdown floor of its all-time peak, nor below
\* the day's, by more than one stake (RiskManager.check, on_open, on_close and
\* _roll_clock).
THEOREM FloorsKept == Spec => []Floors
<1>1. IInv => FloorHolds
  BY DEF IInv, Peaks
<1>2. IInv => DayFloorHolds
  BY DEF IInv, DayFloors, AboveDayFloor, DayFloorHolds
<1>3. IInv => Floors
  BY <1>1, <1>2 DEF Floors
<1> QED
  BY <1>3, Invariant, PTL

LEMMA AuthorizedBy ==
  ASSUME IInv, [Next]_vars, Authorized
  PROVE  Authorize
<1>1. ~Close("won") /\ ~Close("refunded") /\ ~Close("lost")
  BY DEF Close, bookkeeping, Authorized
<1>2. /\ ~Reject /\ ~Refuse /\ ~Open /\ ~EngageKill /\ ~ReleaseKill /\ ~UNCHANGED vars
      /\ \A b \in VenueBalances : ~Restart(b)
      /\ \A t \in 0 .. MaxClock : ~ClockForward(t) /\ ~ClockBack(t)
  BY DEF Reject, Refuse, Open, EngageKill, ReleaseKill, Restart, ClockForward, ClockBack, vars, Authorized
<1> QED
  BY <1>1, <1>2 DEF Next

LEMMA AuthorizedFields ==
  ASSUME IInv, [Next]_vars, Authorized
  PROVE  /\ clock >= gov.cooldownUntil /\ ~gov.kill
         /\ steps = 0 => verdict.lockEnd <= clock
<1> DEFINE r == Rolled(gov, clock)
<1>1. TypeOK /\ gov \in Governors /\ clock \in Nat
  BY DEF IInv, Typed, TypeOK
<1>2. Permits(r, clock)
  BY AuthorizedBy DEF Authorize
<1>3. SameMoney(r, gov)
  BY <1>1, RolledFields
<1>4. r.lockedUntil \in Nat /\ verdict.lockEnd \in Nat
  <2>1. r \in Governors
    BY <1>1, RolledFields
  <2> QED
    BY <1>1, <2>1, Numbers DEF TypeOK
<1>5. Serves(gov) => verdict.lockEnd <= clock \/ verdict.lockEnd <= r.lockedUntil
  BY <1>1, RollServes
<1>6. steps = 0 => Serves(gov)
  BY DEF IInv, Locks
<1> HIDE DEF r
<1>7. clock >= r.cooldownUntil /\ clock >= r.lockedUntil /\ ~r.kill
  BY <1>2 DEF Permits, LocksOK
<1> QED
  BY <1>1, <1>3, <1>4, <1>5, <1>6, <1>7 DEF SameMoney

\* While the clock only goes forward no order is authorized before the end
\* of a daily lock (RiskManager.on_close and check).
THEOREM LockKept == Spec => LockHolds
<1>1. IInv /\ [Next]_vars => [Authorized /\ steps = 0 => clock >= verdict.lockEnd]_vars
  <2> SUFFICES ASSUME IInv, [Next]_vars, Authorized, steps = 0
               PROVE  clock >= verdict.lockEnd
    OBVIOUS
  <2>1. clock \in Nat /\ verdict.lockEnd \in Nat
    BY DEF IInv, Typed, TypeOK
  <2> QED
    BY <2>1, AuthorizedFields
<1> QED
  BY <1>1, Invariant, PTL DEF Spec, LockHolds

\* A cooldown is served whatever the clock, the days and the restarts do
\* (RiskManager.on_close and check).
THEOREM CooldownKept == Spec => CooldownServed
<1>1. IInv /\ [Next]_vars => [Authorized => clock >= verdict.coolEnd]_vars
  <2> SUFFICES ASSUME IInv, [Next]_vars, Authorized
               PROVE  clock >= verdict.coolEnd
    OBVIOUS
  <2>1. gov.cooldownUntil = verdict.coolEnd
    BY DEF IInv, Cooldowns, Cools
  <2> QED
    BY <2>1, AuthorizedFields
<1> QED
  BY <1>1, Invariant, PTL DEF Spec, CooldownServed

\* After a settlement breaches the total drawdown no order is authorized
\* until the kill is cleared (RiskManager.on_close, check, release_kill).
THEOREM DrawdownKept == Spec => DrawdownStops
<1>1. IInv /\ [Next]_vars => [Authorized => ~verdict.breached]_vars
  <2> SUFFICES ASSUME IInv, [Next]_vars, Authorized
               PROVE  ~verdict.breached
    OBVIOUS
  <2>1. verdict.breached => gov.kill
    BY DEF IInv, Breaches
  <2> QED
    BY <2>1, AuthorizedFields
<1> QED
  BY <1>1, Invariant, PTL DEF Spec, DrawdownStops

=============================================================================
