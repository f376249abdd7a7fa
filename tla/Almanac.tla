------------------------------ MODULE Almanac ------------------------------
(***************************************************************************)
(* EconomicCalendar (bot/calendar.py): the releases that are estimated for *)
(* a year without a calendar file, the blackout window around each, and    *)
(* what engine and console ask of them.  A month is the weekday of its     *)
(* first day (Monday is 0); a release is its time, its currency and the    *)
(* half-width of its window.                                               *)
(***************************************************************************)
EXTENDS Integers, Sequences, FiniteSets

\* weekday() of a day of a month.
Weekday(first, day) == (first + day - 1) % 7

Wednesdays(first) == {day \in 1..28 : Weekday(first, day) = 2}

\* The rule of the payrolls: the loop's first hit.
FirstFriday(first) == CHOOSE day \in 1..7 : Weekday(first, day) = 4

\* The n-th Wednesday, of a list the code indexes without a check.
NthWednesday(first, n) ==
  CHOOSE day \in Wednesdays(first) :
    Cardinality({other \in Wednesdays(first) : other <= day}) = n

PayrollDay(first) == FirstFriday(first)
CpiDay(first)     == NthWednesday(first, 2)
FomcDay(first)    == NthWednesday(first, 3)

Release == [ts : Int, currency : STRING, blackout : Nat]

\* Both ends of the window are inside.
ActiveAt(release, now) ==
  release.ts - release.blackout <= now /\ now <= release.ts + release.blackout

ActiveEvents(releases, now, currency) ==
  {release \in releases : release.currency = currency /\ ActiveAt(release, now)}

IsBlackout(releases, now) == \E release \in releases : ActiveAt(release, now)

\* upcoming before its limit: what the console lists.
Upcoming(releases, now, horizon) ==
  {release \in releases :
     now - release.blackout <= release.ts /\ release.ts <= now + horizon}

\* seconds_to_nearest, of the releases that are not over.
SecondsToNearest(releases, now) ==
  LET ahead == {release.ts - now : release \in {r \in releases : r.ts >= now}}
  IN CHOOSE gap \in ahead : \A other \in ahead : gap <= other

\* calendar_for_asset: an asset is its two currencies, its news the second's.
NewsCurrency(asset) == asset[2]

\* The engine trades an asset at this time as far as the calendar goes.
Tradable(releases, now, asset) == ActiveEvents(releases, now, NewsCurrency(asset)) = {}

\* No trade in an asset while a release of either of its currencies is out.
\* False of this code (README): a release of the base currency stops nothing.
ClearOfBoth(releases, now, asset) ==
  Tradable(releases, now, asset)
  => ActiveEvents(releases, now, asset[1]) = {}

===========================================================================
