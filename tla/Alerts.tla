------------------------------ MODULE Alerts ------------------------------
(***************************************************************************)
(* AlertCenter (bot/alerts.py): the rules that turn events of the bus into *)
(* alerts.  Its handlers take no lock between looking at _seen or at the   *)
(* last equity and writing them; BALANCE comes under the OMS lock and NEWS *)
(* from the engine's loop, so each call is one step (EventBus, Serial).    *)
(* An alert is its kind; what it says and how it is delivered is left out. *)
(***************************************************************************)
EXTENDS Integers, Sequences

CONSTANTS
  Rules,        \* the rules that are switched on
  LossLimit,    \* trade_loss_above
  MovePercent,  \* equity_move_pct
  Equities,     \* the equities a BALANCE event may report
  TargetDays,         \* the days on which a daily target may be hit
  Windows,      \* news windows: title and time
  MaxHistory    \* max_history

VARIABLES
  attached,     \* _subscribed
  lastEquity,   \* _last_equity (0: none)
  seen,         \* _seen
  alerts,       \* _history
  rung          \* history: the alerts fired for each key

alertVars == <<attached, lastEquity, seen, alerts, rung>>

Keys == TargetDays \cup Windows

\* fire: remember, then ring, post and publish.
Fire(kinds) ==
  alerts' =
    LET grown == alerts \o kinds
    IN SubSeq(grown, IF Len(grown) > MaxHistory THEN Len(grown) - MaxHistory + 1 ELSE 1,
              Len(grown))

Halts == {"halt", "halted", "no_trade", "kill_switch"}
Locks == {"drawdown_lock", "locked", "daily_lock"}
Blackouts == {"news_lock", "news_blackout"}

\* The alert for a RISK event; a veto of the survivor counts when its reason
\* speaks of news.
RiskAlert(kind, ofNews) ==
  CASE kind \in Halts /\ "halt" \in Rules -> <<"halt">>
    [] kind \in Locks /\ "drawdown_lock" \in Rules -> <<"drawdown_lock">>
    [] /\ "news_lock" \in Rules
       /\ kind \in Blackouts \/ (kind = "survivor_veto" /\ ofNews) -> <<"news_lock">>
    [] OTHER -> <<>>

OnRisk(kind, ofNews) ==
  /\ attached /\ Fire(RiskAlert(kind, ofNews))
  /\ UNCHANGED <<attached, lastEquity, seen, rung>>

OnKill ==
  /\ attached
  /\ Fire(IF "kill_switch" \in Rules THEN <<"kill_switch">> ELSE <<>>)
  /\ UNCHANGED <<attached, lastEquity, seen, rung>>

OnTrade(pnl) ==
  /\ attached
  /\ Fire(IF pnl <= -LossLimit THEN <<"big_loss">> ELSE <<>>)
  /\ UNCHANGED <<attached, lastEquity, seen, rung>>

Distance(x, y) == IF x < y THEN y - x ELSE x - y

\* A swing since the last event, in per cent of the equity then.
Moved(equity) ==
  lastEquity > 0 /\ 100 * Distance(equity, lastEquity) >= MovePercent * lastEquity

Ring(key) == seen' = seen \cup {key} /\ rung' = [rung EXCEPT ![key] = @ + 1]

OnAccount(equity, day, targetHit) ==
  /\ attached
  /\ lastEquity' = equity
  /\ LET move == IF Moved(equity) THEN <<"equity_move">> ELSE <<>>
     IN \/ /\ targetHit /\ "daily_target_hit" \in Rules /\ day \notin seen
           /\ Ring(day) /\ Fire(move \o <<"daily_target">>)
        \/ /\ ~(targetHit /\ "daily_target_hit" \in Rules /\ day \notin seen)
           /\ Fire(move) /\ UNCHANGED <<seen, rung>>
  /\ UNCHANGED attached

OnNews(window) ==
  /\ attached
  /\ \/ /\ "news_lock" \in Rules /\ window \notin seen
        /\ Ring(window) /\ Fire(<<"news_window">>)
     \/ /\ ("news_lock" \notin Rules \/ window \in seen)
        /\ UNCHANGED <<seen, rung, alerts>>
  /\ UNCHANGED <<attached, lastEquity>>

\* attach does nothing the second time, detach always unsubscribes.
AttachAlerts ==
  /\ attached' = TRUE /\ UNCHANGED <<lastEquity, seen, alerts, rung>>
DetachAlerts ==
  /\ attached' = FALSE /\ UNCHANGED <<lastEquity, seen, alerts, rung>>

AlertInit ==
  /\ attached = FALSE /\ lastEquity = 0 /\ seen = {} /\ alerts = <<>>
  /\ rung = [key \in Keys |-> 0]

AlertNext ==
  \/ \E kind \in Halts \cup Locks \cup Blackouts \cup {"survivor_veto", "other"},
        ofNews \in BOOLEAN : OnRisk(kind, ofNews)
  \/ OnKill \/ \E pnl \in {-LossLimit, 1 - LossLimit} : OnTrade(pnl)
  \/ \E equity \in Equities, day \in TargetDays, hit \in BOOLEAN : OnAccount(equity, day, hit)
  \/ \E window \in Windows : OnNews(window)
  \/ AttachAlerts \/ DetachAlerts

AlertSpec == AlertInit /\ [][AlertNext]_alertVars

---------------------------------------------------------------------------
(* Properties. *)

AlertKinds == {"halt", "drawdown_lock", "news_lock", "kill_switch", "big_loss",
          "equity_move", "daily_target", "news_window"}

AlertTypeOK ==
  /\ attached \in BOOLEAN /\ lastEquity \in Nat /\ seen \subseteq Keys
  /\ alerts \in Seq(AlertKinds) /\ rung \in [Keys -> Nat]

\* However often the engine is vetoed in one news window or the account is
\* reported above its target, and through any re-attach, each rings once.
RingsOnce == \A key \in Keys : rung[key] <= 1 /\ (rung[key] = 1 <=> key \in seen)

===========================================================================
