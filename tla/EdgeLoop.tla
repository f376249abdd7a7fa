------------------------------ MODULE EdgeLoop ------------------------------
(***************************************************************************)
(* From a vote to a lesson and back: the ensemble asks its members, the    *)
(* engine judges what they agree on (quarantine ward, playbook, edge), an  *)
(* order opens and settles, and the settlement teaches the calibrator, the *)
(* journal, the decay ward and the members' own records, which decide who  *)
(* is asked next.  A console may trade or settle between the votes and the *)
(* verdict, the check of the ward may die half-way, and the calibrator's   *)
(* file outlives the process: a session frees its lease before it saves    *)
(* what it learned, so the next one may have read the file already.        *)
(***************************************************************************)
EXTENDS Playbook, Sequences, FiniteSetsExt, TLC

CONSTANTS
  Members,       \* the names of the ensemble's strategies
  Manual,        \* the name a console's signal trades under
  Blob,          \* the ensemble's own name
  Unknown,       \* the name the journal gives a contract the venue brought
  VoteConf,      \* how sure each member is when it votes
  SignalConfs,   \* how sure a blended or manual signal may be
  Payout,        \* what the venue pays, in percent
  RegimeCal,     \* risk.regime_cal
  Window,        \* strategy_decay's window
  JournalLimit,  \* how many of the newest rows it reads
  FloorAttempts, \* a member's trades before its win rate counts
  WinRateFloor,  \* ensemble.win_rate_floor
  Tapes, Places, \* the evidence and the places that occur
  MaxOpen,       \* risk.max_concurrent
  MaxTrades, MaxInjected, MaxBoots, \* bounds of the model: all trades, those after
                 \* which the console only watches, and boots
  NoPlan

ASSUME LoopAssumption ==
  /\ IsFiniteSet(Members) /\ Manual \notin Members /\ Blob \notin Members \cup {Manual}
  /\ Unknown \notin Members \cup {Manual, Blob} /\ RegimeCal \in BOOLEAN
  /\ VoteConf \in [Members -> 0 .. 100] /\ SignalConfs \subseteq 0 .. 100
  /\ {Payout, Window, JournalLimit, FloorAttempts, WinRateFloor} \subseteq Nat \ {0}
  /\ Tapes \subseteq Evidence /\ Places \subseteq Place
  /\ {MaxOpen, MaxTrades, MaxInjected, MaxBoots} \subseteq Nat

VARIABLES
  up,      \* "down", "refused" (boot found the state in use) or "up"
  late,    \* what the sessions know that freed their lease and have yet to save
  tape,    \* the evidence behind regime_of
  plan,    \* the signal the loop is about to try
  open,    \* open orders
  rows,    \* the journal's trades, newest first
  ward,    \* _decay_alerted
  skipped, \* the ensemble's quarantined_votes
  tally,   \* wins and losses of each member
  book,    \* the calibrator
  file,    \* the files it has: none, or the last book saved
  trades, boots,
  checked, \* history: the last settlement's check of the ward came to its end
  unread,  \* history: a boot could not read the file
  overlap  \* history: a session booted before an earlier one had saved

vars == <<up, late, tape, plan, open, rows, ward, skipped, tally, book, file,
          trades, boots, checked, unread, overlap>>

-----------------------------------------------------------------------------
(* The calibrator: wins and totals by strategy, by regime and over all *)

Unseen == [wins |-> 0, total |-> 0]

Row(t, k) == IF k \in DOMAIN t THEN t[k] ELSE Unseen

Taught(t, k, won) ==
  (k :> [wins |-> Row(t, k).wins + (IF won THEN 1 ELSE 0), total |-> Row(t, k).total + 1]) @@ t

\* Ten buckets from 0.50 up; a confidence below them falls through to the last.
Bucket(conf) == IF conf < 50 THEN 9 ELSE Least((conf - 50) \div 5, 9)

Blank == [own |-> <<>>, regime |-> <<>>, all |-> <<>>, observed |-> 0]

Observe(b, name, conf, won, regime) ==
  LET k == Bucket(conf)
  IN  [own |-> Taught(b.own, <<name, k>>, won),
       regime |-> IF regime = "" THEN b.regime ELSE Taught(b.regime, <<name, regime, k>>, won),
       all |-> Taught(b.all, k, won), observed |-> b.observed + 1]

ObserveVotes(b, votes, won, regime) ==
  LET taught == FoldSet(LAMBDA m, acc : Observe(acc, m, VoteConf[m], won, regime), b, votes)
  IN  [own |-> taught.own, regime |-> taught.regime, all |-> taught.all,
       observed |-> b.observed + Cardinality(votes)]

\* Probabilities in thousandths: a bucket's posterior, blended with the raw
\* opinion while the bucket is thin, then with the regime's own rows.
Posterior(r) == (1000 * (r.wins + 2)) \div (r.total + 4)

RawShrunk(conf) == 250 + 5 * conf

PFor(b, name, conf) ==
  LET own == Row(b.own, <<name, Bucket(conf)>>)
      r   == IF own.total > 0 THEN own ELSE Row(b.all, Bucket(conf))
  IN  (r.total * Posterior(r) + 20 * RawShrunk(conf)) \div (r.total + 20)

PRegime(b, name, regime, conf) ==
  LET base == PFor(b, name, conf)
      r    == Row(b.regime, <<name, regime, Bucket(conf)>>)
  IN  IF ~RegimeCal \/ r.total < 4 THEN base ELSE (r.total * Posterior(r) + 8 * base) \div (r.total + 8)

\* Voters may lower the blend's own estimate, never raise it.
PWin(b, name, conf, votes, regime) ==
  LET base == PRegime(b, name, regime, conf)
      sum  == FoldSet(LAMBDA m, acc : acc + PRegime(b, m, regime, VoteConf[m]), 0, votes)
  IN  IF votes = {} THEN base
      ELSE Least(base, (sum + 2 * base) \div (Cardinality(votes) + 2))

-----------------------------------------------------------------------------
(* The journal and the ward *)

Newest(s, n) == SubSeq(s, 1, Least(n, Len(s)))

Of(js, name) == SelectSeq(Newest(js, JournalLimit), LAMBDA r : r.name = name)

Wins(js) == Cardinality({i \in DOMAIN js : js[i].won})

\* A name speaks once it has a recent and a prior window of trades.
Speaks(js, name) == Len(Of(js, name)) >= 2 * Window

Decaying(js, name) ==
  LET recent == SubSeq(Of(js, name), 1, Window)
      prior  == SubSeq(Of(js, name), Window + 1, 2 * Window)
  IN  100 * (Wins(recent) - Wins(prior)) < -12 * Window

Names == Members \cup {Manual, Blob, Unknown}

\* The names that speak, one after the other, enter or leave the ward; a check
\* that dies on the way has looked at some of them, the worst first.
Seen(js, some) == (ward \ some) \cup {n \in some : Decaying(js, n)}

Speakers(js) == {n \in Names : Speaks(js, n)}

Warded(js) == Seen(js, Speakers(js))

-----------------------------------------------------------------------------
(* The ensemble *)

Benched(m) ==
  LET t == tally[m] IN
  t.wins + t.losses >= FloorAttempts /\ 100 * t.wins < WinRateFloor * (t.wins + t.losses)

Asked == {m \in Members : ~Benched(m) /\ m \notin skipped}

\* A blend goes to a side somebody voted for; in crisis and gap three in four
\* of the voters must stand behind it.
Carried(calls, puts, side, e) ==
  LET group == IF side = "call" THEN calls ELSE puts
  IN  /\ group # {}
      /\ Regime(e) \in {"crisis", "gap"} => 4 * Cardinality(group) >= 3 * Cardinality(calls \cup puts)

\* The strongest vote for the side earns the order.
Attributed(same) == CHOOSE m \in same : \A k \in same : VoteConf[k] <= VoteConf[m]

-----------------------------------------------------------------------------
(* One decision: a candle closes and the members vote, then the engine judges *)

Candle ==
  /\ up = "up" /\ plan = NoPlan /\ trades < MaxTrades
  /\ \E e \in Tapes :
       /\ tape' = e
       /\ \/ \E calls \in SUBSET Asked : \E puts \in SUBSET (Asked \ calls), side \in {"call", "put"}, conf \in SignalConfs :
               /\ Carried(calls, puts, side, e)
               /\ plan' = [from |-> Blob, side |-> side, conf |-> conf, votes |-> calls \cup puts,
                           name |-> Attributed(IF side = "call" THEN calls ELSE puts)]
          \/ plan' = plan
  /\ UNCHANGED <<up, late, open, rows, ward, skipped, tally, book, file, trades, boots, checked, unread, overlap>>

Expiry == 60

CandidateOf(s) == [side |-> s.side, conf |-> s.conf, expiry |-> Expiry, family |-> "ensemble"]

Cleared(s, e, p) ==
  /\ s.name \notin ward
  /\ Allowed(e, p, CandidateOf(s))
  /\ EdgeClears(EdgeOf(PWin(book, s.from, s.conf, s.votes, Regime(e)), Payout))

Order(s, e) ==
  [id |-> trades, name |-> s.name, conf |-> s.conf, votes |-> s.votes, regime |-> Regime(e)]

\* Judged and submitted; the OMS may still veto it.
TryExecute(s, e) ==
  \/ /\ \E p \in Places : Cleared(s, e, p)
     /\ Cardinality(open) < MaxOpen
     /\ open' = open \cup {Order(s, e)} /\ trades' = trades + 1
  \/ UNCHANGED <<open, trades>>

Execute ==
  /\ up = "up" /\ plan # NoPlan /\ plan' = NoPlan
  /\ TryExecute(plan, tape)
  /\ UNCHANGED <<up, late, tape, rows, ward, skipped, tally, book, file, boots, checked, unread, overlap>>

\* A console's signal is judged on the latest reading, like any other.
InjectSignal ==
  /\ up = "up" /\ trades < MaxInjected
  /\ \E side \in {"call", "put"}, conf \in SignalConfs :
       /\ TryExecute([from |-> Manual, side |-> side, conf |-> conf, votes |-> {}, name |-> Manual], tape)
       /\ trades' # trades
  /\ UNCHANGED <<up, late, tape, plan, rows, ward, skipped, tally, book, file, boots, checked, unread, overlap>>

-----------------------------------------------------------------------------
(* One settlement: the whole of _on_settle, under the OMS lock *)

\* A contract without an order teaches the calibrator about "manual".
TaughtAs(name) == IF name = Unknown THEN Manual ELSE name

Lessons(o, won) ==
  ObserveVotes(Observe(book, TaughtAs(o.name), o.conf, won, o.regime), o.votes, won, o.regime)

Reinforced(o, won) ==
  [m \in Members |->
     IF m \notin o.votes THEN tally[m]
     ELSE [wins |-> tally[m].wins + (IF won THEN 1 ELSE 0),
           losses |-> tally[m].losses + (IF won THEN 0 ELSE 1)]]

\* Seeded fault: the ward is checked before the row is written.
WardNow(old, new) == Warded(old)

\* The row is written first, so the check sees it.
WardAfter(old, new) == Warded(new)

\* Without a journal, and on any exception, the check stops where it is: the
\* row stays written and the ensemble keeps the ward it had.
CheckDecay ==
  \/ ward' = WardAfter(rows, rows') /\ skipped' = ward' /\ checked' = TRUE
  \/ /\ \E some \in SUBSET Speakers(rows') : ward' = Seen(rows', some)
     /\ checked' = FALSE /\ UNCHANGED skipped

Settle ==
  /\ up = "up"
  /\ \E o \in open, won \in BOOLEAN :
       /\ open' = open \ {o}
       /\ book' = Lessons(o, won)
       /\ rows' \in {rows, <<[name |-> o.name, won |-> won]>> \o rows}
       /\ tally' = Reinforced(o, won)
  /\ CheckDecay
  /\ UNCHANGED <<up, late, tape, plan, file, trades, boots, unread, overlap>>

-----------------------------------------------------------------------------
(* The process *)

\* Seeded fault: whatever the session knows is written.
SavedAnyway(b, f) == <<b>>

\* An empty session never overwrites a ledger.
Saved(b, f) == IF b.observed = 0 /\ f # <<>> THEN f ELSE <<b>>

Gone ==
  /\ up' = "down" /\ plan' = NoPlan /\ open' = {} /\ book' = Blank
  /\ ward' = {} /\ skipped' = {} /\ tally' = [m \in Members |-> [wins |-> 0, losses |-> 0]]
  /\ checked' = FALSE
  /\ UNCHANGED <<tape, rows, trades, boots, unread, overlap, file>>

\* A shutdown up to continuity.release(): the loop has ended and the lease is
\* free, the wire, the tape and the bell are still to be detached.
Release == up # "down" /\ Gone /\ late' = late \cup {book}

\* The end of a shutdown.  The save may fail, and is then only logged, or not be
\* reached: the process may die first.
PersistCalibration ==
  /\ \E b \in late : late' = late \ {b} /\ file' \in {file, Saved(b, file)}
  /\ UNCHANGED <<up, tape, plan, open, rows, ward, skipped, tally, book, trades, boots,
                 checked, unread, overlap>>

Crash == up # "down" /\ Gone /\ UNCHANGED late

\* Contracts the venue still holds and this process did not place are adopted;
\* they settle and teach like any other.
Stray == [id |-> trades, name |-> Unknown, conf |-> 60, votes |-> {}, regime |-> ""]

Adopted ==
  \/ UNCHANGED <<open, trades>>
  \/ /\ trades < MaxTrades /\ trades' = trades + 1
     /\ open' = {Stray}

\* acquire() refuses before the calibrator is restored; a file that cannot be
\* read starts the calibrator cold.
Boot ==
  /\ up = "down" /\ boots < MaxBoots
  /\ boots' = boots + 1 /\ overlap' = (overlap \/ late # {})
  /\ \/ /\ up' = "up" /\ book' = (IF file = <<>> THEN Blank ELSE file[1]) /\ Adopted /\ UNCHANGED unread
     \/ /\ up' = "up" /\ file # <<>> /\ book' = Blank /\ Adopted /\ unread' = TRUE
     \/ /\ up' = "refused" /\ UNCHANGED <<book, unread, open, trades>>
  /\ UNCHANGED <<late, tape, plan, rows, ward, skipped, tally, file, checked>>

Init ==
  /\ up = "down" /\ tape \in Tapes /\ plan = NoPlan /\ open = {} /\ rows = <<>>
  /\ ward = {} /\ skipped = {} /\ tally = [m \in Members |-> [wins |-> 0, losses |-> 0]]
  /\ book = Blank /\ file = <<>> /\ trades = 0 /\ boots = 0
  /\ late = {} /\ checked = FALSE /\ unread = FALSE /\ overlap = FALSE

Next ==
  \/ Candle \/ Execute \/ InjectSignal \/ Settle
  \/ Boot \/ Release \/ PersistCalibration \/ Crash

Spec == Init /\ [][Next]_vars

-----------------------------------------------------------------------------
(* What the loop promises *)

\* Whatever earlier checks left half done, one that comes to its end leaves
\* exactly the decaying names in the ward among those with two windows of
\* trades, and the ensemble skipping the ward; that holds until a check dies
\* again (TradingEngine._check_decay, strategy_decay).
WardFollowsJournal ==
  checked => /\ skipped = ward
             /\ \A n \in Speakers(rows) : n \in ward <=> Decaying(rows, n)

\* What the calibrator's file knows is never replaced by less, unless a boot
\* could not read it or read it before an earlier session had saved: no crash,
\* refused boot, failed save or empty session erases lessons
\* (CalibrationTracker.save).
KeepsLessons == file # <<>> => file' # <<>> /\ file'[1].observed >= file[1].observed

LessonsKept == [][~unread /\ ~overlap => KeepsLessons]_vars

\* TLC refutes it: a session that booted between another's release and its save
\* writes fewer lessons over more (TradingEngine._restore_calibration: "so
\* learning survives process death").
LearningSurvives == [][~unread => KeepsLessons]_vars

\* TLC refutes it: a check that dies after the first name leaves the ensemble
\* with the old ward (_check_decay: "keep the ensemble's voter skip in lockstep
\* with the ward").
VoterSkipInLockstep == skipped = ward

\* The signal the loop is about to try would meet no bolder posture, no bigger
\* stake and no freer verdict on a harder tape, at any place (Survivor.evaluate,
\* RiskManager.size_stake).
TapeHeeded ==
  plan # NoPlan => \A f \in Tapes \ {tape}, p \in Places : Heeded(tape, f, p, CandidateOf(plan))

=============================================================================
