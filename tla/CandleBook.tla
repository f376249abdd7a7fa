----------------------------- MODULE CandleBook -----------------------------
(***************************************************************************)
(* One asset's candles: the series the strategies read (data/history.py),  *)
(* the live feed that writes it (data/livefeed.py), the backfill that      *)
(* fills it after a drop (brokers/quotex/sync.py) and the api's cache of   *)
(* venue candles between them (brokers/quotex/api.py).                     *)
(*                                                                         *)
(* Quotes come from the wire's reader.  Three kinds of thread sweep: the   *)
(* one that has healed the wire, the old reader or the pumper, which runs  *)
(* the listeners while it still owns the reconnect lock and the new reader *)
(* reads; the refreshers, one more with every arm that starts the feed     *)
(* again; and the warmers, the engine's retries of a dry warmup and the    *)
(* adoption of an asset.  A candle is its bucket: prices and the closed    *)
(* flag, which decide nothing here, are left out.                          *)
(***************************************************************************)
EXTENDS Integers, Sequences, FiniteSets, SequencesExt

CONSTANTS
  Healer,        \* the owner of the reconnect lock
  Warmers,       \* threads that warm the series
  Refreshers,    \* refresher threads, in the order arms start them: a sequence
  GapBars,       \* backfill_gaps: bars a tail may be behind
  Reply,         \* bars in one history reply
  MaxBars,       \* the series' maxlen
  MaxCache,      \* the cache's limit
  MaxAsked,      \* bound: requests without a reply; one more changes nothing
  MaxBucket,     \* bound: the clock, in buckets
  MaxStarts,     \* bound: starts of the feed
  MaxDrops       \* bound: drops of the link

Sweepers == {Healer} \cup Warmers \cup Range(Refreshers)

ASSUME CandleAssumption ==
  /\ {GapBars, MaxBucket, MaxDrops, MaxStarts} \subseteq Nat
  /\ {Reply, MaxBars, MaxCache} \subseteq Nat \ {0}
  /\ Healer \notin Warmers \cup Range(Refreshers)
  /\ Warmers \cap Range(Refreshers) = {}

VARIABLES
  now,       \* the bucket the clock is in
  line,      \* "up" or "down"
  drops,     \* drops so far
  barred,    \* the newest bucket the venue has announced as closed
  asked,     \* history requests without a reply
  cache,     \* QuotexAPI._candles of this asset: buckets, as they came
  book,      \* the series: buckets, as they were appended
  handlers,  \* times the feed's tick handler and listener are registered
  step,      \* each sweeper: "off", "idle", "ask", "wait", "push"
  again,     \* sweeps the healer still has to run for this reconnect
  left,      \* what each sweeper has fetched, or still has to push
  raced      \* history: who else wrote the series while a sweeper merged

candleVars == <<now, line, drops, barred, asked, cache, book, handlers, step, again,
                left, raced>>

Newest(s) == s[Len(s)]
\* Seeded fault: what is full keeps its oldest.
KeepOldest(s, n) == IF Len(s) <= n THEN s ELSE SubSeq(s, 1, n)
Keep(s, n) == IF Len(s) <= n THEN s ELSE SubSeq(s, Len(s) - n + 1, Len(s))
Bars == Range(book)

---------------------------------------------------------------------------
(* The series. *)

\* CandleSeries.update: any bucket but the newest bar's opens a bar, also an
\* older one.
Updated(s, b) ==
  IF s # <<>> /\ Newest(s) = b THEN s ELSE Keep(Append(s, b), MaxBars)

\* push_closed appends, wherever the bar belongs.
Pushed(s, b) == Keep(Append(s, b), MaxBars)

\* Whoever else is between reading the series and pushing has been overtaken.
Overtaken(others) == [u \in Sweepers |-> raced[u] \/ (u \in others /\ step[u] = "push")]

\* _on_venue_tick: one update per registration of the handler.
Tick(b) ==
  IF handlers = 0 THEN UNCHANGED <<book, raced>>
  ELSE book' = Updated(book, b) /\ raced' = Overtaken(Sweepers)

\* A quote of the current bucket.
Quote ==
  /\ line = "up" /\ handlers > 0
  /\ Tick(now)
  /\ UNCHANGED <<now, line, drops, barred, asked, cache, handlers, step, again, left>>

\* candle-generated: the closed bar into the cache, and a closing tick that
\* carries the bar's opening time.
Generated ==
  /\ line = "up" /\ barred < now - 1
  /\ barred' = now - 1
  /\ cache' = Keep(Append(cache, now - 1), MaxCache)
  /\ Tick(now - 1)
  /\ UNCHANGED <<now, line, drops, asked, handlers, step, again, left>>

\* A history reply lands in the cache, whoever asked for it.
History ==
  /\ line = "up" /\ asked > 0
  /\ asked' = asked - 1
  /\ cache' = Keep(cache \o [i \in 1 .. Reply |-> now - Reply + i - 1], MaxCache)
  /\ UNCHANGED <<now, line, drops, barred, book, handlers, step, again, left, raced>>

---------------------------------------------------------------------------
(* The sweeps. *)

Missing == now - Newest(book)

\* The listener is registered as often as the feed was started.
More == again > 1

\* What a sweeper does when its sweep is over: the healer goes on to the next
\* listener or lets the lock go, a warmer tries again unless this or another
\* asset has candles now.
Done(t) ==
  \/ /\ t = Healer
     /\ again' = IF More THEN again - 1 ELSE 0
     /\ step' = [step EXCEPT ![t] = IF More THEN "ask" ELSE "idle"]
  \/ /\ t # Healer /\ UNCHANGED again
     /\ \E s \in IF t \in Warmers THEN {"idle", "off"} ELSE {"idle"} :
          step' = [step EXCEPT ![t] = s]

\* get_candles sends and waits.
Request(t) ==
  /\ asked' = IF asked < MaxAsked THEN asked + 1 ELSE asked
  /\ step' = [step EXCEPT ![t] = "wait"]
  /\ UNCHANGED again

\* backfill_gaps: nothing to do for an empty series or a fresh tail; a dead
\* link ends the sweep.
Asked(t) ==
  /\ IF book = <<>> \/ Missing <= GapBars \/ line = "down"
     THEN Done(t) /\ UNCHANGED asked
     ELSE Request(t)
  /\ UNCHANGED <<now, line, drops, barred, cache, book, handlers, left, raced>>

\* Seeded fault: a sweep waits for the link, which its own thread restores.
AskPatient(t) == step[t] = "ask" /\ line = "up" /\ Asked(t)
Ask(t) == step[t] = "ask" /\ Asked(t)

\* warm_book, by a retry of the warmup or an adoption: whatever the series has.
Warm(t) ==
  /\ t \in Warmers /\ step[t] = "idle" /\ line = "up"
  /\ Request(t)
  /\ UNCHANGED <<now, line, drops, barred, cache, book, handlers, left, raced>>

Fresh(s) == Range(s) \ Bars

\* Seeded fault: what the fetch repeats is pushed as often.
ToPushRepeated(s) == SortSeq(SelectSeq(s, LAMBDA b : b \in Fresh(s)), <)
\* qxcandles_into_series: oldest first, each once, none the series has.
ToPush(s) ==
  CHOOSE q \in SetToSeqs(Fresh(s)) : \A i, j \in DOMAIN q : i < j => q[i] < q[j]

\* get_candles: enough candles in the cache end the wait, old ones too, and so
\* does its deadline.  The bars are compared with the series once.
Take(t) ==
  /\ step[t] = "wait"
  /\ left' = [left EXCEPT ![t] = ToPush(cache)]
  /\ step' = [step EXCEPT ![t] = "push"]
  /\ UNCHANGED <<now, line, drops, barred, asked, cache, book, handlers, again, raced>>

PushBar(t) ==
  /\ step[t] = "push" /\ left[t] # <<>>
  /\ book' = Pushed(book, Head(left[t]))
  /\ left' = [left EXCEPT ![t] = Tail(@)]
  /\ raced' = Overtaken(Sweepers \ {t})
  /\ UNCHANGED <<now, line, drops, barred, asked, cache, handlers, step, again>>

Finish(t) ==
  /\ step[t] = "push" /\ left[t] = <<>>
  /\ Done(t)
  /\ raced' = [raced EXCEPT ![t] = FALSE]
  /\ UNCHANGED <<now, line, drops, barred, asked, cache, book, handlers, left>>

Sweep(t) == Ask(t) \/ Take(t) \/ PushBar(t) \/ Finish(t)

\* _refresh_loop: its sleep is over.
Refresh(t) ==
  /\ t \in Range(Refreshers) /\ step[t] = "idle"
  /\ step' = [step EXCEPT ![t] = "ask"]
  /\ UNCHANGED <<now, line, drops, barred, asked, cache, book, handlers, again, left, raced>>

\* start(): registers again and starts one more refresher, as long as the
\* instance has one.
Start ==
  /\ handlers < MaxStarts
  /\ handlers' = handlers + 1
  /\ IF handlers < Len(Refreshers)
     THEN step' = [step EXCEPT ![Refreshers[handlers + 1]] = "idle"]
     ELSE UNCHANGED step
  /\ UNCHANGED <<now, line, drops, barred, asked, cache, book, again, left, raced>>

---------------------------------------------------------------------------

Drop ==
  /\ line = "up" /\ drops < MaxDrops
  /\ line' = "down" /\ drops' = drops + 1
  /\ asked' = 0 /\ barred' = MaxBucket
  /\ UNCHANGED <<now, cache, book, handlers, step, again, left, raced>>

\* The owner of the reconnect lock has a wire again and runs every listener
\* before it lets the lock go; the supervisor's api.connect() runs none.
Reconnected ==
  /\ line = "down" /\ step[Healer] = "idle"
  /\ line' = "up" /\ barred' = now - 1
  /\ \/ /\ again' = handlers
        /\ step' = [step EXCEPT ![Healer] = IF handlers > 0 THEN "ask" ELSE "idle"]
     \/ UNCHANGED <<again, step>>
  /\ UNCHANGED <<now, drops, asked, cache, book, handlers, left, raced>>

Clock ==
  /\ now < MaxBucket
  /\ now' = now + 1
  /\ UNCHANGED <<line, drops, barred, asked, cache, book, handlers, step, again, left, raced>>

\* The warmup has put a reply's bars in the series; or this asset, or every
\* one, had none, or it is adopted later: the engine runs with an empty series.
CandleInit ==
  /\ now = Reply /\ line = "up" /\ drops = 0 /\ barred = Reply - 1
  /\ asked = 0
  /\ book \in {<<>>, [i \in 1 .. Reply |-> i - 1]}
  /\ cache = book
  /\ handlers = 0 /\ again = 0
  /\ step = [t \in Sweepers |->
               IF t = Healer \/ (t \in Warmers /\ book = <<>>) THEN "idle" ELSE "off"]
  /\ left = [t \in Sweepers |-> <<>>]
  /\ raced = [t \in Sweepers |-> FALSE]

CandleNext ==
  \/ Quote \/ Generated \/ History \/ Start \/ Drop \/ Reconnected \/ Clock
  \/ \E t \in Sweepers : Sweep(t) \/ Refresh(t) \/ Warm(t)

CandleSpec == CandleInit /\ [][CandleNext]_candleVars

\* Threads run, the venue answers, and whoever may own the reconnect lock
\* restores a lost link.
CandlesFair ==
  /\ WF_candleVars(History) /\ WF_candleVars(Reconnected) /\ WF_candleVars(Start)
  /\ \A t \in Sweepers : WF_candleVars(Sweep(t)) /\ WF_candleVars(Refresh(t))

FairCandles == CandleSpec /\ CandlesFair

---------------------------------------------------------------------------
(* Properties. *)

CandleTypeOK ==
  /\ now \in 0 .. MaxBucket /\ line \in {"up", "down"} /\ drops \in 0 .. MaxDrops
  /\ barred \in Int /\ asked \in 0 .. MaxAsked
  /\ cache \in Seq(0 .. MaxBucket) /\ Len(cache) <= MaxCache
  /\ book \in Seq(0 .. MaxBucket) /\ Len(book) <= MaxBars
  /\ handlers \in 0 .. MaxStarts /\ again \in 0 .. handlers
  /\ step \in [Sweepers -> {"off", "idle", "ask", "wait", "push"}]
  /\ again > 0 <=> step[Healer] # "idle"
  /\ left \in [Sweepers -> Seq(0 .. MaxBucket)]
  /\ raced \in [Sweepers -> BOOLEAN]

\* A sweep on its own never doubles a bar: what it still has to push is in
\* order, each once and not in the series, unless another thread wrote the
\* series since it looked.
SweepsDoNotDouble ==
  \A t \in Sweepers : step[t] = "push" /\ ~raced[t] =>
    /\ Bars \cap Range(left[t]) = {}
    /\ \A i, j \in DOMAIN left[t] : i < j => left[t][i] < left[t][j]

\* When the link is back a series that has ever had a bar catches up: it has
\* one no more than GapBars behind the clock again and again, quotes or no
\* quotes.
CatchesUp ==
  []<>(\/ line = "down" \/ handlers = 0 \/ book = <<>>
       \/ \E b \in Bars : now - b <= GapBars)

\* The listeners run under the reconnect lock, and what they wait for may be
\* asked of a wire that has dropped once more, whose reader finds the lock
\* taken and leaves: the lock comes free and the link is restored again.
HealsAgain == []<>(line = "up")

\* livefeed.py: "If the venue yields zero candles, boot fails loudly (a blind
\* trader is worse than a stopped one)".  Here: the series of a feed that has
\* started is not empty for good.
NeverBlind == []<>(line = "down" \/ handlers = 0 \/ book # <<>>)

\* livefeed.py: "a dropped wire never leaves stale bars in the books".  A bar
\* missed while the link was down gets into the series sooner or later, unless
\* no later bar does either.
HolesAreFilled ==
  \A b \in 0 .. MaxBucket :
    [](line = "down" /\ now = b /\ handlers > 0 /\ b \notin Bars
         => <>(b \in Bars) \/ <>[](\A c \in Bars : c < b))

=============================================================================
