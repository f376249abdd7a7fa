----------------------------- MODULE TradeBook -----------------------------
(***************************************************************************)
(* The money path of the live runtime: OrderManager (execution/oms.py),    *)
(* Ledger (execution/ledger.py), the exposure counters and kill latch of   *)
(* RiskManager (risk/manager.py), the position book of QuotexBroker        *)
(* (brokers/quotex/adapter.py) and the durable intent/commit bracket of    *)
(* Continuity (continuity.py), with crashes, restarts and the operator.    *)
(*                                                                         *)
(* The OMS lock serializes transactions: op and step say which mutation    *)
(* holds it and where in its body it is.  The venue's reader thread takes  *)
(* no part in that lock, so VenueResult interleaves with every step; so    *)
(* do crashes, the unlocked half of kill() and shutdown(), which stops the *)
(* loop, waits three seconds for it, commits, frees the lease and leaves:  *)
(* when the loop stays, it holds the runtime over whatever is under way.   *)
(*                                                                         *)
(* Every contract has the same stake, profit and salvage (amounts are      *)
(* data), so a set of contracts stands for its money.                      *)
(***************************************************************************)
EXTENDS Integers, FiniteSets

CONSTANTS
  Orders,         \* order identities; each may become one venue contract
  Assets,         \* instruments
  AssetOf,        \* the instrument an order is for
  Stake,          \* order.amount
  Profit,         \* stake * payout
  Salvage,        \* stake * salvage_rate, what a sell-back returns on a loss
  MaxConcurrent,  \* RiskConfig.max_concurrent
  VenueBalances,  \* balances broker.account() may report at boot
  NoOrder,        \* no order in hand
  MaxEnds         \* bound: processes that crash or are asked to shut down

ASSUME OrdersAssumption == IsFiniteSet(Orders) /\ NoOrder \notin Orders
ASSUME AssetsAssumption == AssetOf \in [Orders -> Assets]
ASSUME MoneyAssumption ==
  /\ Stake \in Nat \ {0} /\ Profit \in Nat /\ Salvage \in Nat
  /\ VenueBalances \subseteq Nat
ASSUME CapAssumption == MaxConcurrent \in Nat /\ MaxEnds \in Nat

VARIABLES
  up,          \* "down", "booting" (venue connected) or "ready"
  loop,        \* the engine thread is alive
  running,     \* engine._running
  orders,      \* oms.orders: the accepted orders of this process
  positions,   \* broker._positions, by the order each contract belongs to
  adopted,     \* contracts reconcile_venue folded in at boot ("venue:<id>")
  pending,     \* broker._pending: salvage settlements awaiting delivery
  batch,       \* settlements the running pump still has to book
  booked,      \* how many trade records each contract has (oms.trades)
  cash,        \* ledger.balance
  riskCash,    \* risk.state.current_balance
  openCount,   \* risk.state.open_count
  stakeSum,    \* risk.state.open_stake_sum
  openAssets,  \* risk.state.open_assets
  kill,        \* risk.state.kill
  killing,     \* kill() was called and waits for the OMS lock
  fault,       \* continuity.fault is set: the recovery hold
  op,          \* the mutation that holds the OMS lock; "none": it is free
  step,        \* where in its body that mutation is
  cur,         \* the order or position it is about
  stop,        \* where engine.shutdown() is
  past,        \* a thread passed assert_ready just before it would have raised
  disk,        \* the checkpoint file
  venue,       \* each contract at the venue: "none", "open" or "closed"
  outstanding, \* history: contracts sent and not yet booked or reviewed
  worth,       \* history: boot cash plus adopted stakes plus booked pnl
  ends         \* history: processes that have begun to end

engineVars   == <<loop, running>>
bookVars     == <<orders, positions, adopted, pending, batch, booked>>
exposureVars == <<openCount, stakeSum, openAssets>>
holdVars     == <<kill, fault>>
txnVars      == <<op, step, cur>>
shutVars     == <<stop, past>>
vars == <<up, engineVars, bookVars, cash, riskCash, exposureVars, holdVars,
          killing, txnVars, shutVars, disk, venue, outstanding, worth, ends>>

---------------------------------------------------------------------------
(* Money: Settlement.pnl and Settlement.returned (data/models.py). *)

Outcomes == {"won", "lost", "refunded", "salvaged"}

Returned(outcome) ==
  CASE outcome = "won"      -> Stake + Profit
    [] outcome = "refunded" -> Stake
    [] outcome = "salvaged" -> Salvage
    [] outcome = "lost"     -> 0

Pnl(outcome) == Returned(outcome) - Stake

Settlements == [order : Orders, outcome : Outcomes]

NoExposure == [a \in Assets |-> 0]

AtLeastZero(n) == IF n < 0 THEN 0 ELSE n   \* max(0, n) of on_close

---------------------------------------------------------------------------
(* The durable checkpoint (continuity.py). *)

Blank == [saved |-> FALSE, op |-> "none", kill |-> FALSE, count |-> 0,
          stake |-> 0, assets |-> NoExposure, orders |-> {}]

\* The order registry _snapshot saves: accepted orders the broker still holds.
Registry == orders \cap positions

\* The cross-checks of _validate: one cash figure, and a governor exposure
\* that is exactly the registry.
SnapshotOK ==
  /\ riskCash = cash
  /\ openCount = Cardinality(Registry)
  /\ stakeSum = Stake * Cardinality(Registry)
  /\ \A a \in Assets :
       openAssets[a] = Cardinality({o \in Registry : AssetOf[o] = a})

\* Seeded fault: the BEFORE record carries no in-flight marker.
CheckpointUnmarked(operation) ==
  [saved |-> TRUE, op |-> "none", kill |-> kill, count |-> openCount,
   stake |-> stakeSum, assets |-> openAssets, orders |-> Registry]

Checkpoint(operation) ==
  [saved |-> TRUE, op |-> operation, kill |-> kill, count |-> openCount,
   stake |-> stakeSum, assets |-> openAssets, orders |-> Registry]

Hold == fault' = TRUE /\ kill' = TRUE /\ running' = FALSE

LockFree == up = "ready" /\ op = "none"

\* assert_ready, in begin and in commit: no hold, and the lease not yet freed.
Ready == past \/ (~fault /\ stop # "leaving")

\* A write that fails has replaced the file, or has not: the directory is
\* synced after the replacement (statestore.save_state).
FailedWrite(operation) ==
  disk' = disk \/ (SnapshotOK /\ disk' = Checkpoint(operation))

\* oms.transaction: the BEFORE record, then the body's first step.  A
\* snapshot that does not validate, or a write that fails, holds the runtime
\* and the body never runs.
Begin(operation, first, o) ==
  /\ LockFree /\ Ready
  /\ \/ /\ SnapshotOK
        /\ disk' = Checkpoint(operation)
        /\ op' = operation /\ step' = first /\ cur' = o
        /\ UNCHANGED <<holdVars, running>>
     \/ /\ Hold /\ FailedWrite(operation)
        /\ UNCHANGED txnVars
  /\ past' = FALSE
  /\ UNCHANGED <<up, loop, bookVars, cash, riskCash, exposureVars, venue,
                 outstanding, worth, ends, stop>>

Release == op' = "none" /\ step' = "none" /\ cur' = NoOrder

\* Seeded fault: the end of a transaction does not ask for a hold again.
CommitRegardless ==
  /\ up = "ready" /\ step = "commit"
  /\ Release
  /\ \/ /\ SnapshotOK
        /\ disk' = Checkpoint("none")
        /\ UNCHANGED <<holdVars, running>>
     \/ Hold /\ FailedWrite("none")
  /\ past' = FALSE
  /\ UNCHANGED <<up, loop, bookVars, cash, riskCash, exposureVars, killing,
                 venue, outstanding, worth, ends, stop>>

\* The AFTER record with the marker cleared; when it does not validate or its
\* write fails the runtime holds.  Nothing is written once a hold has struck
\* or the lease is gone: the BEFORE record stays.
Commit ==
  /\ up = "ready" /\ step = "commit"
  /\ Release
  /\ \/ /\ Ready /\ SnapshotOK
        /\ disk' = Checkpoint("none")
        /\ UNCHANGED <<holdVars, running>>
     \/ Ready /\ Hold /\ FailedWrite("none")
     \/ ~Ready /\ UNCHANGED <<disk, holdVars, running>>
  /\ past' = FALSE
  /\ UNCHANGED <<up, loop, bookVars, cash, riskCash, exposureVars, killing,
                 venue, outstanding, worth, ends, stop>>

At(operation, where) == up = "ready" /\ op = operation /\ step = where

Goto(where) == step' = where /\ UNCHANGED <<op, cur>>

---------------------------------------------------------------------------
(* Submitting an order (oms.submit, adapter.submit). *)

BeginSubmit(o) ==
  /\ venue[o] = "none"
  /\ Begin("submit", "authorize", o)
  /\ UNCHANGED killing

\* The checks of RiskManager.check that read this module's state.
KillOff       == ~kill
AssetFree(o)  == openAssets[AssetOf[o]] < 1
SlotFree      == openCount < MaxConcurrent
BalanceCovers == 2 * Stake <= riskCash

\* Any other check of the governor may veto: payout, confidence, cooldown...
Veto ==
  /\ At("submit", "authorize")
  /\ Goto("commit")
  /\ UNCHANGED <<up, engineVars, bookVars, cash, riskCash, exposureVars,
                 holdVars, killing, disk, venue, outstanding, worth, ends, shutVars>>

\* risk.authorize passes and ledger.stake takes the money.
Authorize ==
  /\ At("submit", "authorize")
  /\ KillOff /\ AssetFree(cur) /\ SlotFree /\ BalanceCovers
  /\ cash' = cash - Stake
  /\ Goto("route")
  /\ UNCHANGED <<up, engineVars, bookVars, riskCash, exposureVars, holdVars,
                 killing, disk, venue, outstanding, worth, ends, shutVars>>

\* Seeded fault: a refused order keeps its stake.
RefuseUnrefunded ==
  /\ At("submit", "route")
  /\ Goto("commit")
  /\ UNCHANGED <<up, engineVars, bookVars, cash, riskCash, exposureVars,
                 holdVars, killing, disk, venue, outstanding, worth, ends, shutVars>>

\* broker.submit raises OrderRejected (no wire, no quote): the stake returns.
Refuse ==
  /\ At("submit", "route")
  /\ cash' = cash + Stake
  /\ Goto("commit")
  /\ UNCHANGED <<up, engineVars, bookVars, riskCash, exposureVars, holdVars,
                 killing, disk, venue, outstanding, worth, ends, shutVars>>

\* api.buy puts the frame on the wire; the venue opens or refuses it.
Send ==
  /\ At("submit", "route")
  /\ \E s \in {"open", "closed"} : venue' = [venue EXCEPT ![cur] = s]
  /\ outstanding' = outstanding \cup {cur}
  /\ Goto("register")
  /\ UNCHANGED <<up, engineVars, bookVars, cash, riskCash, exposureVars,
                 holdVars, killing, disk, worth, ends, shutVars>>

\* Any other exception (the socket died before, in or after the send): the
\* transaction aborts, nothing is refunded, and the runtime holds.
SendBroken ==
  /\ At("submit", "route")
  /\ \/ /\ venue' = [venue EXCEPT ![cur] = "open"]
        /\ outstanding' = outstanding \cup {cur}
     \/ UNCHANGED <<venue, outstanding>>
  /\ Hold /\ Release
  /\ UNCHANGED <<up, loop, bookVars, cash, riskCash, exposureVars, killing,
                 disk, worth, ends, shutVars>>

\* Seeded fault: the governor is not told the balance after an open.
RegisterStaleBalance ==
  /\ At("submit", "register")
  /\ positions' = positions \cup {cur}
  /\ orders' = orders \cup {cur}
  /\ openCount' = openCount + 1
  /\ stakeSum' = stakeSum + Stake
  /\ openAssets' = [openAssets EXCEPT ![AssetOf[cur]] = @ + 1]
  /\ Goto("commit")
  /\ UNCHANGED <<up, engineVars, adopted, pending, batch, booked, cash,
                 riskCash, holdVars, killing, disk, venue, outstanding, worth,
                 ends, shutVars>>

\* The fill and position are recorded, the order joins the registry, and
\* risk.on_open and risk.update_balance account for it.
Register ==
  /\ At("submit", "register")
  /\ positions' = positions \cup {cur}
  /\ orders' = orders \cup {cur}
  /\ openCount' = openCount + 1
  /\ stakeSum' = stakeSum + Stake
  /\ openAssets' = [openAssets EXCEPT ![AssetOf[cur]] = @ + 1]
  /\ riskCash' = cash
  /\ Goto("commit")
  /\ UNCHANGED <<up, engineVars, adopted, pending, batch, booked, cash,
                 holdVars, killing, disk, venue, outstanding, worth, ends, shutVars>>

---------------------------------------------------------------------------
(* Settling (oms.pump, adapter.settle_due, ledger.record_settlement,       *)
(* risk.on_close).                                                         *)

\* Seeded fault: the loop pumps only when a salvage is waiting.
BeginPumpIfPending ==
  /\ loop /\ pending # {}
  /\ Begin("settle", "collect", NoOrder)
  /\ UNCHANGED killing

BeginPump ==
  /\ loop
  /\ Begin("settle", "collect", NoOrder)
  /\ UNCHANGED killing

\* settle_due: the pending salvages, and every contract past its local
\* expiry whose asset has a price, at that price.
Collect(expired) ==
  /\ up = "ready" /\ step = "collect"
  /\ \E result \in [expired -> {"won", "lost", "refunded"}] :
       batch' = pending \cup
         {[order |-> o, outcome |-> result[o]] : o \in expired}
  /\ pending' = {}
  /\ positions' = positions \ expired
  /\ Goto("book")
  /\ UNCHANGED <<up, engineVars, orders, adopted, booked, cash, riskCash,
                 exposureVars, holdVars, killing, disk, venue, outstanding,
                 worth, ends, shutVars>>

\* One settlement: ledger credit and trade record; risk.on_close when the
\* order is one of ours, which may trip the total-drawdown kill.
Book(s) ==
  /\ up = "ready" /\ step = "book" /\ s \in batch
  /\ batch' = batch \ {s}
  /\ cash' = cash + Returned(s.outcome)
  /\ riskCash' = cash'
  /\ worth' = worth + Pnl(s.outcome)
  /\ booked' = [booked EXCEPT ![s.order] = @ + 1]
  /\ outstanding' = outstanding \ {s.order}
  /\ \/ /\ s.order \in orders
        /\ openCount' = AtLeastZero(openCount - 1)
        /\ stakeSum' = AtLeastZero(stakeSum - Stake)
        /\ openAssets' =
             [openAssets EXCEPT ![AssetOf[s.order]] = AtLeastZero(@ - 1)]
        /\ \/ UNCHANGED <<kill, running>>
           \/ kill' = TRUE /\ running' = FALSE
     \/ /\ s.order \notin orders
        /\ UNCHANGED <<exposureVars, kill, running>>
  /\ UNCHANGED <<up, loop, orders, positions, adopted, pending, fault, killing,
                 txnVars, disk, venue, ends, shutVars>>

BookDone ==
  /\ up = "ready" /\ step = "book" /\ batch = {}
  /\ riskCash' = cash
  /\ Goto("commit")
  /\ UNCHANGED <<up, engineVars, bookVars, cash, exposureVars, holdVars,
                 killing, disk, venue, outstanding, worth, ends, shutVars>>

---------------------------------------------------------------------------
(* Closing early: the lifeboat and the operator's close button             *)
(* (oms.close_position, adapter.close_position).                           *)

BeginClose(o) ==
  /\ o \in positions
  /\ Begin("close", "sell", o)
  /\ UNCHANGED killing

\* The position left the book while the close waited: return False.
CloseGone ==
  /\ At("close", "sell") /\ cur \notin positions
  /\ Goto("commit")
  /\ UNCHANGED <<up, engineVars, bookVars, cash, riskCash, exposureVars,
                 holdVars, killing, disk, venue, outstanding, worth, ends, shutVars>>

\* The sell-back frame is best effort: the venue closes the contract, or
\* refuses, or never hears of it.  No broker lock is held from here on.
Sell ==
  /\ At("close", "sell") /\ cur \in positions
  /\ \/ venue' = [venue EXCEPT ![cur] = "closed"]
     \/ UNCHANGED venue
  /\ Goto("mark")
  /\ UNCHANGED <<up, engineVars, bookVars, cash, riskCash, exposureVars,
                 holdVars, killing, disk, outstanding, worth, ends, shutVars>>

\* No quote for the asset: return False although the frame went out.
MarkUnpriced ==
  /\ At("close", "mark")
  /\ Goto("commit")
  /\ UNCHANGED <<up, engineVars, bookVars, cash, riskCash, exposureVars,
                 holdVars, killing, disk, venue, outstanding, worth, ends, shutVars>>

\* Seeded fault: the salvaged contract stays in the position book.
MarkKept ==
  /\ At("close", "mark")
  /\ \E r \in {"won", "refunded", "salvaged"} :
       pending' = pending \cup {[order |-> cur, outcome |-> r]}
  /\ Goto("collect")
  /\ UNCHANGED <<up, engineVars, orders, positions, adopted, batch, booked,
                 cash, riskCash, exposureVars, holdVars, killing, disk, venue,
                 outstanding, worth, ends, shutVars>>

\* Settle at the mark, a loss with salvage, and queue it for the pump that
\* runs inside the same transaction.
Mark ==
  /\ At("close", "mark")
  /\ \E r \in {"won", "refunded", "salvaged"} :
       pending' = pending \cup {[order |-> cur, outcome |-> r]}
  /\ positions' = positions \ {cur}
  /\ Goto("collect")
  /\ UNCHANGED <<up, engineVars, orders, adopted, batch, booked, cash,
                 riskCash, exposureVars, holdVars, killing, disk, venue,
                 outstanding, worth, ends, shutVars>>

---------------------------------------------------------------------------
(* Kill and clear (engine.kill, engine.clear_kill). *)

\* kill() stops the loop at once, then queues for the OMS lock unless a
\* recovery hold has already latched the switch.
PressKill ==
  /\ up = "ready" /\ ~killing
  /\ running' = FALSE
  /\ killing' = ~fault
  /\ UNCHANGED <<up, loop, bookVars, cash, riskCash, exposureVars, holdVars,
                 txnVars, disk, venue, outstanding, worth, ends, shutVars>>

\* Seeded fault: kill() latches the switch without taking the OMS lock.
KillUnlocked ==
  /\ up = "ready" /\ killing
  /\ killing' = FALSE /\ kill' = TRUE
  /\ UNCHANGED <<up, engineVars, bookVars, cash, riskCash, exposureVars, fault,
                 txnVars, disk, venue, outstanding, worth, ends, shutVars>>

BeginKill ==
  /\ killing /\ killing' = FALSE
  /\ Begin("kill", "engage", NoOrder)

\* A hold struck while kill() waited, and has latched the switch, or the lease
\* went: assert_ready raises.
KillMoot ==
  /\ LockFree /\ killing /\ ~Ready
  /\ killing' = FALSE
  /\ UNCHANGED <<up, engineVars, bookVars, cash, riskCash, exposureVars,
                 holdVars, txnVars, disk, venue, outstanding, worth, ends, shutVars>>

EngageKill ==
  /\ At("kill", "engage")
  /\ kill' = TRUE
  /\ Goto("commit")
  /\ UNCHANGED <<up, engineVars, bookVars, cash, riskCash, exposureVars, fault,
                 killing, disk, venue, outstanding, worth, ends, shutVars>>

BeginClear ==
  /\ Begin("clear-kill", "release", NoOrder)
  /\ UNCHANGED killing

ReleaseKill ==
  /\ At("clear-kill", "release")
  /\ kill' = FALSE
  /\ Goto("commit")
  /\ UNCHANGED <<up, engineVars, bookVars, cash, riskCash, exposureVars, fault,
                 killing, disk, venue, outstanding, worth, ends, shutVars>>

---------------------------------------------------------------------------
(* Boot, arm, stop, crash (engine.boot, engine.arm, engine.shutdown). *)

\* broker.connect: adopt the venue-open contracts whose portfolio rows have
\* arrived, and take the venue's balance as the cash.
Connect ==
  /\ up = "down" /\ up' = "booting"
  /\ \E A \in SUBSET {o \in Orders : venue[o] = "open"} :
     \E b \in VenueBalances :
       /\ positions' = A /\ adopted' = A
       /\ cash' = b /\ riskCash' = b
       /\ worth' = b + Stake * Cardinality({o \in A : booked[o] = 0})
  /\ UNCHANGED <<engineVars, orders, pending, batch, booked, exposureVars,
                 holdVars, killing, txnVars, disk, venue, outstanding, ends, shutVars>>

\* Seeded fault: saved exposure is resumed without review.
NeedsReviewMarkerOnly == disk.saved /\ disk.op # "none"

\* A saved checkpoint that needs a human: an in-flight marker, saved
\* exposure, or venue-open contracts.
NeedsReview ==
  disk.saved /\ (disk.op # "none" \/ disk.count > 0 \/ positions # {})

\* Seeded fault: the restored governor forgets the kill latch.
SavedKillForgotten == FALSE
SavedKill == disk.kill

\* The record of boot's own commit.
Booted == [disk EXCEPT !.saved = TRUE, !.kill = SavedKill, !.orders = {}]

\* continuity.restore, then boot's own commit.  The registry is not
\* restored: no saved order is ever replayed.
Restore ==
  /\ up = "booting" /\ up' = "ready"
  /\ openCount' = disk.count
  /\ stakeSum' = disk.stake
  /\ openAssets' = disk.assets
  /\ \/ /\ ~NeedsReview
        /\ kill' = SavedKill /\ fault' = FALSE
        /\ disk' = Booted
     \/ /\ fault' = TRUE /\ kill' = TRUE   \* review, or the commit failed
        /\ disk' = disk \/ (~NeedsReview /\ disk' = Booted)
  /\ UNCHANGED <<engineVars, bookVars, cash, riskCash, killing, txnVars, venue,
                 outstanding, worth, ends, shutVars>>

\* engine.arm.  The check and the start are not atomic with kill(): an ARM
\* that has passed its check may start the loop while kill() waits.
Arm ==
  /\ up = "ready" /\ ~kill /\ ~fault /\ stop # "leaving" /\ ~running /\ ~loop
  /\ running' = TRUE /\ loop' = TRUE
  /\ UNCHANGED <<up, bookVars, cash, riskCash, exposureVars, holdVars, killing,
                 txnVars, disk, venue, outstanding, worth, ends, shutVars>>

\* The engine thread leaves _run_loop between transactions.
LoopExit ==
  /\ up = "ready" /\ loop /\ ~running /\ op = "none"
  /\ loop' = FALSE
  /\ UNCHANGED <<up, running, bookVars, cash, riskCash, exposureVars, holdVars,
                 killing, txnVars, disk, venue, outstanding, worth, ends, shutVars>>

\* shutdown() asks the loop to stop and waits for it, three seconds.
StopLoop ==
  /\ up = "ready" /\ stop = "none" /\ ends < MaxEnds
  /\ running' = FALSE /\ stop' = "joining" /\ ends' = ends + 1
  /\ UNCHANGED <<up, loop, bookVars, cash, riskCash, exposureVars, holdVars,
                 killing, txnVars, disk, venue, outstanding, worth, past>>

\* The loop has ended: commit once more unless the runtime holds.
JoinEnds ==
  /\ up = "ready" /\ stop = "joining" /\ ~loop
  /\ stop' = IF fault THEN "closing" ELSE "committing"
  /\ UNCHANGED <<up, engineVars, bookVars, cash, riskCash, exposureVars, holdVars,
                 killing, txnVars, disk, venue, outstanding, worth, ends, past>>

\* A thread may have passed assert_ready and not yet written.
Passing == {FALSE, Ready /\ (op = "none" \/ step = "commit")}

\* The loop is still at it: the runtime holds, whoever has the OMS lock, and
\* keeps its lease.
JoinTimesOut ==
  /\ up = "ready" /\ stop = "joining" /\ loop
  /\ stop' = "abandoned" /\ past' \in Passing
  /\ Hold
  /\ UNCHANGED <<up, loop, bookVars, cash, riskCash, exposureVars, killing, txnVars,
                 disk, venue, outstanding, worth, ends>>

\* The last checkpoint, past assert_ready and under the OMS lock.  A hold that
\* struck while it waited for that lock does not stop it.
ShutdownCommit ==
  /\ LockFree /\ stop = "committing" /\ stop' = "closing"
  /\ \/ /\ SnapshotOK
        /\ disk' = Checkpoint("none")
        /\ UNCHANGED <<holdVars, running>>
     \/ Hold /\ FailedWrite("none")
  /\ UNCHANGED <<up, loop, bookVars, cash, riskCash, exposureVars, killing, txnVars,
                 venue, outstanding, worth, ends, past>>

\* continuity.release.
FreeLease ==
  /\ up = "ready" /\ stop = "closing"
  /\ stop' = "leaving" /\ past' \in Passing
  /\ UNCHANGED <<up, engineVars, bookVars, cash, riskCash, exposureVars, holdVars,
                 killing, txnVars, disk, venue, outstanding, worth, ends>>

\* Everything the process kept in memory is gone.
ProcessGone ==
  /\ up' = "down" /\ loop' = FALSE /\ running' = FALSE
  /\ orders' = {} /\ positions' = {} /\ adopted' = {}
  /\ pending' = {} /\ batch' = {}
  /\ cash' = 0 /\ riskCash' = 0 /\ worth' = 0
  /\ openCount' = 0 /\ stakeSum' = 0 /\ openAssets' = NoExposure
  /\ kill' = FALSE /\ killing' = FALSE /\ fault' = FALSE
  /\ stop' = "none" /\ past' = FALSE
  /\ Release
  /\ UNCHANGED <<booked, venue, outstanding>>

\* Shutdown is through; threads that are still at work die with the process.
Exit ==
  /\ up = "ready" /\ stop \in {"leaving", "abandoned"}
  /\ ProcessGone
  /\ UNCHANGED <<disk, ends>>

Crash ==
  /\ up # "down"
  /\ \/ stop = "none" /\ ends < MaxEnds /\ ends' = ends + 1
     \/ stop # "none" /\ UNCHANGED ends
  /\ ProcessGone
  /\ UNCHANGED disk

---------------------------------------------------------------------------
(* The outside world. *)

\* A contract ends at the venue.
VenueCloses(o) ==
  /\ venue[o] = "open"
  /\ venue' = [venue EXCEPT ![o] = "closed"]
  /\ UNCHANGED <<up, engineVars, bookVars, cash, riskCash, exposureVars,
                 holdVars, killing, txnVars, disk, outstanding, worth, ends, shutVars>>

\* The venue's result event for a contract it closed reaches _reconcile on
\* the reader thread, late, twice or never: the position leaves the book.
VenueResult(o) ==
  /\ up # "down" /\ venue[o] = "closed" /\ o \in positions
  /\ positions' = positions \ {o}
  /\ UNCHANGED <<up, engineVars, orders, adopted, pending, batch, booked, cash,
                 riskCash, exposureVars, holdVars, killing, txnVars, disk,
                 venue, outstanding, worth, ends, shutVars>>

\* RECOVERY.md's offline reconciliation: with nothing open at the venue the
\* operator clears the marker and the exposure, and keeps the kill latch.
OperatorReview ==
  /\ up = "down" /\ disk.saved /\ (disk.op # "none" \/ disk.count > 0)
  /\ \A o \in Orders : venue[o] # "open"
  /\ disk' = [Blank EXCEPT !.saved = TRUE, !.kill = disk.kill]
  /\ outstanding' = {}
  /\ UNCHANGED <<up, engineVars, bookVars, cash, riskCash, exposureVars,
                 holdVars, killing, txnVars, venue, worth, ends, shutVars>>

---------------------------------------------------------------------------

\* A first boot: no checkpoint; contracts of another session may be open.
Init ==
  /\ up = "down" /\ loop = FALSE /\ running = FALSE
  /\ orders = {} /\ positions = {} /\ adopted = {}
  /\ pending = {} /\ batch = {}
  /\ booked = [o \in Orders |-> 0]
  /\ cash = 0 /\ riskCash = 0 /\ worth = 0
  /\ openCount = 0 /\ stakeSum = 0 /\ openAssets = NoExposure
  /\ kill = FALSE /\ killing = FALSE /\ fault = FALSE
  /\ op = "none" /\ step = "none" /\ cur = NoOrder
  /\ disk = Blank
  /\ venue \in [Orders -> {"none", "open"}]
  /\ outstanding = {}
  /\ ends = 0 /\ stop = "none" /\ past = FALSE

Submission == (\E o \in Orders : BeginSubmit(o)) \/ Veto \/ Authorize \/ Refuse
              \/ Send \/ SendBroken \/ Register
Settling   == BeginPump \/ (\E S \in SUBSET positions : Collect(S))
              \/ (\E s \in batch : Book(s)) \/ BookDone
Closing    == (\E o \in Orders : BeginClose(o)) \/ CloseGone \/ Sell
              \/ MarkUnpriced \/ Mark
Killing    == PressKill \/ BeginKill \/ KillMoot \/ EngageKill \/ BeginClear
              \/ ReleaseKill
Shutdown   == StopLoop \/ JoinEnds \/ JoinTimesOut \/ ShutdownCommit \/ FreeLease
              \/ Exit
Lifecycle  == Connect \/ Restore \/ Arm \/ LoopExit \/ Shutdown \/ Crash
Outside    == (\E o \in Orders : VenueCloses(o) \/ VenueResult(o))
              \/ OperatorReview

Next == Submission \/ Settling \/ Closing \/ Killing \/ Commit \/ Lifecycle
        \/ Outside

Spec == Init /\ [][Next]_vars

\* A step of a transaction body, or its end: the thread that holds the lock
\* is never blocked for good.
Advance == Veto \/ Authorize \/ Refuse \/ Send \/ SendBroken \/ Register
           \/ (\E S \in SUBSET positions : Collect(S))
           \/ (\E s \in batch : Book(s)) \/ BookDone
           \/ CloseGone \/ Sell \/ MarkUnpriced \/ Mark
           \/ EngageKill \/ ReleaseKill \/ Commit

\* The loop gets the lock again and again while it lives, and every contract
\* expires and is priced at some pump.
Fairness ==
  /\ WF_vars(Advance)
  /\ SF_vars(BeginPump)
  /\ \A o \in Orders :
       SF_vars(\E S \in SUBSET positions : o \in S /\ Collect(S))

FairSpec == Spec /\ Fairness

---------------------------------------------------------------------------
(* Properties. *)

OpNames   == {"none", "submit", "settle", "close", "kill", "clear-kill"}
StepNames == {"none", "authorize", "route", "register", "collect", "book",
              "sell", "mark", "engage", "release", "commit"}

Checkpoints == [saved : BOOLEAN, op : OpNames, kill : BOOLEAN, count : Nat,
                stake : Nat, assets : [Assets -> Nat], orders : SUBSET Orders]

\* Types.  Cash and exposure never go negative: Ledger.decode_state refuses
\* a negative balance, so a checkpoint with one could not be restored.
ProcessTypes ==
  /\ up \in {"down", "booting", "ready"}
  /\ loop \in BOOLEAN /\ running \in BOOLEAN
  /\ kill \in BOOLEAN /\ killing \in BOOLEAN /\ fault \in BOOLEAN
  /\ stop \in {"none", "joining", "committing", "closing", "leaving", "abandoned"}
  /\ past \in BOOLEAN

TxnTypes == op \in OpNames /\ step \in StepNames /\ cur \in Orders \cup {NoOrder}

BookTypes ==
  /\ orders \subseteq Orders /\ positions \subseteq Orders
  /\ adopted \subseteq Orders
  /\ pending \subseteq Settlements /\ batch \subseteq Settlements
  /\ booked \in [Orders -> Nat]

MoneyTypes ==
  /\ cash \in Nat /\ riskCash \in Nat /\ worth \in Int
  /\ openCount \in Nat /\ stakeSum \in Nat /\ openAssets \in [Assets -> Nat]

OutsideTypes ==
  /\ disk \in Checkpoints
  /\ venue \in [Orders -> {"none", "open", "closed"}]
  /\ outstanding \subseteq Orders
  /\ ends \in 0 .. MaxEnds

TypeOK == ProcessTypes /\ TxnTypes /\ BookTypes /\ MoneyTypes /\ OutsideTypes

Healthy == up = "ready" /\ ~fault

\* Accepted by the governor's on_open and not yet given back by on_close.
Exposed == {o \in orders : booked[o] = 0}

\* Stake debited from the ledger for an order that is not registered yet.
InFlight == IF step \in {"route", "register"} THEN Stake ELSE 0

\* Adopted contracts whose result the ledger has not seen.
AdoptedOpen == {o \in adopted : booked[o] = 0}

\* Cash is conserved: outside a hold, the ledger's cash, the stake at risk
\* and the stake of adopted contracts always add up to the boot balance plus
\* the profit and loss of the trade records - across refusals, refunds,
\* salvages, and results that take positions out from under the OMS.
BooksBalance ==
  Healthy => cash + stakeSum + InFlight + Stake * Cardinality(AdoptedOpen) = worth

\* No contract is booked twice, by any two of expiry, salvage and venue
\* result, in one process or across a restart.
SettledOnce == \A o \in Orders : booked[o] <= 1

\* Crash anywhere and the file tells: every contract sent and not yet booked
\* is in the saved registry, or the file carries an in-flight marker.
CrashSafe == disk.op # "none" \/ outstanding \subseteq disk.orders

\* A process never trades beside contracts it does not know: whatever an
\* earlier process left unresolved puts this one on hold.
NoStrangers == Healthy => outstanding \subseteq orders \cup {cur}

\* Unless a venue result took a position away, OMS, ledger, governor and
\* broker agree at every transaction boundary, so that no hold is spurious.
AgreeAtRest ==
  Healthy /\ (op = "none" \/ step = "commit") /\ Exposed \subseteq positions
    => SnapshotOK

\* The concurrency cap bounds what is really out at the venue: over every
\* process since the last review, at most MaxConcurrent unresolved contracts.
ExposureCapped == Cardinality(outstanding) <= MaxConcurrent

\* Likewise the per-asset cap: at most one unresolved contract per asset.
OnePerAsset == \A o, p \in outstanding : AssetOf[o] = AssetOf[p] => o = p

\* No order leaves while the kill switch is latched or the runtime holds:
\* once kill() has returned nothing is sent, not even by an order that was
\* inside the OMS when the button was pressed.  Only a shutdown that gave up on
\* the loop lets out what is inside, because its hold does not wait for the lock.
Sent == ~(outstanding' \subseteq outstanding)
SentUnheld == Sent => (~kill /\ ~fault) \/ stop = "abandoned"
NoOrderUnderKill == [][SentUnheld]_vars

\* TLC refutes it, by that shutdown (ARCHITECTURE.md: "kill switch | no trades").
KillIsAbsolute == [][Sent => ~kill /\ ~fault]_vars

\* A kill on disk outlives crashes, restarts, holds and reviews: nothing but
\* clear_kill's own transaction takes it out of the file.
KillKept == disk.kill /\ ~disk'.kill => op = "clear-kill"
KillPersists == [][KillKept]_vars

\* A record that tells exactly the exposure of the accepted orders still held.
Tells(d, registry) ==
  /\ d.orders = registry
  /\ d.count = Cardinality(registry) /\ d.stake = Stake * Cardinality(registry)
  /\ \A a \in Assets : d.assets[a] = Cardinality({o \in registry : AssetOf[o] = a})

\* The checkpoint of an interrupted or inconsistent run is evidence.  During a
\* hold only a shutdown or a transaction that found none when it asked still
\* writes; and whatever is in the file at the end of a step in or into a hold
\* was there before, or tells the book as it is.
EvidenceKept ==
  /\ fault /\ disk' # disk => stop = "committing" \/ past
  /\ fault' /\ disk' # disk => Tells(disk', Registry')
HoldKeepsEvidence == [][EvidenceKept]_vars

\* TLC refutes it: a thread that found no hold when it asked writes after one
\* has struck, and replaces that record (continuity._fail: "state file
\* preserved").
FilePreserved == [][fault => disk' = disk]_vars

\* While the loop runs, no contract's exposure leaks: the book releases it,
\* or the runtime stops, or has freed its lease and leaves.
ExposureReleased ==
  \A o \in Orders :
    (o \in Exposed /\ running) ~> (o \notin Exposed \/ ~running \/ stop = "leaving")

\* Seen from outside, over every process there ever was, the money path does
\* with its contracts what ContractLife promises.
Life == INSTANCE ContractLife WITH out <- outstanding
KeepsContracts == Life!Spec

\* What adapter.py and RECOVERY.md say of contracts the venue settles: they
\* are reconciled from its order events and leave the book on their own.
VenueResultBooked ==
  Healthy /\ op = "none" => \A o \in orders : o \in positions \/ booked[o] = 1

===========================================================================
