---------------------------- MODULE AccountSeat ----------------------------
(***************************************************************************)
(* Whose money an engine trades: the session and the purse of its api      *)
(* (brokers/quotex/api.py), the balances the venue pushes, and the owner   *)
(* that the checkpoint is bound to (continuity.py), from the proof that a  *)
(* fresh wire carries data (cli.py) to orders, re-seats and restarts.      *)
(*                                                                         *)
(* The venue answers to nobody: a push or a quote arrives between any two  *)
(* steps.  What a session cookie is worth at the venue, its account, is    *)
(* unknown to the code until a push names it.                              *)
(***************************************************************************)
EXTENDS Integers

CONSTANTS
  Holders, Nobody,  \* venue accounts
  NoFile,
  MaxSeats          \* bound: sessions seated in one process

Owners    == [user : Holders, demo : BOOLEAN]
NoOwner   == [user |-> Nobody, demo |-> TRUE]
SavedBook == [owner : Owners, cash : Holders \cup {Nobody}, pending : BOOLEAN]

ASSUME SeatAssumption ==
  Nobody \notin Holders /\ NoFile \notin SavedBook /\ MaxSeats \in Nat

VARIABLES
  bootStage, \* where boot is
  apiSeat,  \* the api: whose session it has, the user id it knows, its purse
  wireOf,   \* whose session the open wire was authorized with
  feeds,    \* does the venue send anything on it
  dataSeen, \* _data_seen
  pushed,   \* QuotexAPI.balance: the user it names, and whose cash it is
  told,     \* history: whom the last push on this wire named
  reseat,   \* the browser terminal's re-seat; "none" on the desktop
  seats,    \* sessions seated
  owner,    \* Continuity.scope
  onHold,   \* Continuity.fault
  cash,     \* the ledger's balance: whose it is
  bracket,  \* the OMS transaction
  sentTo,   \* history: the account and purse the last order went to
  bookFile  \* the checkpoint

wireState == <<wireOf, feeds, told>>
apiVars   == <<apiSeat, dataSeen, pushed>>
bookVars  == <<owner, onHold, cash, bookFile>>
seating   == <<reseat, seats>>
orderVars == <<bracket, sentTo>>
seatVars  == <<bootStage, apiVars, wireState, seating, bookVars, orderVars>>

Stages == {"down", "verify", "purse", "reprove", "warm", "read", "restored", "up"}

---------------------------------------------------------------------------
(* Continuity._scope. *)

\* The balance's user id counts before the session's; the venue's name for
\* the broker carries the purse.
Uid == IF pushed.user # Nobody THEN pushed.user ELSE apiSeat.user

Scope == [user |-> Uid, demo |-> apiSeat.demo]

Known ==
  /\ Uid # Nobody
  /\ apiSeat.user # Nobody /\ pushed.user # Nobody => apiSeat.user = pushed.user

\* Seeded fault: the owner pinned at boot is not looked at again.
ScopeUnpinned == Known
ScopeHolds == Known /\ owner \in {NoOwner, Scope}

\* _write: what cannot be snapshot holds the runtime and spares the file.
SaveBook(pending) ==
  IF ScopeHolds
  THEN /\ bookFile' = [owner |-> Scope, cash |-> cash, pending |-> pending]
       /\ UNCHANGED onHold
  ELSE onHold' = TRUE /\ UNCHANGED bookFile

---------------------------------------------------------------------------
(* The venue. *)

Speaks == wireOf # Nobody /\ feeds # "starved"

\* Quotes, candles and listings.
VenueData ==
  /\ Speaks /\ ~dataSeen /\ dataSeen' = TRUE
  /\ UNCHANGED <<bootStage, apiSeat, pushed, wireState, seating, bookVars, orderVars>>

\* A balance with its account, or a bare amount; the session adopts the first
\* account that is named while it has none.
Push(named) ==
  /\ Speaks
  /\ dataSeen' = TRUE
  /\ pushed' = [user |-> IF named THEN wireOf ELSE Nobody, cash |-> wireOf]
  /\ told' = pushed'.user
  /\ apiSeat' = [apiSeat EXCEPT !.user = IF named /\ @ = Nobody THEN wireOf ELSE @]
  /\ UNCHANGED <<bootStage, wireOf, feeds, seating, bookVars, orderVars>>

\* A session it will never serve, or a switch of purse that starves the wire:
\* what was on its way still arrives.
Starve ==
  /\ feeds = "flows" /\ bootStage \in {"purse", "reprove"} /\ feeds' = "drains"
  /\ UNCHANGED <<bootStage, apiVars, wireOf, told, seating, bookVars, orderVars>>

Drain ==
  /\ feeds = "drains" /\ feeds' = "starved"
  /\ UNCHANGED <<bootStage, apiVars, wireOf, told, seating, bookVars, orderVars>>

\* A stale cookie is authorized like any other.
Opened(h) ==
  /\ wireOf' = h /\ told' = Nobody /\ dataSeen' = FALSE
  /\ feeds' \in {"flows", "starved"}

---------------------------------------------------------------------------
(* _live_api and boot. *)

\* A password's sign-in names the account, a paired cookie does not.
LiveApi(h, demo) ==
  /\ bootStage = "down"
  /\ \E user \in {Nobody, h} : apiSeat' = [of |-> h, user |-> user, demo |-> demo]
  /\ Opened(h)
  /\ pushed' = [user |-> Nobody, cash |-> Nobody]
  /\ bootStage' = "verify" /\ reseat' \in {"idle", "none"} /\ seats' = 0
  /\ owner' = NoOwner /\ onHold' = FALSE /\ cash' = Nobody /\ bracket' = "none"
  /\ sentTo' = NoOwner
  /\ UNCHANGED bookFile

Ends == bootStage' = "down" /\ wireOf' = Nobody /\ bracket' = "none"

\* _verify_session_data, and ensure_purse's proof after the switch: anything
\* seen in time counts.
Proven(from, to) ==
  /\ bootStage = from
  /\ \/ dataSeen /\ bootStage' = to /\ UNCHANGED <<wireOf, bracket>>
     \/ ~dataSeen /\ Ends
  /\ UNCHANGED <<apiVars, feeds, told, seating, bookVars, sentTo>>

VerifyData  == Proven("verify", "purse")
ReproveData == Proven("reprove", "warm")

\* account/change: confirmed, or unconfirmed and only a warning; then the
\* flag is cleared and the wire is poked again.
EnsurePurse ==
  /\ bootStage = "purse" /\ bootStage' = "reprove" /\ dataSeen' = FALSE
  /\ UNCHANGED <<apiSeat, pushed, wireState, seating, bookVars, orderVars>>

\* _boot: the books start on the balance of this moment, zero if none came.
ReadCash ==
  /\ bootStage = "warm" /\ bootStage' = "read"
  /\ cash' = pushed.cash
  /\ UNCHANGED <<apiVars, wireState, seating, owner, onHold, bookFile, orderVars>>

\* restore: pins the owner; a book of another owner holds, and so does one of
\* his with an operation under way, contracts open or numbers that do not
\* agree; his book starts on the balance of this moment.
Restore ==
  /\ bootStage = "read" /\ bootStage' = "restored"
  /\ owner' = IF Known THEN Scope ELSE owner
  /\ IF Known /\ bookFile # NoFile /\ bookFile.owner = Scope
     THEN \/ cash' = pushed.cash /\ onHold' \in {bookFile.pending, TRUE}
          \/ UNCHANGED cash /\ onHold' = TRUE
     ELSE UNCHANGED cash /\ onHold' = (~Known \/ bookFile # NoFile)
  /\ UNCHANGED <<apiVars, wireState, seating, bookFile, orderVars>>

FirstCommit ==
  /\ bootStage = "restored" /\ bootStage' = "up"
  /\ IF onHold THEN UNCHANGED <<onHold, bookFile>> ELSE SaveBook(FALSE)
  /\ UNCHANGED <<apiVars, wireState, seating, owner, cash, orderVars>>

---------------------------------------------------------------------------
(* OrderManager.transaction. *)

BeginOrder ==
  /\ bootStage = "up" /\ bracket = "none" /\ ~onHold
  /\ SaveBook(TRUE)
  /\ bracket' = IF ScopeHolds THEN "begun" ELSE "none"
  /\ UNCHANGED <<bootStage, apiVars, wireState, seating, owner, cash, sentTo>>

\* After pacing, on the wire and with the purse of that moment; no wire is an
\* error that the bracket turns into a hold.
SendOrder ==
  /\ bracket = "begun"
  /\ IF wireOf # Nobody
     THEN bracket' = "sent" /\ sentTo' = [user |-> wireOf, demo |-> apiSeat.demo]
          /\ UNCHANGED onHold
     ELSE bracket' = "none" /\ onHold' = TRUE /\ UNCHANGED sentTo
  /\ UNCHANGED <<bootStage, apiVars, wireState, seating, owner, cash, bookFile>>

\* A veto ends here as well.
CommitOrder ==
  /\ bracket \in {"begun", "sent"} /\ bracket' = "none"
  /\ SaveBook(FALSE)
  /\ UNCHANGED <<bootStage, apiVars, wireState, seating, owner, cash, sentTo>>

---------------------------------------------------------------------------
(* Sessions that come later. *)

\* _reseat_session: a new session on the same api and purse...
SetSsid(h) ==
  /\ bootStage = "up" /\ reseat = "idle" /\ seats < MaxSeats
  /\ apiSeat' = [apiSeat EXCEPT !.of = h, !.user = Nobody]
  /\ reseat' = "close" /\ seats' = seats + 1
  /\ UNCHANGED <<bootStage, dataSeen, pushed, wireState, bookVars, orderVars>>

\* ... the old wire closed, which the balance outlives...
CloseWire ==
  /\ bootStage = "up" /\ reseat = "close" /\ reseat' = "dial" /\ wireOf' = Nobody
  /\ UNCHANGED <<bootStage, apiVars, feeds, told, seats, bookVars, orderVars>>

\* ... and a new one opened, or not; the verdict on its data reaches nobody
\* but the log.
OpenWire ==
  /\ bootStage = "up" /\ reseat = "dial" /\ reseat' = "idle"
  /\ Opened(apiSeat.of) \/ UNCHANGED <<wireState, dataSeen>>
  /\ UNCHANGED <<bootStage, apiSeat, pushed, seats, bookVars, orderVars>>

\* The supervisor's connect() on a wire that is down.
Redial ==
  /\ bootStage = "up" /\ reseat = "idle" /\ wireOf = Nobody
  /\ Opened(apiSeat.of)
  /\ UNCHANGED <<bootStage, apiSeat, pushed, seating, bookVars, orderVars>>

\* The desktop's re-link: another api, on the purse picked.
Relink(h, demo) ==
  /\ bootStage = "up" /\ reseat = "none" /\ seats < MaxSeats
  /\ apiSeat' = [of |-> h, user |-> Nobody, demo |-> demo] /\ Opened(h)
  /\ pushed' = [user |-> Nobody, cash |-> Nobody]
  /\ seats' = seats + 1
  /\ UNCHANGED <<bootStage, reseat, bookVars, orderVars>>

\* shutdown, which commits unless it may not; a crash only ends.
ShutSeat ==
  /\ bootStage = "up" /\ bracket = "none" /\ Ends
  /\ IF onHold THEN UNCHANGED <<onHold, bookFile>> ELSE SaveBook(FALSE)
  /\ UNCHANGED <<apiVars, feeds, told, seating, owner, cash, sentTo>>

ProcessDies ==
  /\ bootStage # "down" /\ Ends
  /\ UNCHANGED <<apiVars, feeds, told, seating, bookVars, sentTo>>

\* RECOVERY.md: the operator reconciles a held book offline, or gives another
\* account another path.
OperatorReview ==
  /\ bootStage = "down" /\ bookFile # NoFile
  /\ bookFile' \in {[bookFile EXCEPT !.pending = FALSE], NoFile}
  /\ UNCHANGED <<bootStage, apiVars, wireState, seating, owner, onHold, cash, orderVars>>

---------------------------------------------------------------------------

SeatInit ==
  /\ bootStage = "down" /\ wireOf = Nobody /\ feeds = "starved" /\ dataSeen = FALSE
  /\ apiSeat = [of |-> Nobody, user |-> Nobody, demo |-> TRUE]
  /\ pushed = [user |-> Nobody, cash |-> Nobody] /\ told = Nobody
  /\ reseat = "idle" /\ seats = 0 /\ owner = NoOwner /\ onHold = FALSE
  /\ cash = Nobody /\ bracket = "none" /\ sentTo = NoOwner /\ bookFile = NoFile

SeatNext ==
  \/ VenueData \/ (\E named \in BOOLEAN : Push(named)) \/ Starve \/ Drain
  \/ (\E h \in Holders, demo \in BOOLEAN : LiveApi(h, demo) \/ Relink(h, demo))
  \/ VerifyData \/ EnsurePurse \/ ReproveData \/ ReadCash \/ Restore \/ FirstCommit
  \/ BeginOrder \/ SendOrder \/ CommitOrder
  \/ (\E h \in Holders : SetSsid(h)) \/ CloseWire \/ OpenWire \/ Redial
  \/ ShutSeat \/ ProcessDies \/ OperatorReview

SeatSpec == SeatInit /\ [][SeatNext]_seatVars

---------------------------------------------------------------------------
(* Properties. *)

SeatTypeOK ==
  /\ bootStage \in Stages
  /\ apiSeat \in
       [of : Holders \cup {Nobody}, user : Holders \cup {Nobody}, demo : BOOLEAN]
  /\ wireOf \in Holders \cup {Nobody} /\ feeds \in {"flows", "drains", "starved"}
  /\ dataSeen \in BOOLEAN
  /\ pushed \in [user : Holders \cup {Nobody}, cash : Holders \cup {Nobody}]
  /\ told \in Holders \cup {Nobody}
  /\ reseat \in {"none", "idle", "close", "dial"} /\ seats \in 0 .. MaxSeats
  /\ owner \in Owners \cup {NoOwner} /\ onHold \in BOOLEAN
  /\ cash \in Holders \cup {Nobody} /\ bracket \in {"none", "begun", "sent"}
  /\ sentTo \in Owners \cup {NoOwner}
  /\ bookFile \in SavedBook \cup {NoFile}

\* A checkpoint never changes hands, neither the account's nor the purse's,
\* over boots, re-seats, re-links and crashes, unless the operator takes it
\* away; and the cash in it is its owner's (Continuity._scope, RECOVERY.md).
KeepsOwner ==
  bookFile' # NoFile =>
    /\ bookFile # NoFile => bookFile'.owner = bookFile.owner
    /\ bookFile'.cash \in {Nobody, bookFile'.owner.user}

\* Once the venue has named another account on the wire, nothing is begun: the
\* next transaction holds ("an in-process account switch is a safety hold",
\* RECOVERY.md).
BeginsOnOwn ==
  bracket = "none" /\ bracket' = "begun" => told \in {Nobody, owner.user}

AccountHeld == [][KeepsOwner /\ BeginsOnOwn]_seatVars

\* What RECOVERY.md says of a switch, of the order itself: TLC refutes it
\* (README), until the new session's first balance the old one answers for it.
OrderOnOwner == bracket = "sent" => sentTo = owner

\* "Cash always comes from the venue": TLC refutes it (README), the first
\* balance may land between the read of the cash and the pin of the owner.
BootsOnCash == bootStage = "up" /\ ~onHold => cash # Nobody

\* "then proves data STILL flows" (ensure_purse): TLC refutes it (README),
\* what was on its way before the switch proves it too.
SwitchProven == bootStage = "warm" => feeds = "flows"

===========================================================================
