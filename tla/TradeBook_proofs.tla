------------------------- MODULE TradeBook_proofs -------------------------
(***************************************************************************)
(* Proofs about TradeBook for any set of orders and assets, any amounts,   *)
(* any concurrency cap and any number of processes.                        *)
(*                                                                         *)
(* The properties are not inductive by themselves: IInv adds where a       *)
(* settlement can be (in the position book, queued, being booked, or       *)
(* booked - never in two places), what each step of a transaction may rely *)
(* on, that the governor's counters count exactly the exposed orders, and  *)
(* what the file says while a transaction runs.  A shutdown that gives up  *)
(* on the loop latches a hold over a running transaction, so the books are *)
(* followed through such a hold too: wherever a thread may still write.    *)
(***************************************************************************)
EXTENDS TradeBook, FiniteSetTheorems, TLAPS

---------------------------------------------------------------------------
(* The inductive invariant. *)

\* Which step belongs to which transaction, and what a step may rely on.
ControlOK ==
  /\ op = "none" <=> step = "none"
  /\ op = "submit" => step \in {"authorize", "route", "register", "commit"}
  /\ op = "settle" => step \in {"collect", "book", "commit"}
  /\ op = "close"  => step \in {"sell", "mark", "collect", "book", "commit"}
  /\ op = "kill"   => step \in {"engage", "commit"}
  /\ op = "clear-kill" => step \in {"release", "commit"}
  /\ op \in {"submit", "close"} => cur \in Orders
  /\ op = "none" => cur = NoOrder
  /\ op # "none" => up = "ready" /\ (fault => stop = "abandoned")
  /\ fault => up = "ready" /\ (kill \/ stop = "abandoned")
  /\ step = "route" => ~kill \/ stop = "abandoned"
  /\ stop # "none" => up = "ready"
  /\ past => /\ stop \in {"leaving", "abandoned"} /\ (op = "none" \/ step = "commit")
             /\ fault => stop = "abandoned" /\ (op = "none" => kill)

\* The books are sound: no hold has struck, or a thread is still inside or past
\* its check, or the shutdown's own commit would find the cash agreed.
Sound ==
  up = "ready" /\ \/ ~fault \/ op # "none" \/ past
                  \/ stop = "committing" /\ riskCash = cash

\* A process that is not up yet keeps nothing but what it has adopted.
BootOK ==
  /\ up # "ready" => orders = {}
  /\ up = "down" => positions = {} /\ adopted = {}
  /\ up = "booting" => worth = cash + Stake * Cardinality(AdoptedOpen)
                       /\ riskCash = cash

\* Where a contract and its settlement can be.
FlowOK ==
  /\ positions \subseteq orders \cup adopted
  /\ orders \cap adopted = {}
  /\ \A o \in orders \cup adopted \cup outstanding : venue[o] # "none"
  /\ \A o \in Orders : booked[o] > 0 => venue[o] # "none"
  /\ step \in {"authorize", "route"} => venue[cur] = "none"
  /\ step = "register" => cur \notin orders \cup adopted /\ booked[cur] = 0
                          /\ venue[cur] # "none"
  /\ step \in {"sell", "mark"} => cur \in orders \cup adopted /\ booked[cur] = 0
  /\ pending # {} => op = "close" /\ step = "collect"
  /\ batch # {} => step = "book"
  /\ \A s \in pending \cup batch :
       /\ s.order \in orders \cup adopted
       /\ s.order \notin positions
       /\ booked[s.order] = 0
  /\ \A s, t \in pending : s = t
  /\ \A s, t \in batch : s.order = t.order => s = t
  /\ Sound => \A o \in positions : booked[o] = 0

\* The governor counts exactly the exposed orders, and knows the cash.
CountersOK ==
  Sound =>
    /\ openCount = Cardinality(Exposed)
    /\ stakeSum = Stake * Cardinality(Exposed)
    /\ \A a \in Assets :
         openAssets[a] = Cardinality({o \in Exposed : AssetOf[o] = a})
    /\ riskCash = cash + InFlight

\* The file's exposure is the exposure of the orders it lists.
DiskSums ==
  /\ disk.count = Cardinality(disk.orders)
  /\ disk.stake = Stake * disk.count
  /\ \A a \in Assets :
       disk.assets[a] = Cardinality({o \in disk.orders : AssetOf[o] = a})

\* An unwritten file is blank, and nothing was ever booked beside it.
DiskBlank ==
  ~disk.saved => disk.op = "none" /\ disk.count = 0 /\ ~disk.kill
                 /\ \A o \in Orders : booked[o] = 0

\* A transaction runs, or one may begin.
Writable == op # "none" \/ (up = "ready" /\ Ready)

\* Then the file carries the running operation.
DiskMarker == Writable => disk.saved /\ disk.op = op

\* A healthy process has on its books every contract that is unresolved.
AllKnown ==
  Sound => outstanding \subseteq
               Exposed \cup (IF step = "register" THEN {cur} ELSE {})

DiskOK == DiskSums /\ DiskBlank /\ DiskMarker /\ AllKnown

\* What the governor's checks leave to the steps that come after them.
CapOK ==
  Sound => /\ openCount <= MaxConcurrent
           /\ step \in {"route", "register"} => openCount < MaxConcurrent
           /\ step = "route" => openAssets[AssetOf[cur]] = 0

\* Wherever the file may be written, a kill on disk is a kill in memory unless
\* a clear is under way.
KillLatched ==
  disk.kill /\ (Writable \/ stop = "committing")
    => kill \/ op = "clear-kill"

\* Cash is conserved on sound books.
Balanced ==
  Sound => cash + stakeSum + InFlight + Stake * Cardinality(AdoptedOpen) = worth

IInv == /\ TypeOK /\ ControlOK /\ BootOK /\ FlowOK /\ CountersOK /\ DiskOK
        /\ Balanced /\ SettledOnce /\ CrashSafe /\ KillLatched
        /\ CapOK /\ ExposureCapped /\ OnePerAsset

---------------------------------------------------------------------------
(* Checkpoints. *)

\* What a well-typed checkpoint holds.
LEMMA DiskFields ==
  ASSUME disk \in Checkpoints
  PROVE  /\ disk.kill \in BOOLEAN /\ disk.saved \in BOOLEAN
         /\ disk.op \in OpNames /\ disk.count \in Nat /\ disk.stake \in Nat
         /\ disk.assets \in [Assets -> Nat] /\ disk.orders \subseteq Orders
BY DEF Checkpoints

\* A checkpoint of a well-typed state is well typed.
LEMMA CheckpointType ==
  ASSUME TypeOK, NEW operation \in OpNames
  PROVE  Checkpoint(operation) \in Checkpoints
<1>1. /\ kill \in BOOLEAN /\ openCount \in Nat /\ stakeSum \in Nat
      /\ openAssets \in [Assets -> Nat]
  BY DEF TypeOK, ProcessTypes, MoneyTypes
<1>2. Registry \in SUBSET Orders
  BY DEF TypeOK, BookTypes, Registry
<1> QED
  BY <1>1, <1>2 DEF Checkpoint, Checkpoints

\* Boot's own commit of a restored checkpoint is well typed.
LEMMA ResumedType ==
  ASSUME disk \in Checkpoints
  PROVE  Booted \in Checkpoints
<1>1. SavedKill \in BOOLEAN
  BY DiskFields DEF SavedKill
<1> QED
  BY <1>1 DEF Booted, Checkpoints

\* The empty checkpoint is well typed, with either kill latch.
LEMMA BlankType ==
  /\ Blank \in Checkpoints
  /\ \A k \in BOOLEAN : [Blank EXCEPT !.saved = TRUE, !.kill = k] \in Checkpoints
<1>1. NoExposure \in [Assets -> Nat]
  BY DEF NoExposure
<1> QED
  BY <1>1 DEF Blank, Checkpoints, OpNames

\* A product of naturals is a natural.
LEMMA ProductType == \A m, n \in Nat : m * n \in Nat
OBVIOUS

\* Zero adds nothing.
LEMMA PlusZero == \A n \in Nat : n + 0 = n
OBVIOUS

\* A set of orders has a natural cardinality.
LEMMA OrderCount ==
  ASSUME NEW S \in SUBSET Orders
  PROVE  IsFiniteSet(S) /\ Cardinality(S) \in Nat
BY OrdersAssumption, FS_Subset, FS_CardinalityType

\* Who is past its check found none of what the check is for.
LEMMA PassingMeans ==
  ASSUME past' \in Passing, TypeOK
  PROVE  past' \in BOOLEAN /\ (past' => Ready /\ (op = "none" \/ step = "commit"))
BY DEF Passing, Ready, TypeOK, ProcessTypes

---------------------------------------------------------------------------
(* Types are preserved: one lemma per part of TypeOK. *)

\* The latches and modes of the process stay well typed.
LEMMA ProcessTypesStep == TypeOK /\ [Next]_vars => ProcessTypes'
<1> SUFFICES ASSUME TypeOK, [Next]_vars PROVE ProcessTypes'
  OBVIOUS
<1> USE DEF TypeOK, ProcessTypes, Begin, Hold, holdVars, engineVars, shutVars,
   Release
<1>1. ASSUME NEW o \in Orders, BeginSubmit(o) PROVE ProcessTypes'
  BY <1>1 DEF BeginSubmit
<1>2. CASE Veto
  BY <1>2 DEF Veto
<1>3. CASE Authorize
  BY <1>3 DEF Authorize
<1>4. CASE Refuse
  BY <1>4 DEF Refuse
<1>5. CASE Send
  BY <1>5 DEF Send
<1>6. CASE SendBroken
  BY <1>6 DEF SendBroken
<1>7. CASE Register
  BY <1>7 DEF Register
<1>8. CASE BeginPump
  BY <1>8 DEF BeginPump
<1>9. ASSUME NEW S \in SUBSET positions, Collect(S) PROVE ProcessTypes'
  BY <1>9 DEF Collect
<1>10. ASSUME NEW s \in batch, Book(s) PROVE ProcessTypes'
  BY <1>10 DEF Book
<1>11. CASE BookDone
  BY <1>11 DEF BookDone
<1>12. ASSUME NEW o \in Orders, BeginClose(o) PROVE ProcessTypes'
  BY <1>12 DEF BeginClose
<1>13. CASE CloseGone
  BY <1>13 DEF CloseGone
<1>14. CASE Sell
  BY <1>14 DEF Sell
<1>15. CASE MarkUnpriced
  BY <1>15 DEF MarkUnpriced
<1>16. CASE Mark
  BY <1>16 DEF Mark
<1>17. CASE PressKill
  BY <1>17 DEF PressKill
<1>18. CASE BeginKill
  BY <1>18 DEF BeginKill
<1>19. CASE KillMoot
  BY <1>19 DEF KillMoot
<1>20. CASE EngageKill
  BY <1>20 DEF EngageKill
<1>21. CASE BeginClear
  BY <1>21 DEF BeginClear
<1>22. CASE ReleaseKill
  BY <1>22 DEF ReleaseKill
<1>23. CASE Commit
  BY <1>23 DEF Commit
<1>24. CASE Connect
  BY <1>24 DEF Connect
<1>25. CASE Restore
  BY <1>25, DiskFields DEF Restore, SavedKill, OutsideTypes
<1>26. CASE Arm
  BY <1>26 DEF Arm
<1>27. CASE LoopExit
  BY <1>27 DEF LoopExit
<1>28. CASE StopLoop
  BY <1>28 DEF StopLoop
<1>29. CASE JoinEnds
  BY <1>29 DEF JoinEnds
<1>35. CASE JoinTimesOut
  BY <1>35, PassingMeans DEF JoinTimesOut
<1>36. CASE ShutdownCommit
  BY <1>36 DEF ShutdownCommit
<1>37. CASE FreeLease
  BY <1>37, PassingMeans DEF FreeLease
<1>38. CASE Exit
  BY <1>38 DEF Exit, ProcessGone
<1>30. CASE Crash
  BY <1>30 DEF Crash, ProcessGone
<1>31. ASSUME NEW o \in Orders, VenueCloses(o) PROVE ProcessTypes'
  BY <1>31 DEF VenueCloses
<1>32. ASSUME NEW o \in Orders, VenueResult(o) PROVE ProcessTypes'
  BY <1>32 DEF VenueResult
<1>33. CASE OperatorReview
  BY <1>33 DEF OperatorReview
<1>34. CASE UNCHANGED vars
  BY <1>34 DEF vars, engineVars, holdVars, txnVars, shutVars
<1> QED
  BY <1>1, <1>2, <1>3, <1>4, <1>5, <1>6, <1>7, <1>8, <1>9, <1>10, <1>11, <1>12,
     <1>13, <1>14, <1>15, <1>16, <1>17, <1>18, <1>19, <1>20, <1>21, <1>22, <1>23,
     <1>24, <1>25, <1>26, <1>27, <1>28, <1>29, <1>30, <1>31, <1>32, <1>33, <1>34,
     <1>35, <1>36, <1>37, <1>38
  DEF Next, Submission, Settling, Closing, Killing, Lifecycle, Shutdown, Outside

\* So does the program counter of the running transaction.
LEMMA TxnTypesStep == TypeOK /\ ControlOK /\ [Next]_vars => TxnTypes'
<1> SUFFICES ASSUME TypeOK, ControlOK, [Next]_vars PROVE TxnTypes'
  OBVIOUS
<1> USE DEF TypeOK, TxnTypes, OpNames, StepNames, Begin, Goto, Release, txnVars
<1>1. ASSUME NEW o \in Orders, BeginSubmit(o) PROVE TxnTypes'
  BY <1>1 DEF BeginSubmit
<1>2. CASE Veto
  BY <1>2 DEF Veto
<1>3. CASE Authorize
  BY <1>3 DEF Authorize
<1>4. CASE Refuse
  BY <1>4 DEF Refuse
<1>5. CASE Send
  BY <1>5 DEF Send
<1>6. CASE SendBroken
  BY <1>6 DEF SendBroken
<1>7. CASE Register
  BY <1>7 DEF Register
<1>8. CASE BeginPump
  BY <1>8 DEF BeginPump
<1>9. ASSUME NEW S \in SUBSET positions, Collect(S) PROVE TxnTypes'
  BY <1>9 DEF Collect
<1>10. ASSUME NEW s \in batch, Book(s) PROVE TxnTypes'
  BY <1>10 DEF Book
<1>11. CASE BookDone
  BY <1>11 DEF BookDone
<1>12. ASSUME NEW o \in Orders, BeginClose(o) PROVE TxnTypes'
  BY <1>12 DEF BeginClose
<1>13. CASE CloseGone
  BY <1>13 DEF CloseGone
<1>14. CASE Sell
  BY <1>14 DEF Sell
<1>15. CASE MarkUnpriced
  BY <1>15 DEF MarkUnpriced
<1>16. CASE Mark
  BY <1>16 DEF Mark
<1>17. CASE PressKill
  BY <1>17 DEF PressKill
<1>18. CASE BeginKill
  BY <1>18 DEF BeginKill
<1>19. CASE KillMoot
  BY <1>19 DEF KillMoot
<1>20. CASE EngageKill
  BY <1>20 DEF EngageKill
<1>21. CASE BeginClear
  BY <1>21 DEF BeginClear
<1>22. CASE ReleaseKill
  BY <1>22 DEF ReleaseKill
<1>23. CASE Commit
  BY <1>23 DEF Commit
<1>24. CASE Connect
  BY <1>24 DEF Connect
<1>25. CASE Restore
  BY <1>25 DEF Restore
<1>26. CASE Arm
  BY <1>26 DEF Arm
<1>27. CASE LoopExit
  BY <1>27 DEF LoopExit
<1>28. CASE StopLoop
  BY <1>28 DEF StopLoop
<1>29. CASE JoinEnds
  BY <1>29 DEF JoinEnds
<1>35. CASE JoinTimesOut
  BY <1>35 DEF JoinTimesOut
<1>36. CASE ShutdownCommit
  BY <1>36 DEF ShutdownCommit
<1>37. CASE FreeLease
  BY <1>37 DEF FreeLease
<1>38. CASE Exit
  BY <1>38 DEF Exit, ProcessGone
<1>30. CASE Crash
  BY <1>30 DEF Crash, ProcessGone
<1>31. ASSUME NEW o \in Orders, VenueCloses(o) PROVE TxnTypes'
  BY <1>31 DEF VenueCloses
<1>32. ASSUME NEW o \in Orders, VenueResult(o) PROVE TxnTypes'
  BY <1>32 DEF VenueResult
<1>33. CASE OperatorReview
  BY <1>33 DEF OperatorReview
<1>34. CASE UNCHANGED vars
  BY <1>34 DEF vars, engineVars, holdVars, txnVars, shutVars
<1> QED
  BY <1>1, <1>2, <1>3, <1>4, <1>5, <1>6, <1>7, <1>8, <1>9, <1>10, <1>11, <1>12,
     <1>13, <1>14, <1>15, <1>16, <1>17, <1>18, <1>19, <1>20, <1>21, <1>22, <1>23,
     <1>24, <1>25, <1>26, <1>27, <1>28, <1>29, <1>30, <1>31, <1>32, <1>33, <1>34,
     <1>35, <1>36, <1>37, <1>38
  DEF Next, Submission, Settling, Closing, Killing, Lifecycle, Shutdown, Outside

\* So does the order and position book.
LEMMA BookTypesStep == TypeOK /\ ControlOK /\ [Next]_vars => BookTypes'
<1> SUFFICES ASSUME TypeOK, ControlOK, [Next]_vars PROVE BookTypes'
  OBVIOUS
<1> USE DEF TypeOK, BookTypes
<1>1. CASE UNCHANGED bookVars
  BY <1>1 DEF bookVars
<1>2. CASE Register
  <2>1. cur \in Orders
    BY <1>2 DEF Register, At, ControlOK
  <2> QED
    BY <1>2, <2>1 DEF Register
<1>3. ASSUME NEW S \in SUBSET positions, Collect(S) PROVE BookTypes'
  BY <1>3 DEF Collect, Settlements, Outcomes
<1>4. ASSUME NEW s \in batch, Book(s) PROVE BookTypes'
  <2>1. s.order \in Orders
    BY DEF Settlements
  <2> QED
    BY <1>4, <2>1 DEF Book
<1>5. CASE Mark
  <2>1. cur \in Orders
    BY <1>5 DEF Mark, At, ControlOK
  <2>2. \A r \in {"won", "refunded", "salvaged"} :
          [order |-> cur, outcome |-> r] \in Settlements
    BY <2>1 DEF Settlements, Outcomes
  <2>3. pending' \subseteq Settlements
    BY <1>5, <2>2 DEF Mark
  <2> QED
    BY <1>5, <2>3 DEF Mark
<1>6. CASE Connect
  BY <1>6 DEF Connect
<1>7. CASE ProcessGone
  BY <1>7 DEF ProcessGone
<1>8. ASSUME NEW o \in Orders, VenueResult(o) PROVE BookTypes'
  BY <1>8 DEF VenueResult
<1> QED
  BY <1>1, <1>2, <1>3, <1>4, <1>5, <1>6, <1>7, <1>8 DEF Next, vars, Submission,
     Settling,
     Closing, Killing, Lifecycle, Outside, BeginSubmit, Begin, Veto, Authorize,
     Refuse, Send, SendBroken, Register, BeginPump, Collect, Book, BookDone,
     BeginClose, CloseGone, Sell, MarkUnpriced, Mark, PressKill, BeginKill,
     KillMoot, EngageKill, BeginClear, ReleaseKill, Commit, Connect, Restore,
     Arm, LoopExit, StopLoop, Shutdown, JoinEnds, JoinTimesOut, ShutdownCommit,
     FreeLease, Exit, FailedWrite, shutVars, Crash, VenueCloses, VenueResult,
     OperatorReview

\* So does the money: the stake an order takes is covered by the cash.
LEMMA MoneyTypesStep ==
  TypeOK /\ ControlOK /\ CountersOK /\ [Next]_vars => MoneyTypes'
<1> SUFFICES ASSUME TypeOK, ControlOK, CountersOK, [Next]_vars PROVE MoneyTypes'
  OBVIOUS
<1> USE MoneyAssumption DEF TypeOK, MoneyTypes
<1>1. CASE UNCHANGED <<cash, riskCash, worth, exposureVars>>
  BY <1>1 DEF exposureVars
<1>2. CASE Authorize
  <2>1. riskCash = cash
    BY <1>2 DEF Authorize, At, ControlOK, CountersOK, Sound, InFlight
  <2>2. cash' \in Nat
    BY <1>2, <2>1 DEF Authorize, BalanceCovers
  <2> QED
    BY <1>2, <2>2 DEF Authorize, exposureVars
<1>3. CASE Refuse
  BY <1>3 DEF Refuse, exposureVars
<1>4. CASE Register
  <2>1. \A a \in Assets : openAssets[a] + 1 \in Nat
    OBVIOUS
  <2>2. openAssets' \in [Assets -> Nat]
    BY <1>4, <2>1 DEF Register
  <2> QED
    BY <1>4, <2>2 DEF Register
<1>5. ASSUME NEW s \in batch, Book(s) PROVE MoneyTypes'
  <2>1. Returned(s.outcome) \in Nat
    BY DEF BookTypes, Settlements, Outcomes, Returned
  <2>2. cash' \in Nat /\ riskCash' \in Nat
    BY <1>5, <2>1 DEF Book
  <2>3. worth' \in Int
    BY <1>5, <2>1 DEF Book, Pnl
  <2>4. \A n \in Int : AtLeastZero(n) \in Nat
    BY DEF AtLeastZero
  <2>5. openCount' \in Nat /\ stakeSum' \in Nat
    BY <1>5, <2>4 DEF Book, exposureVars
  <2>6. openAssets' \in [Assets -> Nat]
    <3>1. CASE UNCHANGED openAssets
      BY <3>1
    <3>2. CASE openAssets' = [openAssets EXCEPT ![AssetOf[s.order]] = AtLeastZero(@ - 1)]
      <4>1. \A a \in Assets : AtLeastZero(openAssets[a] - 1) \in Nat
        BY <2>4
      <4> QED
        BY <3>2, <4>1
    <3> QED
      BY <1>5, <3>1, <3>2 DEF Book, exposureVars
  <2> QED
    BY <2>2, <2>3, <2>5, <2>6
<1>6. CASE BookDone
  BY <1>6 DEF BookDone, exposureVars
<1>7. CASE Connect
  <2>1. PICK A \in SUBSET {o \in Orders : venue[o] = "open"}, b \in VenueBalances :
          /\ cash' = b /\ riskCash' = b
          /\ worth' = b + Stake * Cardinality({o \in A : booked[o] = 0})
    BY <1>7 DEF Connect
  <2>2. {o \in A : booked[o] = 0} \in SUBSET Orders
    OBVIOUS
  <2>3. Stake * Cardinality({o \in A : booked[o] = 0}) \in Nat
    BY <2>2, OrderCount, ProductType
  <2> QED
    BY <1>7, <2>1, <2>3 DEF Connect, exposureVars
<1>8. CASE Restore
  <2>1. disk \in Checkpoints
    BY DEF OutsideTypes
  <2> QED
    BY <1>8, <2>1, DiskFields DEF Restore
<1>9. CASE ProcessGone
  BY <1>9 DEF ProcessGone, NoExposure
<1> QED
  BY <1>1, <1>2, <1>3, <1>4, <1>5, <1>6, <1>7, <1>8, <1>9 DEF Next, vars,
     Submission, Settling,
     Closing, Killing, Lifecycle, Outside, BeginSubmit, Begin, Veto, Authorize,
     Refuse, Send, SendBroken, Register, BeginPump, Collect, Book, BookDone,
     BeginClose, CloseGone, Sell, MarkUnpriced, Mark, PressKill, BeginKill,
     KillMoot, EngageKill, BeginClear, ReleaseKill, Commit, Connect, Restore,
     Arm, LoopExit, StopLoop, Shutdown, JoinEnds, JoinTimesOut, ShutdownCommit,
     FreeLease, Exit, FailedWrite, shutVars, Crash, VenueCloses, VenueResult,
     OperatorReview

\* So do the checkpoint file, the venue and the history variables.
LEMMA OutsideTypesStep == TypeOK /\ ControlOK /\ [Next]_vars => OutsideTypes'
<1> SUFFICES ASSUME TypeOK, ControlOK, [Next]_vars PROVE OutsideTypes'
  OBVIOUS
<1> USE DEF OutsideTypes, TypeOK
<1>1. disk' \in Checkpoints
  <2>1. CASE UNCHANGED disk
    BY <2>1
  <2>2. ASSUME NEW operation \in OpNames, disk' = Checkpoint(operation)
        PROVE  disk' \in Checkpoints
    BY <2>2, CheckpointType
  <2>3. CASE Restore
    BY <2>1, <2>3, ResumedType DEF Restore
  <2>4. CASE OperatorReview
    BY <2>4, DiskFields, BlankType DEF OperatorReview
  <2>5. {"submit", "settle", "close", "kill", "clear-kill", "none"} = OpNames
    BY DEF OpNames
  <2> QED
    BY <2>1, <2>2, <2>3, <2>4, <2>5 DEF Next, vars, Submission, Settling,
     Closing, Killing, Lifecycle, Outside, BeginSubmit, Begin, Veto, Authorize,
     Refuse, Send, SendBroken, Register, BeginPump, Collect, Book, BookDone,
     BeginClose, CloseGone, Sell, MarkUnpriced, Mark, PressKill, BeginKill,
     KillMoot, EngageKill, BeginClear, ReleaseKill, Commit, Connect, Restore,
     Arm, LoopExit, StopLoop, Shutdown, JoinEnds, JoinTimesOut, ShutdownCommit,
     FreeLease, Exit, FailedWrite, shutVars, Crash, VenueCloses, VenueResult,
     OperatorReview
<1>2. venue' \in [Orders -> {"none", "open", "closed"}]
  <2>1. CASE UNCHANGED venue
    BY <2>1
  <2>2. CASE Send \/ SendBroken
    BY <2>2 DEF Send, SendBroken
  <2>3. CASE Sell
    BY <2>3 DEF Sell
  <2>4. ASSUME NEW o \in Orders, VenueCloses(o)
        PROVE  venue' \in [Orders -> {"none", "open", "closed"}]
    BY <2>4 DEF VenueCloses
  <2> QED
    BY <2>1, <2>2, <2>3, <2>4 DEF Next, vars, Submission, Settling,
     Closing, Killing, Lifecycle, Outside, BeginSubmit, Begin, Veto, Authorize,
     Refuse, Send, SendBroken, Register, BeginPump, Collect, Book, BookDone,
     BeginClose, CloseGone, Sell, MarkUnpriced, Mark, PressKill, BeginKill,
     KillMoot, EngageKill, BeginClear, ReleaseKill, Commit, Connect, Restore,
     Arm, LoopExit, StopLoop, Shutdown, JoinEnds, JoinTimesOut, ShutdownCommit,
     FreeLease, Exit, FailedWrite, shutVars, Crash, VenueCloses, VenueResult,
     OperatorReview,
     ProcessGone
<1>3. outstanding' \subseteq Orders
  <2>1. CASE outstanding' \subseteq outstanding
    BY <2>1
  <2>2. CASE Send \/ SendBroken
    BY <2>2 DEF Send, SendBroken, At, ControlOK
  <2> QED
    BY <2>1, <2>2 DEF Next, vars, Submission, Settling,
     Closing, Killing, Lifecycle, Outside, BeginSubmit, Begin, Veto, Authorize,
     Refuse, Send, SendBroken, Register, BeginPump, Collect, Book, BookDone,
     BeginClose, CloseGone, Sell, MarkUnpriced, Mark, PressKill, BeginKill,
     KillMoot, EngageKill, BeginClear, ReleaseKill, Commit, Connect, Restore,
     Arm, LoopExit, StopLoop, Shutdown, JoinEnds, JoinTimesOut, ShutdownCommit,
     FreeLease, Exit, FailedWrite, shutVars, Crash, VenueCloses, VenueResult,
     OperatorReview,
     ProcessGone
<1>4. ends' \in 0 .. MaxEnds
  <2>1. CASE UNCHANGED ends
    BY <2>1
  <2>2. CASE Crash \/ StopLoop
    BY <2>2, CapAssumption DEF Crash, StopLoop
  <2> QED
    BY <2>1, <2>2 DEF Next, vars, Submission, Settling,
     Closing, Killing, Lifecycle, Outside, BeginSubmit, Begin, Veto, Authorize,
     Refuse, Send, SendBroken, Register, BeginPump, Collect, Book, BookDone,
     BeginClose, CloseGone, Sell, MarkUnpriced, Mark, PressKill, BeginKill,
     KillMoot, EngageKill, BeginClear, ReleaseKill, Commit, Connect, Restore,
     Arm, LoopExit, StopLoop, Shutdown, JoinEnds, JoinTimesOut, ShutdownCommit,
     FreeLease, Exit, FailedWrite, shutVars, Crash, VenueCloses, VenueResult,
     OperatorReview,
     ProcessGone
<1> QED
  BY <1>1, <1>2, <1>3, <1>4

\* The parts together.
LEMMA TypesKept == IInv /\ [Next]_vars => TypeOK'
BY ProcessTypesStep, TxnTypesStep, BookTypesStep, MoneyTypesStep, OutsideTypesStep
   DEF IInv, TypeOK

---------------------------------------------------------------------------
(* The control invariant is preserved. *)

\* Where each transaction starts.
StartsAt(operation, first, o) ==
  \/ operation = "submit" /\ first = "authorize" /\ o \in Orders
  \/ operation = "settle" /\ first = "collect" /\ o = NoOrder
  \/ operation = "close" /\ first = "sell" /\ o \in Orders
  \/ operation = "kill" /\ first = "engage" /\ o = NoOrder
  \/ operation = "clear-kill" /\ first = "release" /\ o = NoOrder

\* A transaction begins at its first step, once its check has passed.
LEMMA BeginControl ==
  ASSUME TypeOK, ControlOK, NEW operation, NEW first, NEW o,
         StartsAt(operation, first, o), Begin(operation, first, o)
  PROVE  ControlOK'
<1>1. /\ up = "ready" /\ up' = "ready" /\ op = "none" /\ step = "none" /\ cur = NoOrder
      /\ past' = FALSE /\ UNCHANGED stop
      /\ fault => stop = "abandoned"
  BY DEF Begin, LockFree, Ready, ControlOK
<1>2. CASE op' = operation /\ step' = first /\ cur' = o /\ UNCHANGED <<fault, kill>>
  BY <1>1, <1>2 DEF StartsAt, ControlOK
<1>3. CASE Hold /\ UNCHANGED txnVars
  BY <1>1, <1>3 DEF Hold, txnVars, ControlOK
<1> QED
  BY <1>2, <1>3 DEF Begin, holdVars

\* Every other step moves its transaction on, ends it or holds.
LEMMA ControlStep == TypeOK /\ ControlOK /\ [Next]_vars => ControlOK'
<1> SUFFICES ASSUME TypeOK, ControlOK, [Next]_vars PROVE ControlOK'
  OBVIOUS
<1> USE DEF ControlOK, Hold, At, Goto, Release, txnVars, holdVars, shutVars
<1>1. ASSUME NEW o \in Orders, BeginSubmit(o) PROVE ControlOK'
  BY <1>1, BeginControl DEF BeginSubmit, StartsAt
<1>2. CASE Veto
  BY <1>2 DEF Veto
<1>3. CASE Authorize
  BY <1>3 DEF Authorize, KillOff
<1>4. CASE Refuse
  BY <1>4 DEF Refuse
<1>5. CASE Send
  BY <1>5 DEF Send
<1>6. CASE SendBroken
  BY <1>6 DEF SendBroken
<1>7. CASE Register
  BY <1>7 DEF Register
<1>8. CASE BeginPump
  BY <1>8, BeginControl DEF BeginPump, StartsAt
<1>9. ASSUME NEW S \in SUBSET positions, Collect(S) PROVE ControlOK'
  BY <1>9 DEF Collect
<1>10. ASSUME NEW s \in batch, Book(s) PROVE ControlOK'
  BY <1>10 DEF Book
<1>11. CASE BookDone
  BY <1>11 DEF BookDone
<1>12. ASSUME NEW o \in Orders, BeginClose(o) PROVE ControlOK'
  BY <1>12, BeginControl DEF BeginClose, StartsAt
<1>13. CASE CloseGone
  BY <1>13 DEF CloseGone
<1>14. CASE Sell
  BY <1>14 DEF Sell
<1>15. CASE MarkUnpriced
  BY <1>15 DEF MarkUnpriced
<1>16. CASE Mark
  BY <1>16 DEF Mark
<1>17. CASE PressKill
  BY <1>17 DEF PressKill
<1>18. CASE BeginKill
  BY <1>18, BeginControl DEF BeginKill, StartsAt
<1>19. CASE KillMoot
  BY <1>19 DEF KillMoot
<1>20. CASE EngageKill
  BY <1>20 DEF EngageKill
<1>21. CASE BeginClear
  BY <1>21, BeginControl DEF BeginClear, StartsAt
<1>22. CASE ReleaseKill
  BY <1>22 DEF ReleaseKill
<1>23. CASE Commit
  <2>1. /\ up' = "ready" /\ op' = "none" /\ step' = "none" /\ cur' = NoOrder
        /\ past' = FALSE /\ UNCHANGED stop /\ up = "ready"
    BY <1>23 DEF Commit, Release
  <2>2. CASE UNCHANGED <<fault, kill>>
    BY <2>1, <2>2
  <2>3. CASE Hold
    BY <2>1, <2>3 DEF Hold
  <2> QED
    BY <1>23, <2>2, <2>3 DEF Commit, holdVars
<1>24. CASE Connect
  BY <1>24 DEF Connect
<1>25. CASE Restore
  BY <1>25 DEF Restore
<1>26. CASE Arm
  BY <1>26 DEF Arm
<1>27. CASE LoopExit
  BY <1>27 DEF LoopExit
<1>28. CASE StopLoop
  BY <1>28 DEF StopLoop
<1>29. CASE JoinEnds
  BY <1>29 DEF JoinEnds
<1>35. CASE JoinTimesOut
  BY <1>35, PassingMeans DEF JoinTimesOut, Ready
<1>36. CASE ShutdownCommit
  BY <1>36 DEF ShutdownCommit, LockFree
<1>37. CASE FreeLease
  BY <1>37, PassingMeans DEF FreeLease, Ready
<1>38. CASE Exit
  BY <1>38 DEF Exit, ProcessGone
<1>30. CASE Crash
  BY <1>30 DEF Crash, ProcessGone
<1>31. ASSUME NEW o \in Orders, VenueCloses(o) PROVE ControlOK'
  BY <1>31 DEF VenueCloses
<1>32. ASSUME NEW o \in Orders, VenueResult(o) PROVE ControlOK'
  BY <1>32 DEF VenueResult
<1>33. CASE OperatorReview
  BY <1>33 DEF OperatorReview
<1>34. CASE UNCHANGED vars
  BY <1>34 DEF vars, engineVars, holdVars, txnVars, shutVars
<1> QED
  BY <1>1, <1>2, <1>3, <1>4, <1>5, <1>6, <1>7, <1>8, <1>9, <1>10, <1>11, <1>12,
     <1>13, <1>14, <1>15, <1>16, <1>17, <1>18, <1>19, <1>20, <1>21, <1>22, <1>23,
     <1>24, <1>25, <1>26, <1>27, <1>28, <1>29, <1>30, <1>31, <1>32, <1>33, <1>34,
     <1>35, <1>36, <1>37, <1>38
  DEF Next, Submission, Settling, Closing, Killing, Lifecycle, Shutdown, Outside

---------------------------------------------------------------------------
(* Where contracts and settlements can be: BootOK and FlowOK are preserved. *)

\* A booting process has booked nothing since it took the venue's cash.
LEMMA BootStep == TypeOK /\ ControlOK /\ BootOK /\ [Next]_vars => BootOK'
<1> SUFFICES ASSUME TypeOK, ControlOK, BootOK, [Next]_vars PROVE BootOK'
  OBVIOUS
<1>1. CASE up' = "ready"
  BY <1>1 DEF BootOK
<1>2. CASE ProcessGone
  BY <1>2 DEF ProcessGone, BootOK
<1>3. CASE Connect
  <2>1. PICK A \in SUBSET {o \in Orders : venue[o] = "open"}, b \in VenueBalances :
          /\ positions' = A /\ adopted' = A
          /\ cash' = b /\ riskCash' = b
          /\ worth' = b + Stake * Cardinality({o \in A : booked[o] = 0})
    BY <1>3 DEF Connect
  <2>2. AdoptedOpen' = {o \in A : booked[o] = 0}
    BY <1>3, <2>1 DEF Connect, bookVars, AdoptedOpen
  <2>3. up' = "booting" /\ orders' = {}
    BY <1>3 DEF Connect, BootOK
  <2> QED
    BY <2>1, <2>2, <2>3 DEF BootOK
<1>4. CASE /\ UNCHANGED <<up, orders, adopted, booked, cash, riskCash, worth>>
           /\ positions' \subseteq positions
  <2>1. AdoptedOpen' = AdoptedOpen
    BY <1>4 DEF AdoptedOpen
  <2> QED
    BY <1>4, <2>1 DEF BootOK
<1>5. CASE up \in {"down", "booting"}
  BY <1>1, <1>2, <1>3, <1>4, <1>5 DEF bookVars, ControlOK, Next, vars, Submission,
     Settling,
     Closing, Killing, Lifecycle, Outside, BeginSubmit, Begin, Veto, Authorize,
     Refuse, Send, SendBroken, Register, BeginPump, Collect, Book, BookDone,
     BeginClose, CloseGone, Sell, MarkUnpriced, Mark, PressKill, BeginKill,
     KillMoot, EngageKill, BeginClear, ReleaseKill, Commit, Connect, Restore,
     Arm, LoopExit, StopLoop, Shutdown, JoinEnds, JoinTimesOut, ShutdownCommit,
     FreeLease, Exit, FailedWrite, shutVars, Crash, VenueCloses, VenueResult,
     OperatorReview,
     At, LockFree
<1>6. CASE up = "ready"
  BY <1>1, <1>2, <1>6 DEF Next, vars, Submission, Settling,
     Closing, Killing, Lifecycle, Outside, BeginSubmit, Begin, Veto, Authorize,
     Refuse, Send, SendBroken, Register, BeginPump, Collect, Book, BookDone,
     BeginClose, CloseGone, Sell, MarkUnpriced, Mark, PressKill, BeginKill,
     KillMoot, EngageKill, BeginClear, ReleaseKill, Commit, Connect, Restore,
     Arm, LoopExit, StopLoop, Shutdown, JoinEnds, JoinTimesOut, ShutdownCommit,
     FreeLease, Exit, FailedWrite, shutVars, Crash, VenueCloses, VenueResult,
     OperatorReview
<1> QED
  BY <1>5, <1>6 DEF TypeOK, ProcessTypes

\* Only boot makes the books sound: a hold that has struck is never lifted, and
\* nobody who asks during it gets past the check.
LEMMA SoundSince ==
  ASSUME IInv, [Next]_vars, Sound', ~Restore
  PROVE  Sound
<1>1. up = "ready"
  BY DEF Next, vars, Submission, Settling,
     Closing, Killing, Lifecycle, Outside, BeginSubmit, Begin, Veto, Authorize,
     Refuse, Send, SendBroken, Register, BeginPump, Collect, Book, BookDone,
     BeginClose, CloseGone, Sell, MarkUnpriced, Mark, PressKill, BeginKill,
     KillMoot, EngageKill, BeginClear, ReleaseKill, Commit, Connect, Restore,
     Arm, LoopExit, StopLoop, Shutdown, JoinEnds, JoinTimesOut, ShutdownCommit,
     FreeLease, Exit, Crash, VenueCloses, VenueResult,
     OperatorReview, ProcessGone, Sound, At, LockFree
<1>2. SUFFICES ASSUME ~Sound PROVE FALSE
  OBVIOUS
<1>3. /\ fault /\ op = "none" /\ step = "none" /\ ~past /\ ~Ready
      /\ stop = "committing" => riskCash # cash
  BY <1>1, <1>2 DEF Sound, Ready, IInv, ControlOK
<1>4. CASE JoinTimesOut \/ FreeLease
  <2>1. past' = FALSE
    BY <1>3, <1>4, PassingMeans DEF JoinTimesOut, FreeLease, IInv
  <2> QED
    BY <1>3, <1>4, <2>1 DEF JoinTimesOut, FreeLease, Hold, Sound, txnVars, holdVars
<1>5. CASE ShutdownCommit
  BY <1>3, <1>5 DEF ShutdownCommit, SnapshotOK, Hold, Sound, txnVars
<1>6. CASE ProcessGone
  BY <1>6 DEF ProcessGone, Sound
<1>7. CASE /\ UNCHANGED <<fault, op, past, riskCash, cash>>
           /\ stop' = "committing" => stop = "committing"
  BY <1>3, <1>7 DEF Sound
<1> QED
  BY <1>1, <1>3, <1>4, <1>5, <1>6, <1>7 DEF Next, vars, Submission, Settling,
     Closing, Killing, Lifecycle, Outside, BeginSubmit, Begin, Veto, Authorize,
     Refuse, Send, SendBroken, Register, BeginPump, Collect, Book, BookDone,
     BeginClose, CloseGone, Sell, MarkUnpriced, Mark, PressKill, BeginKill,
     KillMoot, EngageKill, BeginClear, ReleaseKill, Commit, Connect,
     Arm, LoopExit, StopLoop, Shutdown, JoinEnds, Exit, Crash, VenueCloses,
     VenueResult, OperatorReview, At, LockFree, holdVars, txnVars, shutVars

\* A boot with anything to review is not sound.
LEMMA RestoredSound ==
  IInv /\ Restore /\ Sound' => /\ ~NeedsReview /\ up = "booting" /\ ~fault'
                              /\ kill' = SavedKill /\ disk' = Booted
<1> SUFFICES ASSUME IInv, Restore, Sound'
             PROVE  /\ ~NeedsReview /\ up = "booting" /\ ~fault'
                    /\ kill' = SavedKill /\ disk' = Booted
  OBVIOUS
<1>1. up = "booting" /\ op' = "none" /\ ~past' /\ stop' = "none"
  BY DEF Restore, txnVars, shutVars, IInv, TypeOK, ProcessTypes, ControlOK
<1>2. ~fault'
  BY <1>1 DEF Sound
<1> QED
  BY <1>1, <1>2 DEF Restore

\* A submit that breaks off with the stake debited leaves the books unsound.
LEMMA BrokenUnsound == IInv /\ SendBroken => ~Sound'
<1> SUFFICES ASSUME IInv, SendBroken PROVE ~Sound'
  OBVIOUS
<1>1. Sound /\ step = "route" /\ ~past
  BY DEF SendBroken, At, Sound, IInv, ControlOK
<1>2. riskCash = cash + Stake /\ cash \in Nat
  BY <1>1 DEF IInv, CountersOK, InFlight, TypeOK, MoneyTypes
<1>3. riskCash # cash
  BY <1>2, MoneyAssumption
<1> QED
  BY <1>1, <1>3 DEF SendBroken, Hold, Release, shutVars, Sound

\* A settlement moves from the position book through the queues to the
\* trade records and is never in two places.
LEMMA FlowStep == IInv /\ [Next]_vars => FlowOK'
<1> SUFFICES ASSUME IInv, [Next]_vars PROVE FlowOK'
  OBVIOUS
<1> USE DEF IInv, TypeOK, ControlOK, FlowOK, BookTypes, TxnTypes, OutsideTypes,
   Begin, LockFree, Hold, At, Goto, Release, bookVars, txnVars, holdVars
<1>0. Sound' => Sound \/ Restore
  BY SoundSince
<1>1. ASSUME NEW o \in Orders, BeginSubmit(o) PROVE FlowOK'
  BY <1>1, <1>0 DEF Restore, BeginSubmit
<1>2. CASE Veto
  BY <1>2, <1>0 DEF Restore, Veto
<1>3. CASE Authorize
  BY <1>3, <1>0 DEF Restore, Authorize
<1>4. CASE Refuse
  BY <1>4, <1>0 DEF Restore, Refuse
<1>5. CASE Send
  BY <1>5, <1>0 DEF Restore, Send
<1>6. CASE SendBroken
  BY <1>6, <1>0 DEF Restore, SendBroken
<1>7. CASE Register
  BY <1>7, <1>0 DEF Restore, Register
<1>8. CASE BeginPump
  BY <1>8, <1>0 DEF Restore, BeginPump
<1>9. ASSUME NEW S \in SUBSET positions, Collect(S) PROVE FlowOK'
  <2>1. PICK result \in [S -> {"won", "lost", "refunded"}] :
          batch' = pending \cup {[order |-> o, outcome |-> result[o]] : o \in S}
    BY <1>9 DEF Collect
  <2>2. /\ pending' = {} /\ positions' = positions \ S /\ step' = "book"
        /\ UNCHANGED <<up, orders, adopted, booked, fault, op, cur, venue, outstanding>>
    BY <1>9 DEF Collect
  <2>3. \A t \in batch' :
          t \in pending \/ (t.order \in S /\ t = [order |-> t.order, outcome |-> result[t.order]])
    <3>1. SUFFICES ASSUME NEW t \in batch', t \notin pending
          PROVE  t.order \in S /\ t = [order |-> t.order, outcome |-> result[t.order]]
      OBVIOUS
    <3>2. PICK o \in S : t = [order |-> o, outcome |-> result[o]]
      BY <2>1, <3>1
    <3> QED
      BY <3>2
  <2>4. \A t \in batch' : /\ t.order \in orders \cup adopted
                          /\ t.order \notin positions'
                          /\ booked[t.order] = 0
    BY <1>9, <2>2, <2>3 DEF Collect, Sound
  <2>5. \A t, u \in batch' : t.order = u.order => t = u
    BY <1>9, <2>3
  <2> QED
    BY <1>0, <1>9, <2>2, <2>4, <2>5 DEF Collect, Restore
<1>10. ASSUME NEW s \in batch, Book(s) PROVE FlowOK'
  BY <1>10, <1>0 DEF Restore, Book
<1>11. CASE BookDone
  BY <1>11, <1>0 DEF Restore, BookDone
<1>12. ASSUME NEW o \in Orders, BeginClose(o) PROVE FlowOK'
  <2>1. Sound /\ booked[o] = 0
    BY <1>12 DEF BeginClose, Sound, Ready
  <2> QED
    BY <1>12, <1>0, <2>1 DEF Restore, BeginClose
<1>13. CASE CloseGone
  BY <1>13, <1>0 DEF Restore, CloseGone
<1>14. CASE Sell
  BY <1>14, <1>0 DEF Restore, Sell
<1>15. CASE MarkUnpriced
  BY <1>15, <1>0 DEF Restore, MarkUnpriced
<1>16. CASE Mark
  BY <1>16, <1>0 DEF Restore, Mark
<1>17. CASE PressKill
  BY <1>17, <1>0 DEF Restore, PressKill
<1>18. CASE BeginKill
  BY <1>18, <1>0 DEF Restore, BeginKill
<1>19. CASE KillMoot
  BY <1>19, <1>0 DEF Restore, KillMoot
<1>20. CASE EngageKill
  BY <1>20, <1>0 DEF Restore, EngageKill
<1>21. CASE BeginClear
  BY <1>21, <1>0 DEF Restore, BeginClear
<1>22. CASE ReleaseKill
  BY <1>22, <1>0 DEF Restore, ReleaseKill
<1>23. CASE Commit
  BY <1>23, <1>0 DEF Restore, Commit
<1>24. CASE Connect
  BY <1>24 DEF Connect, BootOK, Sound
<1>25. CASE Restore
  <2>1. /\ step = "none" /\ pending = {} /\ batch = {} /\ up' = "ready"
        /\ UNCHANGED <<bookVars, txnVars, venue, outstanding>>
    BY <1>25 DEF Restore
  <2>2. CASE fault'
    <3>1. ~Sound'
      BY <1>25, <2>1, <2>2 DEF Restore, Sound, shutVars
    <3> QED
      BY <2>1, <2>2, <3>1
  <2>3. CASE ~NeedsReview
    BY <2>1, <2>3 DEF NeedsReview, DiskOK, DiskBlank
  <2> QED
    BY <1>25, <2>2, <2>3 DEF Restore
<1>26. CASE Arm
  BY <1>26, <1>0 DEF Restore, Arm
<1>27. CASE LoopExit
  BY <1>27, <1>0 DEF Restore, LoopExit
<1>28. CASE StopLoop
  BY <1>28, <1>0 DEF Restore, StopLoop
<1>29. CASE JoinEnds
  BY <1>29, <1>0 DEF Restore, JoinEnds
<1>35. CASE JoinTimesOut
  BY <1>35, <1>0 DEF Restore, JoinTimesOut
<1>36. CASE ShutdownCommit
  BY <1>36, <1>0 DEF Restore, ShutdownCommit
<1>37. CASE FreeLease
  BY <1>37, <1>0 DEF Restore, FreeLease
<1>38. CASE Exit
  BY <1>38, <1>0 DEF Restore, Exit, ProcessGone
<1>30. CASE Crash
  BY <1>30, <1>0 DEF Restore, Crash, ProcessGone
<1>31. ASSUME NEW o \in Orders, VenueCloses(o) PROVE FlowOK'
  <2>1. /\ venue[o] = "open" /\ venue' = [venue EXCEPT ![o] = "closed"]
        /\ UNCHANGED <<up, bookVars, fault, txnVars, outstanding>>
    BY <1>31 DEF VenueCloses
  <2>2. \A p \in Orders : (venue'[p] = "none") <=> (venue[p] = "none")
    BY <2>1
  <2>3. cur \in Orders \/ step \notin {"authorize", "route", "register"}
    BY DEF OpNames
  <2> QED
    BY <1>0, <1>31, <2>1, <2>2, <2>3 DEF VenueCloses, Restore
<1>32. ASSUME NEW o \in Orders, VenueResult(o) PROVE FlowOK'
  BY <1>32, <1>0 DEF Restore, VenueResult
<1>33. CASE OperatorReview
  BY <1>33, <1>0 DEF Restore, OperatorReview
<1>34. CASE UNCHANGED vars
  BY <1>34, <1>0 DEF Restore, vars, engineVars, holdVars, txnVars, shutVars
<1> QED
  BY <1>1, <1>2, <1>3, <1>4, <1>5, <1>6, <1>7, <1>8, <1>9, <1>10, <1>11, <1>12,
     <1>13, <1>14, <1>15, <1>16, <1>17, <1>18, <1>19, <1>20, <1>21, <1>22, <1>23,
     <1>24, <1>25, <1>26, <1>27, <1>28, <1>29, <1>30, <1>31, <1>32, <1>33, <1>34,
     <1>35, <1>36, <1>37, <1>38
  DEF Next, Submission, Settling, Closing, Killing, Lifecycle, Shutdown, Outside

---------------------------------------------------------------------------
(* Counting the exposed orders. *)

\* One order more on the books: one more in all and one more on its asset.
LEMMA CountAdd ==
  ASSUME NEW S \in SUBSET Orders, NEW o \in Orders, o \notin S
  PROVE  /\ Cardinality(S \cup {o}) = Cardinality(S) + 1
         /\ \A a \in Assets :
              Cardinality({p \in S \cup {o} : AssetOf[p] = a})
                = Cardinality({p \in S : AssetOf[p] = a})
                  + (IF a = AssetOf[o] THEN 1 ELSE 0)
<1>1. Cardinality(S \cup {o}) = Cardinality(S) + 1
  BY OrderCount, FS_AddElement
<1>2. ASSUME NEW a \in Assets
      PROVE  Cardinality({p \in S \cup {o} : AssetOf[p] = a})
               = Cardinality({p \in S : AssetOf[p] = a})
                 + (IF a = AssetOf[o] THEN 1 ELSE 0)
  <2> DEFINE On == {p \in S : AssetOf[p] = a}
  <2>1. On \in SUBSET Orders
    OBVIOUS
  <2>2. IsFiniteSet(On) /\ Cardinality(On) \in Nat
    BY <2>1, OrderCount
  <2>3. CASE a = AssetOf[o]
    <3>1. {p \in S \cup {o} : AssetOf[p] = a} = On \cup {o} /\ o \notin On
      BY <2>3
    <3>2. Cardinality(On \cup {o}) = Cardinality(On) + 1
      BY <2>2, <3>1, FS_AddElement
    <3> QED
      BY <2>3, <3>1, <3>2
  <2>4. CASE a # AssetOf[o]
    <3>1. {p \in S \cup {o} : AssetOf[p] = a} = On
      BY <2>4
    <3> QED
      BY <2>2, <2>4, <3>1
  <2> QED
    BY <2>3, <2>4
<1> QED
  BY <1>1, <1>2

\* One order less on the books: one less in all and one less on its asset.
LEMMA CountRemove ==
  ASSUME NEW S \in SUBSET Orders, NEW o \in S
  PROVE  /\ Cardinality(S \ {o}) = Cardinality(S) - 1
         /\ Cardinality(S) \in Nat \ {0}
         /\ \A a \in Assets :
              /\ Cardinality({p \in S \ {o} : AssetOf[p] = a})
                   = Cardinality({p \in S : AssetOf[p] = a})
                     - (IF a = AssetOf[o] THEN 1 ELSE 0)
              /\ a = AssetOf[o] =>
                   Cardinality({p \in S : AssetOf[p] = a}) \in Nat \ {0}
<1> DEFINE T == S \ {o}
<1>1. T \in SUBSET Orders /\ o \in Orders /\ o \notin T /\ T \cup {o} = S
  OBVIOUS
<1>2. Cardinality(T) \in Nat
  BY <1>1, OrderCount
<1>3. \A a \in Assets : {p \in T : AssetOf[p] = a} \in SUBSET Orders
  BY <1>1
<1>4. \A a \in Assets : Cardinality({p \in T : AssetOf[p] = a}) \in Nat
  BY <1>3, OrderCount
<1>5. /\ Cardinality(S) = Cardinality(T) + 1
      /\ \A a \in Assets :
           Cardinality({p \in S : AssetOf[p] = a})
             = Cardinality({p \in T : AssetOf[p] = a})
               + (IF a = AssetOf[o] THEN 1 ELSE 0)
  <2> HIDE DEF T
  <2>1. /\ Cardinality(T \cup {o}) = Cardinality(T) + 1
        /\ \A a \in Assets :
             Cardinality({p \in T \cup {o} : AssetOf[p] = a})
               = Cardinality({p \in T : AssetOf[p] = a})
                 + (IF a = AssetOf[o] THEN 1 ELSE 0)
    BY <1>1, CountAdd
  <2> QED
    BY <1>1, <2>1
<1> QED
  BY <1>2, <1>4, <1>5

\* The stake of one order more, and of one order less.
LEMMA StakeOfOneMore ==
  ASSUME NEW n \in Nat
  PROVE  /\ Stake * (n + 1) = Stake * n + Stake
         /\ n > 0 => Stake * (n - 1) = Stake * n - Stake /\ Stake * n >= Stake
         /\ Stake * 0 = 0
         /\ Stake * n \in Nat
BY MoneyAssumption

\* A checkpoint that needs no review and holds no contract says so throughout.
LEMMA CleanCheckpoint ==
  ASSUME IInv, up = "booting", ~NeedsReview
  PROVE  /\ disk.op = "none" /\ disk.count = 0 /\ disk.stake = 0
         /\ \A a \in Assets : disk.assets[a] = 0
         /\ disk.orders = {} /\ outstanding = {}
<1>1. disk \in Checkpoints
  BY DEF IInv, TypeOK, OutsideTypes
<1>2. disk.op = "none" /\ disk.count = 0
  <2>1. CASE disk.saved
    <3>1. disk.count \in Nat /\ disk.op = "none" /\ ~(disk.count > 0)
      BY <1>1, <2>1, DiskFields DEF NeedsReview
    <3> QED
      BY <3>1
  <2>2. CASE ~disk.saved
    BY <2>2 DEF IInv, DiskOK, DiskBlank
  <2> QED
    BY <2>1, <2>2
<1>3. disk.orders \in SUBSET Orders
  BY <1>1, DiskFields
<1>4. disk.orders = {}
  BY <1>2, <1>3, OrderCount, FS_EmptySet DEF IInv, DiskOK, DiskSums
<1>5. \A a \in Assets : {o \in disk.orders : AssetOf[o] = a} = {}
  BY <1>4
<1>6. \A a \in Assets : disk.assets[a] = 0
  BY <1>5, FS_EmptySet DEF IInv, DiskOK, DiskSums
<1> QED
  BY <1>2, <1>4, <1>6, StakeOfOneMore DEF IInv, DiskOK, DiskSums, CrashSafe

\* The governor's counters keep counting exactly the exposed orders.
LEMMA CountersStep == IInv /\ [Next]_vars => CountersOK'
<1> SUFFICES ASSUME IInv, [Next]_vars, Sound' PROVE CountersOK'
  BY DEF CountersOK
<1> DEFINE On(a) == {o \in Exposed : AssetOf[o] = a}
<1>1. Exposed \in SUBSET Orders
  BY DEF IInv, TypeOK, BookTypes, Exposed
<1>2. CASE /\ Sound
           /\ UNCHANGED <<orders, booked, exposureVars, cash, riskCash>>
           /\ InFlight' = InFlight
  <2>1. Exposed' = Exposed
    BY <1>2 DEF Exposed
  <2> QED
    BY <1>2, <2>1 DEF CountersOK, IInv, exposureVars
<1>3. CASE Authorize \/ Refuse
  <2>1. Sound /\ Exposed' = Exposed
    BY <1>3 DEF Authorize, Refuse, At, IInv, ControlOK, Sound, bookVars, Exposed
  <2>2. riskCash' = cash' + InFlight'
    BY <1>3, <2>1, MoneyAssumption
       DEF Authorize, Refuse, At, Goto, InFlight, IInv, TypeOK, MoneyTypes,
          CountersOK
  <2>3. UNCHANGED exposureVars
    BY <1>3 DEF Authorize, Refuse
  <2> QED
    BY <2>1, <2>2, <2>3 DEF IInv, CountersOK, exposureVars
<1>4. CASE Register
  <2>1. Sound /\ cur \in Orders /\ cur \notin Exposed
    BY <1>4 DEF Register, At, IInv, ControlOK, FlowOK, Sound, Exposed
  <2>2. Exposed' = Exposed \cup {cur}
    BY <1>4 DEF Register, At, IInv, FlowOK, Exposed
  <2>3. riskCash' = cash' + InFlight'
    BY <1>4 DEF Register, Goto, InFlight, IInv, TypeOK, MoneyTypes
  <2>4. openCount' = Cardinality(Exposed')
    BY <1>1, <1>4, <2>1, <2>2, CountAdd DEF Register, IInv, CountersOK
  <2>5. stakeSum' = Stake * Cardinality(Exposed')
    BY <1>1, <1>4, <2>1, <2>2, CountAdd, OrderCount, StakeOfOneMore
       DEF Register, IInv, CountersOK
  <2>6. \A a \in Assets : Cardinality(On(a)) \in Nat /\ openAssets[a] = Cardinality(On(a))
    <3>1. \A a \in Assets : On(a) \in SUBSET Orders
      BY <1>1
    <3> QED
      BY <2>1, <3>1, OrderCount DEF IInv, CountersOK
  <2>7. \A a \in Assets :
          openAssets'[a] = openAssets[a] + (IF a = AssetOf[cur] THEN 1 ELSE 0)
    <3>1. openAssets' = [openAssets EXCEPT ![AssetOf[cur]] = @ + 1]
      BY <1>4 DEF Register
    <3> QED
      BY <3>1 DEF IInv, TypeOK, MoneyTypes
  <2>8. \A a \in Assets :
          openAssets'[a] = Cardinality({o \in Exposed' : AssetOf[o] = a})
    <3>1. \A a \in Assets :
            Cardinality({o \in Exposed \cup {cur} : AssetOf[o] = a})
              = Cardinality(On(a)) + (IF a = AssetOf[cur] THEN 1 ELSE 0)
      BY <1>1, <2>1, CountAdd
    <3>2. \A a \in Assets :
            openAssets'[a] = Cardinality({o \in Exposed \cup {cur} : AssetOf[o] = a})
      <4> HIDE DEF On
      <4> QED
        BY <2>6, <2>7, <3>1
    <3> QED
      BY <2>2, <3>2
  <2> QED
    BY <2>3, <2>4, <2>5, <2>8 DEF CountersOK
<1>5. ASSUME NEW s \in batch, Book(s) PROVE CountersOK'
  <2>1. /\ Sound /\ step = "book" /\ booked[s.order] = 0 /\ s.order \in Orders
        /\ booked' = [booked EXCEPT ![s.order] = @ + 1] /\ orders' = orders
    BY <1>5 DEF Book, IInv, ControlOK, FlowOK, Sound, TypeOK, BookTypes,
       Settlements
  <2>2. riskCash' = cash' + InFlight'
    BY <1>5, <2>1, TypesKept DEF Book, txnVars, InFlight, TypeOK, MoneyTypes
  <2>3. CASE s.order \notin orders
    <3>1. Exposed' = Exposed
      BY <2>1, <2>3 DEF Exposed, IInv, TypeOK, BookTypes
    <3>2. UNCHANGED exposureVars
      BY <1>5, <2>3 DEF Book
    <3> QED
      BY <2>1, <2>2, <3>1, <3>2 DEF CountersOK, IInv, exposureVars
  <2>4. CASE s.order \in orders
    <3>1. s.order \in Exposed /\ Exposed' = Exposed \ {s.order}
      BY <2>1, <2>4 DEF Exposed, IInv, TypeOK, BookTypes
    <3>2. /\ openCount' = AtLeastZero(openCount - 1)
          /\ stakeSum' = AtLeastZero(stakeSum - Stake)
          /\ openAssets' = [openAssets EXCEPT ![AssetOf[s.order]] = AtLeastZero(@ - 1)]
      BY <1>5, <2>4 DEF Book
    <3>3. Cardinality(Exposed) \in Nat \ {0}
          /\ Cardinality(Exposed') = Cardinality(Exposed) - 1
      BY <1>1, <3>1, CountRemove
    <3>4. openCount' = Cardinality(Exposed')
      BY <2>1, <3>2, <3>3 DEF IInv, CountersOK, AtLeastZero
    <3>5. stakeSum' = Stake * Cardinality(Exposed')
      <4>1. /\ stakeSum = Stake * Cardinality(Exposed)
            /\ Stake * Cardinality(Exposed') = Stake * Cardinality(Exposed) - Stake
            /\ stakeSum >= Stake /\ stakeSum \in Nat
        BY <2>1, <3>3, StakeOfOneMore DEF IInv, CountersOK, TypeOK, MoneyTypes
      <4> QED
        BY <3>2, <4>1, MoneyAssumption DEF AtLeastZero
    <3>6. \A a \in Assets :
            openAssets'[a] = Cardinality({o \in Exposed' : AssetOf[o] = a})
      <4>1. \A a \in Assets :
              openAssets'[a] = IF a = AssetOf[s.order]
                               THEN AtLeastZero(openAssets[a] - 1) ELSE openAssets[a]
        BY <3>2 DEF IInv, TypeOK, MoneyTypes
      <4>2. \A a \in Assets :
              openAssets[a] \in Nat /\ openAssets[a] = Cardinality(On(a))
        BY <2>1 DEF IInv, CountersOK, TypeOK, MoneyTypes
      <4>3. \A a \in Assets :
              /\ Cardinality({o \in Exposed \ {s.order} : AssetOf[o] = a})
                   = Cardinality(On(a)) - (IF a = AssetOf[s.order] THEN 1 ELSE 0)
              /\ a = AssetOf[s.order] => Cardinality(On(a)) \in Nat \ {0}
        BY <1>1, <3>1, CountRemove
      <4>4. \A a \in Assets :
              openAssets'[a] = Cardinality({o \in Exposed \ {s.order} : AssetOf[o] = a})
        <5> HIDE DEF On
        <5> QED
          BY <4>1, <4>2, <4>3 DEF AtLeastZero
      <4> QED
        BY <3>1, <4>4
    <3> QED
      BY <2>2, <3>4, <3>5, <3>6 DEF CountersOK
  <2> QED
    BY <2>3, <2>4
<1>6. CASE BookDone
  <2>1. Sound /\ Exposed' = Exposed /\ UNCHANGED exposureVars
    BY <1>6 DEF BookDone, IInv, ControlOK, Sound, bookVars, Exposed
  <2>2. step' = "commit" /\ riskCash' = cash' /\ cash' \in Nat
    BY <1>6, TypesKept DEF BookDone, Goto, TypeOK, MoneyTypes
  <2>3. InFlight' = 0
    BY <2>2 DEF InFlight
  <2>4. riskCash' = cash' + InFlight'
    BY <2>2, <2>3, PlusZero
  <2> QED
    BY <2>1, <2>4 DEF exposureVars, IInv, CountersOK
<1>7. CASE Restore
  <2>1. ~NeedsReview /\ up = "booting"
    BY <1>7, RestoredSound
  <2>2. /\ openCount' = 0 /\ stakeSum' = 0 /\ \A a \in Assets : openAssets'[a] = 0
    BY <1>7, <2>1, CleanCheckpoint DEF Restore
  <2>3. Exposed' = {} /\ \A a \in Assets : {o \in Exposed' : AssetOf[o] = a} = {}
    BY <1>7, <2>1 DEF Restore, bookVars, IInv, BootOK, Exposed
  <2>4. step' = "none" /\ riskCash' = cash' /\ cash' \in Nat
    BY <1>7, <2>1 DEF Restore, txnVars, IInv, BootOK, ControlOK, TypeOK, MoneyTypes
  <2>5. InFlight' = 0
    BY <2>4 DEF InFlight
  <2>6. riskCash' = cash' + InFlight'
    BY <2>4, <2>5, PlusZero
  <2> QED
    BY <2>2, <2>3, <2>6, FS_EmptySet, StakeOfOneMore DEF CountersOK
<1>8. CASE /\ ~Restore /\ ~Authorize /\ ~Refuse /\ ~Register /\ ~BookDone
           /\ ~ \E s \in batch : Book(s)
  <2>1. Sound
    BY <1>8, SoundSince
  <2>2. UNCHANGED <<orders, booked, exposureVars, cash, riskCash>>
    BY <1>8, <2>1, BrokenUnsound DEF Next, vars, Submission, Settling,
     Closing, Killing, Lifecycle, Outside, BeginSubmit, Begin, Veto, Authorize,
     Refuse, Send, SendBroken, Register, BeginPump, Collect, Book, BookDone,
     BeginClose, CloseGone, Sell, MarkUnpriced, Mark, PressKill, BeginKill,
     KillMoot, EngageKill, BeginClear, ReleaseKill, Commit, Connect, Restore,
     Arm, LoopExit, StopLoop, Shutdown, JoinEnds, JoinTimesOut, ShutdownCommit,
     FreeLease, Exit, FailedWrite, shutVars, Crash, VenueCloses, VenueResult,
     OperatorReview, ProcessGone, Sound, bookVars
  <2>3. InFlight' = InFlight
    BY <1>8, <2>1, BrokenUnsound DEF Next, vars, Submission, Settling,
     Closing, Killing, Lifecycle, Outside, BeginSubmit, Begin, Veto, Authorize,
     Refuse, Send, SendBroken, Register, BeginPump, Collect, Book, BookDone,
     BeginClose, CloseGone, Sell, MarkUnpriced, Mark, PressKill, BeginKill,
     KillMoot, EngageKill, BeginClear, ReleaseKill, Commit, Connect, Restore,
     Arm, LoopExit, StopLoop, Shutdown, JoinEnds, JoinTimesOut, ShutdownCommit,
     FreeLease, Exit, FailedWrite, shutVars, Crash, VenueCloses, VenueResult,
     OperatorReview, ProcessGone, Sound, At,
       Goto, Release, Hold, txnVars, InFlight, IInv, ControlOK, LockFree
  <2> QED
    BY <1>2, <2>1, <2>2, <2>3
<1> QED
  BY <1>3, <1>4, <1>5, <1>6, <1>7, <1>8

---------------------------------------------------------------------------
(* The checkpoint file. *)

\* A snapshot that validates saves exactly the exposed orders.
LEMMA RegistryExposed ==
  ASSUME IInv, Sound, SnapshotOK
  PROVE  Registry = Exposed
<1>1. Exposed \in SUBSET Orders /\ Registry \in SUBSET Exposed
  BY DEF IInv, TypeOK, BookTypes, FlowOK, Exposed, Registry
<1>2. IsFiniteSet(Exposed)
  BY <1>1, OrderCount
<1>3. Cardinality(Registry) = Cardinality(Exposed)
  BY DEF SnapshotOK, IInv, CountersOK
<1> QED
  BY <1>1, <1>2, <1>3, FS_Subset

\* What a file says that a validated snapshot has just written.
LEMMA SnapshotSaved ==
  ASSUME SnapshotOK, NEW operation, disk' = Checkpoint(operation)
  PROVE  /\ disk'.saved = TRUE /\ disk'.op = operation /\ disk'.kill = kill
         /\ disk'.orders = Registry
         /\ disk'.count = Cardinality(disk'.orders)
         /\ disk'.stake = Stake * disk'.count
         /\ \A a \in Assets :
              disk'.assets[a] = Cardinality({o \in disk'.orders : AssetOf[o] = a})
BY DEF Checkpoint, SnapshotOK

\* Whatever the file is rewritten by.
LEMMA DiskSteps ==
  ASSUME [Next]_vars
  PROVE  \/ UNCHANGED disk
         \/ \E operation \in OpNames : SnapshotOK /\ disk' = Checkpoint(operation)
         \/ Restore /\ ~NeedsReview
         \/ OperatorReview
<1>1. {"submit", "settle", "close", "kill", "clear-kill", "none"} = OpNames
  BY DEF OpNames
<1> QED
  BY <1>1 DEF Next, vars, Submission, Settling,
     Closing, Killing, Lifecycle, Outside, BeginSubmit, Begin, Veto, Authorize,
     Refuse, Send, SendBroken, Register, BeginPump, Collect, Book, BookDone,
     BeginClose, CloseGone, Sell, MarkUnpriced, Mark, PressKill, BeginKill,
     KillMoot, EngageKill, BeginClear, ReleaseKill, Commit, Connect, Restore,
     Arm, LoopExit, StopLoop, Shutdown, JoinEnds, JoinTimesOut, ShutdownCommit,
     FreeLease, Exit, FailedWrite, shutVars, Crash, VenueCloses, VenueResult,
     OperatorReview

\* Every rewriting of the file keeps its sums.
LEMMA DiskSumsStep == IInv /\ [Next]_vars => DiskSums'
<1> SUFFICES ASSUME IInv, [Next]_vars PROVE DiskSums'
  OBVIOUS
<1>1. CASE UNCHANGED disk
  BY <1>1 DEF IInv, DiskOK, DiskSums
<1>2. ASSUME NEW operation \in OpNames, SnapshotOK, disk' = Checkpoint(operation)
      PROVE  DiskSums'
  BY <1>2, SnapshotSaved DEF DiskSums
<1>3. CASE disk'.count = 0 /\ disk'.stake = 0 /\ disk'.orders = {}
           /\ \A a \in Assets : disk'.assets[a] = 0
  <2>1. \A a \in Assets : {o \in disk'.orders : AssetOf[o] = a} = {}
    BY <1>3
  <2> QED
    BY <1>3, <2>1, FS_EmptySet, StakeOfOneMore DEF DiskSums
<1>4. CASE Restore /\ ~NeedsReview
  <2>1. /\ disk \in Checkpoints /\ up = "booting"
    BY <1>4 DEF Restore, IInv, TypeOK, OutsideTypes
  <2>2. CASE UNCHANGED disk
    BY <1>1, <2>2
  <2>3. CASE disk' = Booted
    <3>1. /\ disk'.count = disk.count /\ disk'.stake = disk.stake
          /\ disk'.assets = disk.assets /\ disk'.orders = {}
      BY <2>1, <2>3 DEF Booted, Checkpoints
    <3> QED
      BY <1>3, <1>4, <2>1, <3>1, CleanCheckpoint
  <2> QED
    BY <1>4, <2>2, <2>3 DEF Restore
<1>5. CASE OperatorReview
  <2>1. disk' = [Blank EXCEPT !.saved = TRUE, !.kill = disk.kill]
    BY <1>5 DEF OperatorReview
  <2> QED
    BY <1>3, <2>1 DEF Blank, NoExposure
<1> QED
  BY <1>1, <1>2, <1>4, <1>5, DiskSteps

\* Nothing is booked before the first checkpoint is written.
LEMMA DiskBlankStep == IInv /\ [Next]_vars => DiskBlank'
<1> SUFFICES ASSUME IInv, [Next]_vars, ~disk'.saved PROVE DiskBlank'
  BY DEF DiskBlank
<1>1. UNCHANGED disk
  <2>1. ASSUME NEW operation \in OpNames, SnapshotOK, disk' = Checkpoint(operation)
        PROVE  FALSE
    BY <2>1, SnapshotSaved
  <2>2. CASE Restore /\ ~NeedsReview
    BY <2>2 DEF Restore, IInv, TypeOK, OutsideTypes, Booted,
       Checkpoints
  <2>3. CASE OperatorReview
    BY <2>3 DEF OperatorReview, Blank
  <2> QED
    BY <2>1, <2>2, <2>3, DiskSteps
<1>2. op = "none"
  BY <1>1 DEF IInv, DiskOK, DiskMarker, Writable
<1>3. ASSUME NEW s \in batch, Book(s) PROVE FALSE
  BY <1>2, <1>3 DEF Book, IInv, ControlOK
<1>4. UNCHANGED booked
  BY <1>3 DEF Next, vars, Submission, Settling,
     Closing, Killing, Lifecycle, Outside, BeginSubmit, Begin, Veto, Authorize,
     Refuse, Send, SendBroken, Register, BeginPump, Collect, Book, BookDone,
     BeginClose, CloseGone, Sell, MarkUnpriced, Mark, PressKill, BeginKill,
     KillMoot, EngageKill, BeginClear, ReleaseKill, Commit, Connect, Restore,
     Arm, LoopExit, StopLoop, Shutdown, JoinEnds, JoinTimesOut, ShutdownCommit,
     FreeLease, Exit, FailedWrite, shutVars, Crash, VenueCloses, VenueResult,
     OperatorReview,
     ProcessGone, bookVars
<1> QED
  BY <1>1, <1>4 DEF IInv, DiskOK, DiskBlank

\* Nothing but a boot makes the file writable again.
LEMMA WritableSince ==
  ASSUME IInv, [Next]_vars, ~Restore, Writable'
  PROVE  Writable
<1> SUFFICES ASSUME ~Writable PROVE FALSE
  OBVIOUS
<1>1. /\ op = "none" /\ step = "none"
      /\ up = "ready" => ~Ready /\ ~past
  BY DEF Writable, Ready, IInv, ControlOK
<1>2. up' = "ready" => up = "ready"
  BY <1>1 DEF Next, vars, Submission, Settling,
     Closing, Killing, Lifecycle, Outside, BeginSubmit, Begin, Veto, Authorize,
     Refuse, Send, SendBroken, Register, BeginPump, Collect, Book, BookDone,
     BeginClose, CloseGone, Sell, MarkUnpriced, Mark, PressKill, BeginKill,
     KillMoot, EngageKill, BeginClear, ReleaseKill, Commit, Connect,
     Arm, LoopExit, StopLoop, Shutdown, JoinEnds, JoinTimesOut, ShutdownCommit,
     FreeLease, Exit, Crash, VenueCloses, VenueResult, OperatorReview, ProcessGone, At, LockFree
<1>3. CASE JoinTimesOut \/ FreeLease
  <2>1. past' = FALSE
    BY <1>1, <1>3, PassingMeans DEF JoinTimesOut, FreeLease, IInv
  <2> QED
    BY <1>1, <1>3, <2>1
       DEF JoinTimesOut, FreeLease, Hold, Writable, Ready, txnVars, holdVars
<1>4. CASE ShutdownCommit
  BY <1>1, <1>4 DEF ShutdownCommit, Hold, Writable, Ready, txnVars, LockFree,
     IInv, ControlOK, holdVars
<1>5. CASE ProcessGone
  BY <1>5 DEF ProcessGone, Release, Writable
<1>6. CASE /\ UNCHANGED <<fault, op, past>>
           /\ stop' = "leaving" <=> stop = "leaving"
  BY <1>1, <1>2, <1>6 DEF Writable, Ready
<1> QED
  BY <1>1, <1>3, <1>4, <1>5, <1>6 DEF Next, vars, Submission, Settling,
     Closing, Killing, Lifecycle, Outside, BeginSubmit, Begin, Veto, Authorize,
     Refuse, Send, SendBroken, Register, BeginPump, Collect, Book, BookDone,
     BeginClose, CloseGone, Sell, MarkUnpriced, Mark, PressKill, BeginKill,
     KillMoot, EngageKill, BeginClear, ReleaseKill, Commit, Connect,
     Arm, LoopExit, StopLoop, Shutdown, JoinEnds, JoinTimesOut, ShutdownCommit,
     FreeLease, Exit, Crash, VenueCloses, VenueResult, OperatorReview,
     At, LockFree, holdVars, txnVars, shutVars, Writable

\* The marker follows the transaction.
LEMMA DiskMarkerStep == IInv /\ [Next]_vars => DiskMarker'
<1> SUFFICES ASSUME IInv, [Next]_vars, Writable' PROVE DiskMarker'
  BY DEF DiskMarker
<1>1. CASE Restore
  <2>1. /\ op' = op /\ op = "none" /\ ~past' /\ up = "booting" /\ disk \in Checkpoints
    BY <1>1 DEF Restore, IInv, TypeOK, ProcessTypes, OutsideTypes, ControlOK,
       txnVars, shutVars
  <2>2. ~NeedsReview /\ disk' = Booted
    BY <1>1, <2>1 DEF Restore, Writable, Ready
  <2>3. disk.op = "none"
    BY <2>1, <2>2, CleanCheckpoint
  <2> QED
    BY <2>1, <2>2, <2>3 DEF Booted, DiskMarker, Checkpoints
<1>2. CASE Writable /\ UNCHANGED <<disk, op>>
  BY <1>2 DEF IInv, DiskOK, DiskMarker
<1>3. ASSUME NEW operation, SnapshotOK, disk' = Checkpoint(operation), op' = operation
      PROVE  DiskMarker'
  BY <1>3, SnapshotSaved DEF DiskMarker
<1>4. CASE op' = "none" /\ fault' /\ ~past'
  BY <1>4 DEF Writable, Ready
<1>5. CASE SendBroken
  BY <1>4, <1>5 DEF SendBroken, Hold, Release, shutVars, At, IInv, ControlOK
<1>6. CASE Commit
  <2>1. CASE Ready
    BY <1>3, <1>4, <1>6, <2>1 DEF Commit, Release, Hold
  <2>2. CASE ~Ready
    <3>1. op' = "none" /\ ~past' /\ UNCHANGED <<fault, stop>>
      BY <1>6, <2>2 DEF Commit, Release, holdVars
    <3> QED
      BY <2>2, <3>1 DEF Writable, Ready
  <2> QED
    BY <2>1, <2>2
<1>7. CASE ShutdownCommit
  <2>1. op' = "none" /\ ~past' /\ op' = op
    BY <1>7 DEF ShutdownCommit, LockFree, txnVars, IInv, ControlOK
  <2> QED
    BY <1>3, <1>4, <1>7, <2>1 DEF ShutdownCommit, Hold
<1>8. ASSUME NEW operation, NEW first, NEW o, Begin(operation, first, o)
      PROVE  DiskMarker'
  <2>1. CASE Hold /\ UNCHANGED txnVars
    BY <1>4, <1>8, <2>1 DEF Begin, LockFree, Hold, txnVars
  <2> QED
    BY <1>3, <1>8, <2>1 DEF Begin
<1>9. CASE ProcessGone
  BY <1>9 DEF ProcessGone, Release, Writable
<1>10. ASSUME NEW S \in SUBSET positions, Collect(S) PROVE UNCHANGED <<disk, op>>
  BY <1>10 DEF Collect, Goto
<1>11. ASSUME NEW s \in batch, Book(s) PROVE UNCHANGED <<disk, op>>
  BY <1>11 DEF Book, txnVars
<1>12. CASE OperatorReview
  BY <1>12 DEF OperatorReview, Writable, IInv, ControlOK, txnVars
<1>14. CASE ~Restore
  <2>1. Writable
    BY <1>14, WritableSince
  <2> QED
    BY <1>2, <1>5, <1>6, <1>7, <1>8, <1>14, <1>9,
       <1>10, <1>11, <1>12, <2>1 DEF Next, vars, Submission, Settling,
     Closing, Killing, Lifecycle, Outside, BeginSubmit, Veto, Authorize,
     Refuse, Send, Register, BeginPump, BookDone,
     BeginClose, CloseGone, Sell, MarkUnpriced, Mark, PressKill, BeginKill,
     KillMoot, EngageKill, BeginClear, ReleaseKill, Connect, Restore,
     Arm, LoopExit, StopLoop, Shutdown, JoinEnds, JoinTimesOut,
     FreeLease, Exit, Crash, VenueCloses, VenueResult,
     txnVars, Goto, Release, Writable
<1> QED
  BY <1>1, <1>14

\* A contract that comes out is registered before its transaction ends.
LEMMA AllKnownStep == IInv /\ [Next]_vars => AllKnown'
<1> SUFFICES ASSUME IInv, [Next]_vars, Sound' PROVE AllKnown'
  BY DEF AllKnown
<1> USE DEF AllKnown
<1>1. CASE Restore
  <2>1. up = "booting" /\ ~NeedsReview /\ outstanding' = outstanding
    BY <1>1, RestoredSound DEF Restore
  <2> QED
    BY <2>1, CleanCheckpoint
<1>2. CASE Send
  <2>1. Sound /\ step = "route" /\ step' = "register" /\ cur' = cur
    BY <1>2 DEF Send, At, Goto, IInv, ControlOK, Sound
  <2>2. Exposed' = Exposed
    BY <1>2 DEF Send, bookVars, Exposed
  <2> QED
    BY <1>2, <2>1, <2>2 DEF Send, IInv, DiskOK
<1>3. CASE Register
  <2>1. Sound /\ step = "register" /\ step' = "commit" /\ cur \notin orders /\ booked[cur] = 0
    BY <1>3 DEF Register, At, Goto, IInv, ControlOK, FlowOK, Sound
  <2>2. Exposed' = Exposed \cup {cur}
    BY <1>3, <2>1 DEF Register, Exposed
  <2> QED
    BY <1>3, <2>1, <2>2 DEF Register, IInv, DiskOK
<1>4. ASSUME NEW s \in batch, Book(s) PROVE AllKnown'
  <2>1. Sound /\ step = "book" /\ UNCHANGED <<orders, step>>
    BY <1>4 DEF Book, txnVars, IInv, ControlOK, Sound
  <2>2. \A o \in Exposed : o \notin Exposed' => o = s.order
    BY <1>4, <2>1 DEF Book, Exposed, IInv, TypeOK, BookTypes
  <2> QED
    BY <1>4, <2>1, <2>2 DEF Book, IInv, DiskOK
<1>5. CASE ~Restore /\ ~Send /\ ~Register /\ ~ \E s \in batch : Book(s)
  <2>1. Sound /\ ~SendBroken
    BY <1>5, SoundSince, BrokenUnsound
  <2>2. UNCHANGED <<outstanding, orders, booked>>
    BY <1>5, <2>1 DEF Next, vars, Submission, Settling,
     Closing, Killing, Lifecycle, Outside, BeginSubmit, Begin, Veto, Authorize,
     Refuse, Send, SendBroken, Register, BeginPump, Collect, Book, BookDone,
     BeginClose, CloseGone, Sell, MarkUnpriced, Mark, PressKill, BeginKill,
     KillMoot, EngageKill, BeginClear, ReleaseKill, Commit, Connect, Restore,
     Arm, LoopExit, StopLoop, Shutdown, JoinEnds, JoinTimesOut, ShutdownCommit,
     FreeLease, Exit, FailedWrite, shutVars, Crash, VenueCloses, VenueResult,
     OperatorReview,
       ProcessGone, bookVars, Sound, Hold
  <2>3. Exposed' = Exposed
    BY <2>2 DEF Exposed
  <2>4. step = "register" => step' = "register" /\ cur' = cur
    BY <1>5, <2>1 DEF Next, vars, Submission, Settling,
     Closing, Killing, Lifecycle, Outside, BeginSubmit, Begin, Veto, Authorize,
     Refuse, Send, SendBroken, Register, BeginPump, Collect, Book, BookDone,
     BeginClose, CloseGone, Sell, MarkUnpriced, Mark, PressKill, BeginKill,
     KillMoot, EngageKill, BeginClear, ReleaseKill, Commit, Connect, Restore,
     Arm, LoopExit, StopLoop, Shutdown, JoinEnds, JoinTimesOut, ShutdownCommit,
     FreeLease, Exit, FailedWrite, shutVars, Crash, VenueCloses, VenueResult,
     OperatorReview,
       ProcessGone, Sound, At, LockFree, txnVars, IInv, ControlOK
  <2> QED
    BY <2>1, <2>2, <2>3, <2>4 DEF IInv, DiskOK
<1> QED
  BY <1>1, <1>2, <1>3, <1>4, <1>5

---------------------------------------------------------------------------
(* The properties themselves. *)

\* Every step on sound books conserves cash.
LEMMA BalancedStep == IInv /\ [Next]_vars => Balanced'
<1> SUFFICES ASSUME IInv, [Next]_vars, Sound' PROVE Balanced'
  BY DEF Balanced
<1> DEFINE Free == Stake * Cardinality(AdoptedOpen)
<1>1. AdoptedOpen \in SUBSET Orders
  BY DEF IInv, TypeOK, BookTypes, AdoptedOpen
<1>2. Cardinality(AdoptedOpen) \in Nat /\ Free \in Nat
  BY <1>1, OrderCount, ProductType, MoneyAssumption
<1>3. /\ cash \in Nat /\ stakeSum \in Nat /\ InFlight \in Nat /\ worth \in Int
  BY MoneyAssumption DEF IInv, TypeOK, MoneyTypes, InFlight
<1>4. ASSUME NEW d \in Int, Sound, UNCHANGED <<stakeSum, adopted, booked, worth>>,
             cash' = cash - d, InFlight' = InFlight + d
      PROVE  Balanced'
  <2>1. AdoptedOpen' = AdoptedOpen
    BY <1>4 DEF AdoptedOpen
  <2>2. cash + stakeSum + InFlight + Free = worth
    BY <1>4 DEF IInv, Balanced
  <2>3. cash' + stakeSum + InFlight' + Free = worth
    <3> HIDE DEF Free
    <3> QED
      BY <1>2, <1>3, <1>4, <2>2
  <2> QED
    BY <1>4, <2>1, <2>3 DEF Balanced
<1>5. CASE Authorize \/ Refuse
  <2>1. Sound /\ UNCHANGED <<stakeSum, adopted, booked, worth>>
    BY <1>5 DEF Authorize, Refuse, At, IInv, ControlOK, Sound, exposureVars,
       bookVars
  <2>2. CASE Authorize
    <3>1. cash' = cash - Stake /\ InFlight' = InFlight + Stake
      BY <2>2, MoneyAssumption DEF Authorize, At, Goto, InFlight
    <3> QED
      BY <1>4, <2>1, <3>1, MoneyAssumption
  <2>3. CASE Refuse
    <3>1. cash' = cash - (-Stake) /\ InFlight' = InFlight + (-Stake)
      BY <1>3, <2>3, MoneyAssumption DEF Refuse, At, Goto, InFlight
    <3> QED
      BY <1>4, <2>1, <3>1, MoneyAssumption
  <2> QED
    BY <1>5, <2>2, <2>3
<1>6. CASE Register
  <2>1. /\ Sound /\ InFlight = Stake /\ InFlight' = 0 /\ stakeSum' = stakeSum + Stake
        /\ UNCHANGED <<cash, adopted, booked, worth>>
    BY <1>6 DEF Register, At, Goto, InFlight, IInv, ControlOK, Sound
  <2>2. AdoptedOpen' = AdoptedOpen
    BY <2>1 DEF AdoptedOpen
  <2>3. cash + stakeSum + InFlight + Free = worth
    BY <2>1 DEF IInv, Balanced
  <2>4. cash' + stakeSum' + InFlight' + Free = worth'
    <3> HIDE DEF Free
    <3> QED
      BY <1>2, <1>3, <2>1, <2>3, MoneyAssumption
  <2> QED
    BY <2>2, <2>4 DEF Balanced
<1>7. ASSUME NEW s \in batch, Book(s) PROVE Balanced'
  <2>1. /\ Sound /\ step = "book" /\ step' = step
        /\ s.order \in Orders /\ booked[s.order] = 0
        /\ booked' = [booked EXCEPT ![s.order] = @ + 1] /\ UNCHANGED <<orders, adopted>>
        /\ cash' = cash + Returned(s.outcome) /\ worth' = worth + Pnl(s.outcome)
    BY <1>7 DEF Book, txnVars, IInv, ControlOK, FlowOK, Sound, TypeOK,
       BookTypes, Settlements
  <2>2. InFlight = 0 /\ InFlight' = 0
    BY <2>1 DEF InFlight
  <2>3. Returned(s.outcome) \in Nat /\ Pnl(s.outcome) = Returned(s.outcome) - Stake
    BY MoneyAssumption
       DEF IInv, TypeOK, BookTypes, Settlements, Outcomes, Returned, Pnl
  <2>4. cash + stakeSum + InFlight + Free = worth
    BY <2>1 DEF IInv, Balanced
  <2>5. CASE s.order \in orders
    <3>1. AdoptedOpen' = AdoptedOpen
      BY <2>1, <2>5 DEF AdoptedOpen, IInv, FlowOK, TypeOK, BookTypes
    <3>2. stakeSum' = AtLeastZero(stakeSum - Stake)
      BY <1>7, <2>5 DEF Book
    <3>3. stakeSum >= Stake
      <4>1. Exposed \in SUBSET Orders /\ s.order \in Exposed
        BY <2>1, <2>5 DEF Exposed, IInv, TypeOK, BookTypes
      <4>2. Cardinality(Exposed) \in Nat \ {0}
        BY <4>1, CountRemove
      <4> QED
        BY <2>1, <4>2, StakeOfOneMore DEF IInv, CountersOK
    <3>4. stakeSum' = stakeSum - Stake
      BY <1>3, <3>2, <3>3, MoneyAssumption DEF AtLeastZero
    <3>5. cash' + stakeSum' + InFlight' + Free = worth'
      <4> HIDE DEF Free
      <4> QED
        BY <1>2, <1>3, <2>1, <2>2, <2>3, <2>4, <3>4, MoneyAssumption
    <3> QED
      BY <3>1, <3>5 DEF Balanced
  <2>6. CASE s.order \notin orders
    <3>1. s.order \in AdoptedOpen /\ AdoptedOpen' = AdoptedOpen \ {s.order}
      BY <1>7, <2>1, <2>6 DEF AdoptedOpen, IInv, FlowOK, TypeOK, BookTypes
    <3>2. stakeSum' = stakeSum
      BY <1>7, <2>6 DEF Book, exposureVars
    <3>3. /\ Cardinality(AdoptedOpen') = Cardinality(AdoptedOpen) - 1
          /\ Cardinality(AdoptedOpen) \in Nat \ {0}
      BY <1>1, <3>1, CountRemove
    <3>4. Stake * Cardinality(AdoptedOpen') = Free - Stake
      BY <3>3, StakeOfOneMore
    <3>5. cash' + stakeSum' + InFlight' + (Free - Stake) = worth'
      <4> HIDE DEF Free
      <4> QED
        BY <1>2, <1>3, <2>1, <2>2, <2>3, <2>4, <3>2, MoneyAssumption
    <3> QED
      BY <3>4, <3>5 DEF Balanced
  <2> QED
    BY <2>5, <2>6
<1>8. CASE Restore
  <2>1. ~NeedsReview /\ up = "booting"
    BY <1>8, RestoredSound
  <2>2. stakeSum' = 0 /\ UNCHANGED <<cash, adopted, booked, worth>> /\ step' = "none"
    BY <1>8, <2>1, CleanCheckpoint DEF Restore, txnVars, bookVars, IInv, ControlOK
  <2>3. AdoptedOpen' = AdoptedOpen /\ InFlight' = 0
    BY <2>2 DEF AdoptedOpen, InFlight
  <2>4. worth = cash + Free
    BY <2>1 DEF IInv, BootOK
  <2>5. cash' + stakeSum' + InFlight' + Free = worth'
    <3> HIDE DEF Free
    <3> QED
      BY <1>2, <1>3, <2>2, <2>3, <2>4
  <2> QED
    BY <2>3, <2>5 DEF Balanced
<1>9. CASE /\ ~Restore /\ ~Authorize /\ ~Refuse /\ ~Register
           /\ ~ \E s \in batch : Book(s)
  <2>1. Sound /\ ~SendBroken
    BY <1>9, SoundSince, BrokenUnsound
  <2>2. UNCHANGED <<cash, stakeSum, adopted, booked, worth>>
    BY <1>9, <2>1 DEF Next, vars, Submission, Settling,
     Closing, Killing, Lifecycle, Outside, BeginSubmit, Begin, Veto, Authorize,
     Refuse, Send, SendBroken, Register, BeginPump, Collect, Book, BookDone,
     BeginClose, CloseGone, Sell, MarkUnpriced, Mark, PressKill, BeginKill,
     KillMoot, EngageKill, BeginClear, ReleaseKill, Commit, Connect, Restore,
     Arm, LoopExit, StopLoop, Shutdown, JoinEnds, JoinTimesOut, ShutdownCommit,
     FreeLease, Exit, FailedWrite, shutVars, Crash, VenueCloses, VenueResult,
     OperatorReview,
       ProcessGone, Sound, bookVars, exposureVars
  <2>3. InFlight' = InFlight
    BY <1>9, <2>1 DEF Next, vars, Submission, Settling,
     Closing, Killing, Lifecycle, Outside, BeginSubmit, Begin, Veto, Authorize,
     Refuse, Send, SendBroken, Register, BeginPump, Collect, Book, BookDone,
     BeginClose, CloseGone, Sell, MarkUnpriced, Mark, PressKill, BeginKill,
     KillMoot, EngageKill, BeginClear, ReleaseKill, Commit, Connect, Restore,
     Arm, LoopExit, StopLoop, Shutdown, JoinEnds, JoinTimesOut, ShutdownCommit,
     FreeLease, Exit, FailedWrite, shutVars, Crash, VenueCloses, VenueResult,
     OperatorReview,
       ProcessGone, Sound, At, Goto, Release, Hold, txnVars, InFlight, IInv,
       ControlOK, LockFree
  <2>4. cash' = cash - 0 /\ InFlight' = InFlight + 0
    BY <1>3, <2>2, <2>3
  <2> QED
    BY <1>4, <2>1, <2>2, <2>4
<1> QED
  BY <1>5, <1>6, <1>7, <1>8, <1>9

\* A settlement is booked only of a contract not booked before.
LEMMA SettledOnceStep == IInv /\ [Next]_vars => SettledOnce'
<1> SUFFICES ASSUME IInv, [Next]_vars PROVE SettledOnce'
  OBVIOUS
<1>1. ASSUME NEW s \in batch, Book(s) PROVE SettledOnce'
  <2>1. booked[s.order] = 0 /\ booked' = [booked EXCEPT ![s.order] = @ + 1]
    BY <1>1 DEF Book, IInv, FlowOK
  <2> QED
    BY <2>1 DEF SettledOnce, IInv, TypeOK, BookTypes
<1>2. CASE UNCHANGED booked
  BY <1>2 DEF SettledOnce, IInv
<1> QED
  BY <1>1, <1>2 DEF Next, vars, Submission, Settling,
     Closing, Killing, Lifecycle, Outside, BeginSubmit, Begin, Veto, Authorize,
     Refuse, Send, SendBroken, Register, BeginPump, Collect, Book, BookDone,
     BeginClose, CloseGone, Sell, MarkUnpriced, Mark, PressKill, BeginKill,
     KillMoot, EngageKill, BeginClear, ReleaseKill, Commit, Connect, Restore,
     Arm, LoopExit, StopLoop, Shutdown, JoinEnds, JoinTimesOut, ShutdownCommit,
     FreeLease, Exit, FailedWrite, shutVars, Crash, VenueCloses, VenueResult,
     OperatorReview,
     ProcessGone, bookVars

\* The marker covers a contract until the registry on file names it.
LEMMA CrashSafeStep == IInv /\ [Next]_vars => CrashSafe'
<1> SUFFICES ASSUME IInv, [Next]_vars PROVE CrashSafe'
  OBVIOUS
<1>1. CASE UNCHANGED disk /\ outstanding' \subseteq outstanding
  BY <1>1 DEF CrashSafe, IInv
<1>2. CASE Send \/ SendBroken
  <2>1. disk' = disk /\ disk.op = "submit"
    BY <1>2 DEF Send, SendBroken, At, IInv, DiskOK, DiskMarker, Writable
  <2> QED
    BY <2>1 DEF CrashSafe
<1>3. ASSUME NEW operation \in OpNames \ {"none"}, SnapshotOK, disk' = Checkpoint(operation)
      PROVE  CrashSafe'
  BY <1>3, SnapshotSaved DEF CrashSafe
<1>4. CASE /\ Sound /\ step # "register" /\ UNCHANGED outstanding
           /\ SnapshotOK /\ disk' = Checkpoint("none")
  <2>1. Registry = Exposed
    BY <1>4, RegistryExposed
  <2>2. disk'.orders = Exposed
    BY <1>4, <2>1, SnapshotSaved
  <2>3. outstanding \subseteq Exposed
    BY <1>4 DEF IInv, DiskOK, AllKnown
  <2> QED
    BY <1>4, <2>2, <2>3 DEF CrashSafe
<1>5. CASE Commit
  <2>1. Sound /\ step # "register" /\ UNCHANGED outstanding
    BY <1>5 DEF Commit, IInv, ControlOK, Sound
  <2> QED
    BY <1>1, <1>4, <1>5, <2>1 DEF Commit, FailedWrite
<1>6. CASE ShutdownCommit
  <2>1. up = "ready" /\ step # "register" /\ UNCHANGED outstanding
    BY <1>6 DEF ShutdownCommit, LockFree, IInv, ControlOK
  <2>2. SnapshotOK => Sound
    BY <1>6, <2>1 DEF ShutdownCommit, SnapshotOK, Sound
  <2> QED
    BY <1>1, <1>4, <1>6, <2>1, <2>2 DEF ShutdownCommit, FailedWrite
<1>7. CASE Restore
  <2>1. outstanding' = outstanding /\ up = "booting"
    BY <1>7 DEF Restore
  <2>2. CASE ~NeedsReview
    BY <2>1, <2>2, CleanCheckpoint DEF CrashSafe
  <2> QED
    BY <1>1, <1>7, <2>1, <2>2 DEF Restore
<1>8. CASE OperatorReview
  BY <1>8 DEF OperatorReview, CrashSafe
<1>9. {"submit", "settle", "close", "kill", "clear-kill"} = OpNames \ {"none"}
  BY DEF OpNames
<1> QED
  BY <1>1, <1>2, <1>3, <1>5, <1>6, <1>7, <1>8, <1>9 DEF Next, vars, Submission,
     Settling, Closing, Killing, Lifecycle, Outside, BeginSubmit, Begin, Veto,
     Authorize, Refuse, Register, BeginPump, Collect, Book, BookDone, BeginClose,
     CloseGone, Sell, MarkUnpriced, Mark, PressKill, BeginKill, KillMoot,
     EngageKill, BeginClear, ReleaseKill, Connect, Arm, LoopExit, StopLoop,
     Shutdown, JoinEnds, JoinTimesOut, FreeLease, Exit, FailedWrite,
     Crash, ProcessGone, VenueCloses, VenueResult

\* The latch in memory follows the latch on file.
LEMMA KillLatchedStep == IInv /\ [Next]_vars => KillLatched'
<1> SUFFICES ASSUME IInv, [Next]_vars, disk'.kill,
                    Writable' \/ stop' = "committing"
             PROVE  kill' \/ op' = "clear-kill"
  BY DEF KillLatched
<1>1. CASE Restore
  <2>1. disk \in Checkpoints
    BY DEF IInv, TypeOK, OutsideTypes
  <2>2. disk' = Booted => disk'.kill = SavedKill
    BY <2>1 DEF Booted, Checkpoints
  <2>3. kill' = TRUE \/ kill' = disk'.kill
    BY <1>1, <2>2 DEF Restore
  <2> QED
    BY <2>3
<1>2. CASE SnapshotOK /\ (\E operation : disk' = Checkpoint(operation)) /\ UNCHANGED kill
  BY <1>2, SnapshotSaved
<1>3. CASE (Writable \/ stop = "committing") /\ UNCHANGED <<disk, kill, op>>
  BY <1>3 DEF IInv, KillLatched
<1>4. CASE kill'
  BY <1>4
<1>5. CASE ReleaseKill
  BY <1>5 DEF ReleaseKill, At, Goto
<1>6. CASE Commit
  <2>1. Ready
    <3>1. up' = "ready" /\ op' = "none" /\ ~past' /\ op # "none" /\ stop' = stop
      BY <1>6 DEF Commit, Release, IInv, ControlOK, LockFree
    <3>2. fault => stop = "abandoned"
      BY <3>1 DEF IInv, ControlOK
    <3> SUFFICES ASSUME ~Ready PROVE FALSE
      OBVIOUS
    <3>3. fault' = fault
      BY <1>6 DEF Commit, holdVars
    <3> QED
      BY <3>1, <3>2, <3>3 DEF Writable, Ready
  <2> QED
    BY <1>2, <1>4, <1>6, <2>1 DEF Commit, Hold, holdVars
<1>7. CASE ~Restore
  <2>1. Writable' => Writable
    BY <1>7, WritableSince
  <2>2. stop' = "committing" /\ stop # "committing" => Writable
    <3> SUFFICES ASSUME stop' = "committing", stop # "committing" PROVE Writable
      OBVIOUS
    <3>1. JoinEnds
      BY DEF Next, vars, Submission,
       Settling, Closing, Killing, Lifecycle, Outside, BeginSubmit, Begin, Veto,
       Authorize, Refuse, Send, SendBroken, Register, BeginPump, Collect, Book,
       BookDone, BeginClose, CloseGone, Sell, MarkUnpriced, Mark, PressKill,
       BeginKill, KillMoot, EngageKill, BeginClear, ReleaseKill, Commit, Connect,
       Restore, Arm,
       LoopExit, StopLoop, Shutdown, JoinTimesOut, ShutdownCommit,
       FreeLease, Exit, shutVars, Crash, ProcessGone, VenueCloses,
       VenueResult, OperatorReview
    <3> QED
      BY <3>1 DEF JoinEnds, Writable, Ready
  <2>3. Writable \/ stop = "committing"
    BY <2>1, <2>2
  <2> QED
    BY <1>2, <1>3, <1>4, <1>5, <1>6, <1>7, <2>3 DEF Next, vars, Submission,
       Settling, Closing, Killing, Lifecycle, Outside, BeginSubmit, Begin, Veto,
       Authorize, Refuse, Send, SendBroken, Register, BeginPump, Collect, Book,
       BookDone, BeginClose, CloseGone, Sell, MarkUnpriced, Mark, PressKill,
       BeginKill, KillMoot, EngageKill, BeginClear, Connect, Arm,
       LoopExit, StopLoop, Shutdown, JoinEnds, JoinTimesOut, ShutdownCommit,
       FreeLease, Exit, Crash, ProcessGone, Release, VenueCloses,
       VenueResult, OperatorReview, Hold, holdVars, txnVars, Goto, Writable,
       IInv, ControlOK
<1> QED
  BY <1>1, <1>7

\* The governor's checks hold until the order is registered.
LEMMA CapStep == IInv /\ [Next]_vars => CapOK'
<1> SUFFICES ASSUME IInv, [Next]_vars, Sound' PROVE CapOK'
  BY DEF CapOK
<1> USE CapAssumption
<1>1. openCount \in Nat
  BY DEF IInv, TypeOK, MoneyTypes
<1>2. CASE Authorize
  <2>1. cur \in Orders /\ cur' = cur /\ openAssets[AssetOf[cur]] < 1 /\ openCount < MaxConcurrent
    BY <1>2 DEF Authorize, At, Goto, AssetFree, SlotFree, IInv, ControlOK
  <2>2. openAssets[AssetOf[cur]] = 0
    BY <2>1, AssetsAssumption DEF IInv, TypeOK, MoneyTypes
  <2> QED
    BY <1>1, <1>2, <2>1, <2>2 DEF Authorize, exposureVars, CapOK
<1>3. CASE Register
  <2>1. openCount < MaxConcurrent /\ openCount' = openCount + 1 /\ step' = "commit"
    BY <1>3 DEF Register, At, Goto, IInv, CapOK, ControlOK, Sound
  <2> QED
    BY <1>1, <2>1 DEF CapOK
<1>4. ASSUME NEW s \in batch, Book(s) PROVE CapOK'
  <2>1. Sound /\ step' = "book"
    BY <1>4 DEF Book, txnVars, IInv, ControlOK, Sound
  <2>2. openCount' \in Nat /\ openCount' <= openCount
    BY <1>1, <1>4 DEF Book, exposureVars, AtLeastZero
  <2>3. openCount <= MaxConcurrent
    BY <2>1 DEF IInv, CapOK
  <2> QED
    BY <1>1, <2>1, <2>2, <2>3 DEF CapOK
<1>5. CASE Restore
  <2>1. openCount' = 0 /\ step' = "none"
    BY <1>5, RestoredSound, CleanCheckpoint DEF Restore, txnVars, IInv, ControlOK
  <2> QED
    BY <2>1 DEF CapOK
<1>6. CASE ~Restore /\ ~Authorize /\ ~Register /\ ~ \E s \in batch : Book(s)
  <2>1. Sound
    BY <1>6, SoundSince
  <2>2. UNCHANGED exposureVars
    BY <1>6, <2>1 DEF Next, vars, Submission, Settling,
     Closing, Killing, Lifecycle, Outside, BeginSubmit, Begin, Veto, Authorize,
     Refuse, Send, SendBroken, Register, BeginPump, Collect, Book, BookDone,
     BeginClose, CloseGone, Sell, MarkUnpriced, Mark, PressKill, BeginKill,
     KillMoot, EngageKill, BeginClear, ReleaseKill, Commit, Connect, Restore,
     Arm, LoopExit, StopLoop, Shutdown, JoinEnds, JoinTimesOut, ShutdownCommit,
     FreeLease, Exit, FailedWrite, shutVars, Crash, VenueCloses, VenueResult,
     OperatorReview,
       ProcessGone, Sound
  <2>3. /\ step' \in {"route", "register"} => step \in {"route", "register"}
        /\ step' = "route" => step = "route" /\ cur' = cur
    BY <1>6, <2>1 DEF Next, vars, Submission, Settling,
     Closing, Killing, Lifecycle, Outside, BeginSubmit, Begin, Veto, Authorize,
     Refuse, Send, SendBroken, Register, BeginPump, Collect, Book, BookDone,
     BeginClose, CloseGone, Sell, MarkUnpriced, Mark, PressKill, BeginKill,
     KillMoot, EngageKill, BeginClear, ReleaseKill, Commit, Connect, Restore,
     Arm, LoopExit, StopLoop, Shutdown, JoinEnds, JoinTimesOut, ShutdownCommit,
     FreeLease, Exit, FailedWrite, shutVars, Crash, VenueCloses, VenueResult,
     OperatorReview,
       ProcessGone, Sound, At, Goto, Release, Hold, txnVars
  <2> QED
    BY <2>1, <2>2, <2>3 DEF IInv, CapOK, exposureVars
<1> QED
  BY <1>2, <1>3, <1>4, <1>5, <1>6

\* Contracts come out only through Send, of an order the governor let through.
LEMMA OutSteps ==
  ASSUME IInv, [Next]_vars
  PROVE  \/ outstanding' \subseteq outstanding
         \/ /\ outstanding' = outstanding \cup {cur}
            /\ cur \in Orders /\ outstanding \subseteq Exposed
            /\ openCount < MaxConcurrent /\ openAssets[AssetOf[cur]] = 0
            /\ openCount = Cardinality(Exposed)
            /\ \A a \in Assets :
                 openAssets[a] = Cardinality({o \in Exposed : AssetOf[o] = a})
            /\ (~kill /\ ~fault) \/ stop = "abandoned"
<1>1. CASE Send \/ SendBroken
  <2>1. Sound /\ op = "submit" /\ step = "route"
    BY <1>1 DEF Send, SendBroken, At, IInv, ControlOK, Sound
  <2>2. cur \in Orders /\ ((~kill /\ ~fault) \/ stop = "abandoned")
    BY <2>1 DEF IInv, ControlOK
  <2>3. outstanding \subseteq Exposed
    BY <2>1 DEF IInv, DiskOK, AllKnown
  <2>4. openCount < MaxConcurrent /\ openAssets[AssetOf[cur]] = 0
    BY <2>1 DEF IInv, CapOK
  <2>5. /\ openCount = Cardinality(Exposed)
        /\ \A a \in Assets :
             openAssets[a] = Cardinality({o \in Exposed : AssetOf[o] = a})
    BY <2>1 DEF IInv, CountersOK
  <2>6. outstanding' = outstanding \cup {cur} \/ outstanding' = outstanding
    BY <1>1 DEF Send, SendBroken
  <2> QED
    BY <2>2, <2>3, <2>4, <2>5, <2>6
<1> QED
  BY <1>1 DEF Next, vars, Submission, Settling,
     Closing, Killing, Lifecycle, Outside, BeginSubmit, Begin, Veto, Authorize,
     Refuse, Send, SendBroken, Register, BeginPump, Collect, Book, BookDone,
     BeginClose, CloseGone, Sell, MarkUnpriced, Mark, PressKill, BeginKill,
     KillMoot, EngageKill, BeginClear, ReleaseKill, Commit, Connect, Restore,
     Arm, LoopExit, StopLoop, Shutdown, JoinEnds, JoinTimesOut, ShutdownCommit,
     FreeLease, Exit, FailedWrite, shutVars, Crash, VenueCloses, VenueResult,
     OperatorReview,
     ProcessGone

\* One contract more stays within the concurrency cap.
LEMMA ExposureCappedStep == IInv /\ [Next]_vars => ExposureCapped'
<1> SUFFICES ASSUME IInv, [Next]_vars PROVE ExposureCapped'
  OBVIOUS
<1>1. /\ outstanding \in SUBSET Orders /\ Exposed \in SUBSET Orders
      /\ Cardinality(outstanding) <= MaxConcurrent
  BY DEF IInv, TypeOK, OutsideTypes, BookTypes, ExposureCapped, Exposed
<1>2. IsFiniteSet(outstanding) /\ Cardinality(outstanding) \in Nat
      /\ IsFiniteSet(Exposed) /\ Cardinality(Exposed) \in Nat
  BY <1>1, OrderCount
<1>3. CASE outstanding' \subseteq outstanding
  <2>1. Cardinality(outstanding') <= Cardinality(outstanding)
        /\ Cardinality(outstanding') \in Nat
    BY <1>2, <1>3, FS_Subset, FS_CardinalityType
  <2> QED
    BY <1>1, <1>2, <2>1, CapAssumption DEF ExposureCapped
<1>4. CASE /\ outstanding' = outstanding \cup {cur} /\ outstanding \subseteq Exposed
           /\ openCount < MaxConcurrent /\ openCount = Cardinality(Exposed)
  <2>1. Cardinality(outstanding) <= Cardinality(Exposed)
    BY <1>2, <1>4, FS_Subset
  <2>2. Cardinality(outstanding') <= Cardinality(outstanding) + 1
        /\ Cardinality(outstanding') \in Nat
    BY <1>2, <1>4, FS_AddElement
  <2> QED
    BY <1>2, <1>4, <2>1, <2>2, CapAssumption DEF ExposureCapped
<1> QED
  BY <1>3, <1>4, OutSteps

\* One contract more is on an asset of its own.
LEMMA OnePerAssetStep == IInv /\ [Next]_vars => OnePerAsset'
<1> SUFFICES ASSUME IInv, [Next]_vars PROVE OnePerAsset'
  OBVIOUS
<1>1. CASE outstanding' \subseteq outstanding
  BY <1>1 DEF IInv, OnePerAsset
<1>2. CASE /\ outstanding' = outstanding \cup {cur} /\ cur \in Orders
           /\ outstanding \subseteq Exposed /\ openAssets[AssetOf[cur]] = 0
           /\ \A a \in Assets :
                openAssets[a] = Cardinality({o \in Exposed : AssetOf[o] = a})
  <2> DEFINE On == {o \in Exposed : AssetOf[o] = AssetOf[cur]}
  <2>1. On \in SUBSET Orders /\ Cardinality(On) = 0
    BY <1>2, AssetsAssumption DEF IInv, TypeOK, BookTypes, Exposed
  <2>2. On = {}
    <3> HIDE DEF On
    <3> QED
      BY <2>1, OrderCount, FS_EmptySet
  <2>3. \A o \in outstanding : AssetOf[o] # AssetOf[cur]
    BY <1>2, <2>2
  <2> QED
    BY <1>2, <2>3 DEF IInv, OnePerAsset
<1> QED
  BY <1>1, <1>2, OutSteps

---------------------------------------------------------------------------
(* The theorems. *)

\* A first boot.
LEMMA InitIInv == Init => IInv
<1> SUFFICES ASSUME Init PROVE IInv
  OBVIOUS
<1> USE DEF Init
<1>1. TypeOK
  <2>1. ProcessTypes /\ TxnTypes /\ BookTypes
    BY DEF ProcessTypes, TxnTypes, BookTypes, OpNames, StepNames
  <2>2. MoneyTypes
    BY DEF MoneyTypes, NoExposure
  <2>3. OutsideTypes
    <3>1. venue \in [Orders -> {"none", "open", "closed"}]
      OBVIOUS
    <3>2. ends \in 0 .. MaxEnds
      BY CapAssumption
    <3>3. disk \in Checkpoints
      BY BlankType
    <3> QED
      BY <3>1, <3>2, <3>3 DEF OutsideTypes
  <2> QED
    BY <2>1, <2>2, <2>3 DEF TypeOK
<1>2. ControlOK /\ BootOK /\ CountersOK /\ Balanced /\ CapOK /\ KillLatched
  BY DEF ControlOK, BootOK, CountersOK, Balanced, CapOK, KillLatched, Sound, Blank,
     Writable
<1>3. FlowOK
  BY DEF FlowOK, Sound
<1>4. DiskOK
  <2>1. \A a \in Assets : {o \in Blank.orders : AssetOf[o] = a} = {}
    BY DEF Blank
  <2>2. Blank.count = 0 /\ Blank.stake = 0 /\ Blank.orders = {}
        /\ \A a \in Assets : Blank.assets[a] = 0
    BY DEF Blank, NoExposure
  <2>3. DiskSums
    BY <2>1, <2>2, FS_EmptySet, StakeOfOneMore DEF DiskSums
  <2>4. DiskBlank
    BY DEF DiskBlank, Blank
  <2> QED
    BY <2>3, <2>4 DEF DiskOK, DiskMarker, AllKnown, Sound, Writable
<1>5. SettledOnce /\ CrashSafe /\ OnePerAsset
  BY DEF SettledOnce, CrashSafe, OnePerAsset
<1>6. ExposureCapped
  BY FS_EmptySet, CapAssumption DEF ExposureCapped
<1> QED
  BY <1>1, <1>2, <1>3, <1>4, <1>5, <1>6 DEF IInv

\* All parts together.
LEMMA StepIInv == IInv /\ [Next]_vars => IInv'
<1> SUFFICES ASSUME IInv, [Next]_vars PROVE IInv'
  OBVIOUS
<1>1. TypeOK' /\ ControlOK' /\ BootOK'
  BY TypesKept, ControlStep, BootStep DEF IInv
<1>2. FlowOK' /\ CountersOK' /\ CapOK'
  BY FlowStep, CountersStep, CapStep
<1>3. DiskOK'
  BY DiskSumsStep, DiskBlankStep, DiskMarkerStep, AllKnownStep DEF DiskOK
<1>4. Balanced' /\ SettledOnce' /\ CrashSafe' /\ KillLatched'
  BY <1>1, BalancedStep, SettledOnceStep, CrashSafeStep, KillLatchedStep
<1>5. ExposureCapped' /\ OnePerAsset'
  BY ExposureCappedStep, OnePerAssetStep
<1> QED
  BY <1>1, <1>2, <1>3, <1>4, <1>5 DEF IInv

\* IInv holds in every reachable state of every instance.
THEOREM Invariance == Spec => []IInv
BY InitIInv, StepIInv, PTL DEF Spec

\* Cash, exposure counters and checkpoints keep their types; in particular
\* cash never goes negative, so every checkpoint can be decoded again.
THEOREM TypeCorrect == Spec => []TypeOK
<1>1. IInv => TypeOK
  BY DEF IInv
<1> QED
  BY <1>1, Invariance, PTL

\* Cash, stakes at risk and adopted stakes always add up to the boot balance
\* plus the booked profit and loss, whatever interleaves with the OMS.
THEOREM MoneyConserved == Spec => []BooksBalance
<1>1. IInv => BooksBalance
  BY DEF IInv, Balanced, BooksBalance, Sound, Healthy
<1> QED
  BY <1>1, Invariance, PTL

\* No contract is booked twice.
THEOREM NeverBookedTwice == Spec => []SettledOnce
<1>1. IInv => SettledOnce
  BY DEF IInv
<1> QED
  BY <1>1, Invariance, PTL

\* At every instant a crash leaves a file that names every unresolved
\* contract, or marks the operation that was under way.
THEOREM CrashEvidence == Spec => []CrashSafe
<1>1. IInv => CrashSafe
  BY DEF IInv
<1> QED
  BY <1>1, Invariance, PTL

\* A process out of hold knows every unresolved contract.
THEOREM NoUnknownContracts == Spec => []NoStrangers
<1>1. IInv => NoStrangers
  BY DEF IInv, DiskOK, AllKnown, NoStrangers, Exposed, Sound, Healthy
<1> QED
  BY <1>1, Invariance, PTL

\* A snapshot taken between transactions validates, unless a venue result
\* took a position from under the OMS.
THEOREM SnapshotsAgree == Spec => []AgreeAtRest
<1>1. IInv => AgreeAtRest
  <2> SUFFICES ASSUME IInv, Healthy, op = "none" \/ step = "commit", Exposed \subseteq positions
               PROVE  SnapshotOK
    BY DEF AgreeAtRest
  <2>0. Sound
    BY DEF Sound, Healthy
  <2>1. Registry = Exposed
    BY <2>0 DEF Registry, Exposed, IInv, FlowOK, TypeOK, BookTypes
  <2>2. step = "none" \/ step = "commit"
    BY DEF IInv, ControlOK
  <2>3. InFlight = 0 /\ cash \in Nat
    BY <2>2 DEF InFlight, IInv, TypeOK, MoneyTypes
  <2>4. riskCash = cash + 0
    BY <2>0, <2>3 DEF IInv, CountersOK
  <2>5. riskCash = cash
    BY <2>3, <2>4, PlusZero
  <2> QED
    BY <2>0, <2>1, <2>5 DEF IInv, CountersOK, SnapshotOK
<1> QED
  BY <1>1, Invariance, PTL

\* The file loses its kill only to clear_kill's commit.
LEMMA KillStep == IInv /\ [Next]_vars => [KillKept]_vars
<1> SUFFICES ASSUME IInv, [Next]_vars, disk.kill, ~disk'.kill
             PROVE  op = "clear-kill"
  BY DEF KillKept
<1>1. Writable \/ stop = "committing" => kill \/ op = "clear-kill"
  BY DEF IInv, KillLatched
<1>2. CASE UNCHANGED disk
  BY <1>2
<1>3. CASE (Writable \/ stop = "committing")
           /\ \E operation : disk' = Checkpoint(operation)
  <2>1. ~kill
    BY <1>3 DEF Checkpoint
  <2> QED
    BY <1>1, <1>3, <2>1
<1>4. CASE Restore
  <2>1. disk \in Checkpoints
    BY DEF IInv, TypeOK, OutsideTypes
  <2> QED
    BY <1>2, <1>4, <2>1 DEF Restore, Booted, SavedKill, Checkpoints
<1>5. CASE OperatorReview
  BY <1>5 DEF OperatorReview, Blank
<1>6. CASE Commit
  <2>1. Writable
    BY <1>6 DEF Commit, IInv, ControlOK, Writable
  <2> QED
    BY <1>2, <1>3, <1>6, <2>1 DEF Commit, FailedWrite
<1>7. CASE ShutdownCommit
  BY <1>2, <1>3, <1>7 DEF ShutdownCommit, FailedWrite
<1>8. ASSUME NEW operation, NEW first, NEW o, Begin(operation, first, o)
      PROVE  op = "clear-kill"
  BY <1>2, <1>3, <1>8 DEF Begin, LockFree, Writable, FailedWrite
<1> QED
  BY <1>2, <1>4, <1>5, <1>6, <1>7, <1>8 DEF Next, vars, Submission, Settling,
     Closing, Killing, Lifecycle, Outside, BeginSubmit, Veto, Authorize,
     Refuse, Send, SendBroken, Register, BeginPump, Collect, Book, BookDone,
     BeginClose, CloseGone, Sell, MarkUnpriced, Mark, PressKill, BeginKill,
     KillMoot, EngageKill, BeginClear, ReleaseKill, Connect, Arm, LoopExit,
     StopLoop, Shutdown, JoinEnds, JoinTimesOut, FreeLease, Exit, Crash,
     VenueCloses, VenueResult

\* Only clear_kill takes a latched kill out of the checkpoint file.
THEOREM KillSurvives == Spec => KillPersists
<1>1. IInv /\ [Next]_vars => [KillKept]_vars
  BY KillStep
<1> QED
  BY <1>1, Invariance, PTL DEF Spec, KillPersists

\* The concurrency cap bounds the unresolved contracts across restarts.
THEOREM CapHolds == Spec => []ExposureCapped
<1>1. IInv => ExposureCapped
  BY DEF IInv
<1> QED
  BY <1>1, Invariance, PTL

\* No two unresolved contracts are on one asset, across restarts.
THEOREM AssetCapHolds == Spec => []OnePerAsset
<1>1. IInv => OnePerAsset
  BY DEF IInv
<1> QED
  BY <1>1, Invariance, PTL

\* No order leaves under a latched kill switch or a hold, but for the one a
\* shutdown that gave up on the loop finds inside the OMS.
THEOREM KillIsFinal == Spec => NoOrderUnderKill
<1>1. IInv /\ [Next]_vars => [SentUnheld]_vars
  BY OutSteps DEF SentUnheld, Sent
<1> QED
  BY <1>1, Invariance, PTL DEF Spec, NoOrderUnderKill

\* During a hold only those write who asked before it, and a write in or into
\* a hold tells the book.
LEMMA EvidenceStep == IInv /\ [Next]_vars => [EvidenceKept]_vars
<1> SUFFICES ASSUME IInv, [Next]_vars PROVE EvidenceKept
  OBVIOUS
<1>1. CASE UNCHANGED disk
  BY <1>1 DEF EvidenceKept
<1>2. CASE ~fault /\ ~fault'
  BY <1>2 DEF EvidenceKept
<1>3. fault => up = "ready"
  BY DEF IInv, ControlOK
<1>4. ASSUME NEW operation, SnapshotOK, disk' = Checkpoint(operation),
             UNCHANGED bookVars, Ready \/ stop = "committing"
      PROVE  EvidenceKept
  <2>1. Registry' = Registry
    BY <1>4 DEF Registry, bookVars
  <2>2. /\ disk'.orders = Registry /\ disk'.count = Cardinality(Registry)
        /\ disk'.stake = Stake * Cardinality(Registry)
        /\ \A a \in Assets :
             disk'.assets[a] = Cardinality({o \in Registry : AssetOf[o] = a})
    BY <1>4, SnapshotSaved
  <2> QED
    BY <1>4, <2>1, <2>2 DEF EvidenceKept, Tells, Ready
<1>5. CASE Restore
  <2>1. ~fault /\ up = "booting" /\ disk \in Checkpoints
    BY <1>3, <1>5 DEF Restore, IInv, TypeOK, OutsideTypes
  <2>2. CASE disk' = Booted /\ ~NeedsReview
    <3>1. /\ disk'.orders = {} /\ disk'.count = disk.count
          /\ disk'.stake = disk.stake /\ disk'.assets = disk.assets
      BY <2>1, <2>2 DEF Booted, Checkpoints
    <3>2. Registry' = {}
      BY <1>5, <2>1 DEF Restore, Registry, bookVars, IInv, BootOK
    <3>3. \A a \in Assets : {o \in {} : AssetOf[o] = a} = {}
      OBVIOUS
    <3> QED
      BY <2>1, <2>2, <3>1, <3>2, <3>3, CleanCheckpoint, FS_EmptySet, StakeOfOneMore
         DEF EvidenceKept, Tells
  <2> QED
    BY <1>1, <1>5, <2>2 DEF Restore
<1>6. CASE OperatorReview
  <2>1. ~fault /\ fault' = fault
    BY <1>3, <1>6 DEF OperatorReview, holdVars
  <2> QED
    BY <1>2, <2>1
<1>7. CASE Commit \/ ShutdownCommit
  BY <1>1, <1>4, <1>7 DEF Commit, ShutdownCommit, FailedWrite
<1>8. ASSUME NEW operation, NEW first, NEW o, Begin(operation, first, o)
      PROVE  EvidenceKept
  BY <1>1, <1>4, <1>8 DEF Begin, FailedWrite
<1> QED
  BY <1>1, <1>5, <1>6, <1>7, <1>8 DEF Next, vars, Submission, Settling,
     Closing, Killing, Lifecycle, Outside, BeginSubmit, Veto, Authorize,
     Refuse, Send, SendBroken, Register, BeginPump, Collect, Book, BookDone,
     BeginClose, CloseGone, Sell, MarkUnpriced, Mark, PressKill, BeginKill,
     KillMoot, EngageKill, BeginClear, ReleaseKill, Connect, Arm, LoopExit,
     StopLoop, Shutdown, JoinEnds, JoinTimesOut, FreeLease, Exit, Crash,
     VenueCloses, VenueResult

\* The checkpoint of an interrupted run outlives the hold it causes: a write
\* that fails after the file was replaced has left a record of the book as it
\* is, and nobody who asks during the hold writes at all.
THEOREM EvidenceSurvives == Spec => HoldKeepsEvidence
BY EvidenceStep, Invariance, PTL DEF Spec, HoldKeepsEvidence

---------------------------------------------------------------------------
(* The refinement. *)

\* The abstract module counts as this one does.
LEMMA SameCount ==
  ASSUME NEW S PROVE Life!Cardinality(S) = Cardinality(S)
BY DEF Cardinality, Life!Cardinality

\* An order that goes out is one ContractLife may open.
LEMMA SendOpens ==
  ASSUME IInv, [Next]_vars, At("submit", "route"),
         NEW s \in {"open", "closed"}, venue' = [venue EXCEPT ![cur] = s],
         outstanding' = outstanding \cup {cur}, UNCHANGED booked
  PROVE  cur \in Orders /\ Life!Open(cur)
<1>1. cur \in Orders /\ venue[cur] = "none"
  BY DEF At, IInv, ControlOK, FlowOK
<1>2. cur \notin outstanding
  BY <1>1 DEF IInv, FlowOK
<1>3. Cardinality(outstanding \cup {cur}) <= MaxConcurrent
  BY ExposureCappedStep DEF ExposureCapped
<1>4. \A p \in outstanding : AssetOf[p] # AssetOf[cur]
  BY <1>2, OnePerAssetStep DEF OnePerAsset
<1> QED
  BY <1>1, <1>3, <1>4, SameCount DEF Life!Open, Life!Room

\* A settlement that is booked is booked for the first time.
LEMMA BookBooks ==
  ASSUME IInv, NEW s \in batch, Book(s)
  PROVE  s.order \in Orders /\ Life!Book(s.order)
<1>1. s.order \in Orders /\ booked \in [Orders -> Nat]
  BY DEF IInv, TypeOK, BookTypes, Settlements
<1>2. venue[s.order] # "none" /\ booked[s.order] = 0
  BY DEF IInv, FlowOK
<1>3. /\ booked' = [booked EXCEPT ![s.order] = @ + 1]
      /\ outstanding' = outstanding \ {s.order} /\ UNCHANGED venue
  BY DEF Book
<1>4. booked' = [booked EXCEPT ![s.order] = 1]
  BY <1>1, <1>2, <1>3
<1> QED
  BY <1>1, <1>2, <1>3, <1>4 DEF Life!Book

LEMMA LifeStep ==
  IInv /\ [Next]_vars => [Life!Next]_<<venue, outstanding, booked>>
<1> SUFFICES ASSUME IInv, [Next]_vars
             PROVE  Life!Next \/ UNCHANGED <<venue, outstanding, booked>>
  OBVIOUS
<1>1. CASE Send
  <2>1. PICK s \in {"open", "closed"} : venue' = [venue EXCEPT ![cur] = s]
    BY <1>1 DEF Send
  <2>2. At("submit", "route") /\ outstanding' = outstanding \cup {cur}
        /\ UNCHANGED booked
    BY <1>1 DEF Send, bookVars
  <2> QED
    BY <2>1, <2>2, SendOpens DEF Life!Next
<1>2. CASE SendBroken
  <2>1. At("submit", "route") /\ UNCHANGED booked
    BY <1>2 DEF SendBroken, bookVars
  <2>2. CASE UNCHANGED <<venue, outstanding>>
    BY <2>1, <2>2
  <2>3. CASE /\ venue' = [venue EXCEPT ![cur] = "open"]
             /\ outstanding' = outstanding \cup {cur}
    BY <2>1, <2>3, SendOpens DEF Life!Next
  <2> QED
    BY <1>2, <2>2, <2>3 DEF SendBroken
<1>3. ASSUME NEW s \in batch, Book(s) PROVE Life!Next
  BY <1>3, BookBooks DEF Life!Next
<1>4. CASE Sell
  <2>1. cur \in Orders /\ venue[cur] # "none"
    BY <1>4 DEF Sell, At, IInv, ControlOK, FlowOK, TypeOK, BookTypes
  <2>2. /\ venue' = [venue EXCEPT ![cur] = "closed"] \/ UNCHANGED venue
        /\ UNCHANGED <<outstanding, booked>>
    BY <1>4 DEF Sell, bookVars
  <2> QED
    BY <2>1, <2>2 DEF Life!Next, Life!End
<1>5. ASSUME NEW o \in Orders, VenueCloses(o) PROVE Life!Next
  BY <1>5 DEF VenueCloses, bookVars, Life!Next, Life!End
<1>6. CASE OperatorReview
  BY <1>6 DEF OperatorReview, bookVars, Life!Next, Life!GiveUp
<1>7. CASE Commit
  BY <1>7 DEF Commit, bookVars
<1>8. CASE Lifecycle
  BY <1>8 DEF Lifecycle, Connect, Restore, Arm, LoopExit, StopLoop, Shutdown,
     JoinEnds, JoinTimesOut, ShutdownCommit, FreeLease, Exit, Crash, ProcessGone, bookVars
<1>9. CASE Killing
  BY <1>9 DEF Killing, PressKill, BeginKill, KillMoot, EngageKill, BeginClear,
     ReleaseKill, Begin, bookVars
<1>10. ASSUME NEW S \in SUBSET positions, Collect(S)
       PROVE  UNCHANGED <<venue, outstanding, booked>>
  BY <1>10 DEF Collect
<1>11. CASE BeginPump \/ BookDone \/ CloseGone \/ MarkUnpriced \/ Mark
  BY <1>11 DEF BeginPump, Begin, BookDone, CloseGone, MarkUnpriced, Mark, bookVars
<1>12. CASE Veto \/ Authorize \/ Refuse \/ Register
  BY <1>12 DEF Veto, Authorize, Refuse, Register, bookVars
<1>13. ASSUME NEW o \in Orders, BeginSubmit(o) \/ BeginClose(o) \/ VenueResult(o)
       PROVE  UNCHANGED <<venue, outstanding, booked>>
  BY <1>13 DEF BeginSubmit, BeginClose, VenueResult, Begin, bookVars
<1>14. CASE UNCHANGED vars
  BY <1>14 DEF vars, bookVars
<1> QED
  BY <1>1, <1>2, <1>3, <1>4, <1>5, <1>6, <1>7, <1>8, <1>9, <1>10, <1>11, <1>12,
     <1>13, <1>14 DEF Next, Submission, Settling, Closing, Outside

\* The money path, over all its processes, implements ContractLife: a contract
\* is opened once and within the caps, booked at most once, and given up only
\* when nothing is open at the venue.
THEOREM ContractsKept == Spec => KeepsContracts
<1>1. Init => Life!Init
  BY DEF Init, Life!Init
<1> QED
  BY <1>1, LifeStep, Invariance, PTL DEF Spec, KeepsContracts, Life!Spec

=============================================================================
