---------------------------- MODULE MarketProofs ----------------------------
(***************************************************************************)
(* Proofs about the whole market: what the two halves promise each on      *)
(* their own they also promise together, on shared pouches.  A step of the *)
(* market is a step of the one half that the other half cannot tell from   *)
(* no step but for the pouches, and what it does there keeps PouchInv and  *)
(* Metered, which speak of all transactions alike.                         *)
(***************************************************************************)
EXTENDS Market, HouseProofs

LP == INSTANCE ListingProofs WITH failures <- faults, MaxFailures <- MaxFaults

MarketInv ==
    /\ AuctionInv /\ BiddingInv /\ SpendingInv
    /\ LP!ListingInv /\ LP!PaysOnce

\* The steps of the auction house, a victim of the market included ...
HouseTurn ==
    \/ \E t \in Handlers : Begin(t) \/ HandlerStep(t)
    \/ \E s \in Settlers : Tick(s) \/ SettlerStep(s)
    \/ \E t \in Procs : \/ Fault(t)
                        \/ Abort(t) /\ UNCHANGED <<clockVars, faults>>
    \/ Time
    \/ UNCHANGED vars

\* ... and the restart.
HouseMove == HouseTurn \/ Crash

\* The same of the shop.
ShopTurn ==
    \/ LP!CreateRequest
    \/ \E t \in Buyers :
          \/ LP!PurchaseRequest(t)
          \/ LP!PurchaseStep(t)
          \/ LP!FailPurchase(t)
          \/ LP!Undo(t) /\ UNCHANGED <<clockVars, faults>>

ShopMove == ShopTurn \/ LP!Restart

-----------------------------------------------------------------------------
(* The shop of module Market is the one that ListingProofs speaks of.      *)

(***************************************************************************)
(* The steps.                                                              *)
(***************************************************************************)
LEMMA SameSteps ==
    /\ L!CreateRequest => LP!CreateRequest
    /\ \A t \in Buyers : /\ L!PurchaseRequest(t) => LP!PurchaseRequest(t)
                         /\ L!PurchaseStep(t) => LP!PurchaseStep(t)
                         /\ L!FailPurchase(t) => LP!FailPurchase(t)
                         /\ L!Undo(t) => LP!Undo(t)
    /\ L!ListingInit => LP!ListingInit
    /\ L!Restart => LP!Restart
<1>1. L!CreateRequest => LP!CreateRequest
  BY DEF L!CreateRequest, LP!CreateRequest, L!CreateItem, LP!CreateItem, L!Offer, LP!Offer,
         L!pouchVars, LP!pouchVars, L!clockVars, LP!clockVars
<1>2. ASSUME NEW t \in Buyers
      PROVE  L!PurchaseRequest(t) => LP!PurchaseRequest(t)
  BY ZenonT(60) DEF L!PurchaseRequest, LP!PurchaseRequest, L!BeginPurchase, LP!BeginPurchase,
         L!NoPurchase, LP!NoPurchase, L!pouchVars, LP!pouchVars, L!clockVars, LP!clockVars,
         L!stockVars, LP!stockVars
<1>3. ASSUME NEW t \in Buyers
      PROVE  L!PurchaseStep(t) => LP!PurchaseStep(t)
  BY ZenonT(60) DEF L!CanSell, LP!CanSell, L!CommitPurchase, LP!CommitPurchase,
         L!CommitRows, LP!CommitRows, L!Credit, LP!Credit, L!CreditOK, LP!CreditOK,
         L!CreditSeller, LP!CreditSeller, L!EmptyLog, LP!EmptyLog, L!Entry, LP!Entry,
         L!HeldPC, LP!HeldPC, L!Leave, LP!Leave, L!ListingFree, LP!ListingFree,
         L!LockListing, LP!LockListing, L!NeedsPouch, LP!NeedsPouch, L!NoEntries, LP!NoEntries,
         L!NoPurchase, LP!NoPurchase, L!Passes, LP!Passes, L!Proceed, LP!Proceed,
         L!PurchaseStep, LP!PurchaseStep, L!RefusePurchase, LP!RefusePurchase,
         L!Reserve, LP!Reserve, L!ReserveOK, LP!ReserveOK, L!ReserveTotal, LP!ReserveTotal,
         L!ResetIfNewDay, LP!ResetIfNewDay, L!RollbackRows, LP!RollbackRows,
         L!RowFree, LP!RowFree, L!SeenRow, LP!SeenRow, L!Seller, LP!Seller,
         L!Settle, LP!Settle, L!SettleOK, LP!SettleOK, L!SettleTotal, LP!SettleTotal,
         L!Sold, LP!Sold, L!Total, LP!Total, L!TransactionType, LP!TransactionType,
         L!Undo, LP!Undo, L!UsableBalance, LP!UsableBalance, L!WaitsFor, LP!WaitsFor,
         L!WithinDailyLimit, LP!WithinDailyLimit, L!WriteRow, LP!WriteRow,
         L!clockVars, LP!clockVars, L!pouchVars, LP!pouchVars, L!stockVars, LP!stockVars,
         L!writeLog, LP!writeLog
<1>4. ASSUME NEW t \in Buyers
      PROVE  L!Undo(t) => LP!Undo(t)
  BY DEF L!Undo, LP!Undo, L!RollbackRows, LP!RollbackRows, L!Leave, LP!Leave,
         L!NoPurchase, LP!NoPurchase, L!NoEntries, LP!NoEntries, L!EmptyLog, LP!EmptyLog,
         L!TransactionType, LP!TransactionType, L!stockVars, LP!stockVars
<1>5. ASSUME NEW t \in Buyers
      PROVE  L!FailPurchase(t) => LP!FailPurchase(t)
  BY <1>4 DEF L!FailPurchase, LP!FailPurchase, L!clockVars, LP!clockVars
<1>6. L!ListingInit => LP!ListingInit
  BY DEF L!ListingInit, LP!ListingInit, L!PouchInit, LP!PouchInit, L!SeedPouch, LP!SeedPouch,
         L!Offer, LP!Offer, L!NoPurchase, LP!NoPurchase, L!NoEntries, LP!NoEntries,
         L!EmptyLog, LP!EmptyLog, L!TransactionType, LP!TransactionType
<1>7. L!Restart => LP!Restart
  BY DEF L!Restart, LP!Restart, L!RollbackAllRows, LP!RollbackAllRows,
         L!NoPurchase, LP!NoPurchase, L!NoEntries, LP!NoEntries, L!EmptyLog, LP!EmptyLog,
         L!TransactionType, LP!TransactionType, L!clockVars, LP!clockVars,
         L!stockVars, LP!stockVars
<1> QED
  BY <1>1, <1>2, <1>3, <1>4, <1>5, <1>6, <1>7

(***************************************************************************)
(* The state, and the assumptions.                                         *)
(***************************************************************************)
LEMMA SameState ==
    /\ LP!PouchInv = PouchInv /\ LP!PouchInv' = PouchInv'
    /\ LP!Metered = Metered /\ LP!Metered' = Metered'
    /\ LP!Metering = Metering
    /\ LP!StockInStep = L!StockInStep
  BY DEF LP!PouchInv, PouchInv, LP!Metered, Metered, LP!Metering, Metering,
         LP!PouchTypeOK, PouchTypeOK, LP!RowsSolvent, RowsSolvent,
         LP!BooksBalance, BooksBalance, LP!MeteredRow, MeteredRow, LP!MeterStep, MeterStep,
         LP!Spent, Spent, LP!SolventPouch, SolventPouch, LP!ReconciledPouch, ReconciledPouch,
         LP!Pouch, Pouch, LP!Log, Log, LP!TransactionType, TransactionType, LP!AddLog, AddLog,
         LP!EmptyLog, EmptyLog, LP!StockInStep, L!StockInStep

(***************************************************************************)
(* What the market assumes of its constants is what the shop assumes.      *)
(***************************************************************************)
LEMMA SameAssumptions == LP!PouchTableAssumption /\ LP!ListingAssumption
  BY PouchTableAssumption, MarketAssumption
     DEF MarketAssumption, L!ListingAssumption, LP!ListingAssumption,
         PouchTableAssumption, LP!PouchTableAssumption, IsFiniteSet, LP!IsFiniteSet

-----------------------------------------------------------------------------
(* Whose step it is.                                                       *)

(***************************************************************************)
(* A step of the market is a step of the one half, of the other half, or   *)
(* the restart that ends the transactions of both.                         *)
(***************************************************************************)
LEMMA WhoseStep ==
    ASSUME [MarketNext]_marketVars
    PROVE  \/ HouseTurn /\ UNCHANGED shopVars
           \/ ShopTurn /\ UNCHANGED <<auctionVars, tx, clockVars>>
           \/ Crash /\ LP!Restart
<1>1. CASE \E t \in Handlers : Begin(t) /\ UNCHANGED shopVars
  BY <1>1 DEF HouseTurn
<1>2. CASE \E t \in Handlers : HandlerTurn(t)
  BY <1>2 DEF HandlerTurn, HouseTurn
<1>3. CASE \E s \in Settlers : TickTurn(s) \/ SettlerTurn(s)
  BY <1>3 DEF TickTurn, SettlerTurn, HouseTurn
<1>4. ASSUME NEW t \in Handlers \cup Settlers, Fault(t), UNCHANGED shopVars
      PROVE  HouseTurn /\ UNCHANGED shopVars
  <2>1. t \in Procs
    BY DEF Procs
  <2> QED
    BY <1>4, <2>1 DEF HouseTurn
<1>5. CASE MarketTime
  BY <1>5 DEF MarketTime, HouseTurn
<1>6. CASE AtRest \/ UNCHANGED marketVars
  BY <1>6 DEF AtRest, marketVars, HouseTurn
<1>7. CASE /\ L!CreateRequest \/ \E t \in Buyers : L!PurchaseRequest(t)
           /\ UNCHANGED <<auctionVars, tx>>
  <2>1. UNCHANGED clockVars
    BY <1>7 DEF L!CreateRequest, L!CreateItem, L!PurchaseRequest, L!BeginPurchase,
                L!clockVars, clockVars
  <2> QED
    BY <1>7, <2>1, SameSteps, SMTT(30) DEF ShopTurn
<1>8. ASSUME NEW t \in Buyers, L!PurchaseStep(t) \/ L!FailPurchase(t),
             UNCHANGED <<auctionVars, tx>>
      PROVE  ShopTurn /\ UNCHANGED <<auctionVars, tx, clockVars>>
  <2>1. UNCHANGED clockVars
    BY <1>8 DEF L!PurchaseStep, L!LockListing, L!ReserveTotal, L!SettleTotal, L!CreditSeller,
                L!CommitPurchase, L!RefusePurchase, L!FailPurchase, L!clockVars, clockVars
  <2> QED
    BY <1>8, <2>1, SameSteps DEF ShopTurn
<1>9. ASSUME NEW t \in Txs, Victim(t)
      PROVE  \/ HouseTurn /\ UNCHANGED shopVars
             \/ ShopTurn /\ UNCHANGED <<auctionVars, tx, clockVars>>
  <2>1. CASE t \in Buyers
    BY <1>9, <2>1, SameSteps DEF Victim, ShopTurn
  <2>2. CASE t \notin Buyers
    <3>1. InCircle(t) /\ Abort(t) /\ UNCHANGED <<shopVars, clockVars, faults>>
      BY <1>9, <2>2 DEF Victim
    <3> QED
      BY <2>2, <3>1, MarketAssumption DEF HouseTurn, Procs, MarketAssumption
  <2> QED
    BY <2>1, <2>2
<1>10. CASE /\ Crash /\ ptx' = [t \in Buyers |-> L!NoPurchase]
            /\ UNCHANGED <<listings, stock>>
  <2>1. L!Restart
    BY <1>10 DEF Crash, L!Restart, RollbackAllRows, L!RollbackAllRows, NoEntries, L!NoEntries,
                 EmptyLog, L!EmptyLog, TransactionType, L!TransactionType,
                 clockVars, L!clockVars, L!stockVars
  <2> QED
    BY <1>10, <2>1, SameSteps
<1> QED
  BY <1>1, <1>2, <1>3, <1>4, <1>5, <1>6, <1>7, <1>8, <1>9, <1>10
     DEF MarketNext, Request, BuyerTurn, MarketFault

-----------------------------------------------------------------------------
(* What a step does to the half it belongs to.                             *)

(***************************************************************************)
(* The auction house keeps what it promises.                               *)
(***************************************************************************)
LEMMA HouseKeeps ==
    ASSUME MarketInv, HouseMove
    PROVE  /\ AuctionInv' /\ BiddingInv' /\ SpendingInv'
           /\ Metering /\ Final /\ Quiet
<1> USE DEF MarketInv
<1>1. CASE [AuctionNext]_vars
  BY <1>1, StepPreserves, StepKeeps, StepsAreMetered, ClosedStaysClosed, ClosesWhenQuiet
<1>2. ASSUME NEW t \in Procs, Abort(t), UNCHANGED <<clockVars, faults>>
      PROVE  /\ AuctionInv' /\ BiddingInv' /\ SpendingInv'
             /\ Metering /\ Final /\ Quiet
  <2>1. AuctionInv'
    BY <1>2, PouchTableAssumption, AuctionAssumption, AbortPreserves, Types
  <2>2. BiddingInv' /\ SpendingInv' /\ Metering
    BY <1>2, PouchTableAssumption, AuctionAssumption, AbortKeeps, EndsKeepSpending
  <2>3. UNCHANGED <<auctions, bids>>
    BY <1>2 DEF Abort, auctionVars
  <2>4. Final /\ Quiet
    BY <2>3 DEF Final, Quiet, BidsOf
  <2> QED
    BY <2>1, <2>2, <2>4
<1> QED
  BY <1>1, <1>2 DEF HouseMove, HouseTurn, AuctionNext, Procs

(***************************************************************************)
(* The shop keeps what it promises.                                        *)
(***************************************************************************)
LEMMA ShopKeeps ==
    ASSUME MarketInv, ShopMove
    PROVE  LP!ListingInv' /\ LP!PaysOnce' /\ Metered' /\ Metering
<1>1. LP!ListingInv /\ LP!PaysOnce /\ LP!Metered
  BY SameState DEF MarketInv, SpendingInv
<1>2. LP!PouchTableAssumption /\ LP!ListingAssumption
  BY SameAssumptions
<1>3. CASE LP!ListingNext
  <2>1. LP!ListingInv'
    BY <1>1, <1>2, <1>3, LP!SaleStepPreserves
  <2>2. LP!PaysOnce' /\ LP!Metered' /\ LP!Metering
    BY <1>1, <1>2, <1>3, LP!SalesAreMetered
  <2> QED
    BY <2>1, <2>2, SameState
<1>4. ASSUME NEW t \in Buyers, LP!Undo(t), UNCHANGED <<clockVars, faults>>
      PROVE  LP!ListingInv' /\ LP!PaysOnce' /\ Metered' /\ Metering
  <2>1. UNCHANGED LP!clockVars /\ faults' \in Nat
    BY <1>1, <1>4 DEF clockVars, LP!clockVars, LP!ListingInv, LP!ListingTypeOK
  <2> QED
    BY <1>1, <1>2, <1>4, <2>1, SameState, LP!UndoPreserves, LP!EndIsMetered
<1> QED
  BY <1>3, <1>4 DEF ShopMove, ShopTurn, LP!ListingNext

-----------------------------------------------------------------------------
(* What it does to the other half.                                         *)

(***************************************************************************)
(* The auction house writes no entry in the name of a buyer.               *)
(***************************************************************************)
LEMMA HouseEntries ==
    ASSUME MarketInv, HouseMove, NEW u \in Buyers
    PROVE  newLog'[u] \in {newLog[u], NoEntries}
<1>1. /\ newLog \in [Txs -> [Guilds -> Log]] /\ u \in Txs /\ u \notin Procs
      /\ Procs \subseteq Txs
  BY MarketAssumption DEF MarketInv, AuctionInv, PouchInv, PouchTypeOK, MarketAssumption, Procs
<1>2. ASSUME NEW t \in Procs, NEW g, NEW gp, NEW type, NEW amount,
             WriteRow(t, g, gp, type, amount)
      PROVE  newLog'[u] = newLog[u]
  BY <1>1, <1>2 DEF WriteRow, Entry
<1>3. ASSUME NEW t \in Procs, CommitRows(t) \/ RollbackRows(t)
      PROVE  newLog'[u] = newLog[u]
  BY <1>1, <1>3 DEF CommitRows, RollbackRows
<1>4. ASSUME NEW t \in Handlers, Begin(t) \/ HandlerStep(t)
      PROVE  newLog'[u] = newLog[u]
  <2>1. t \in Procs
    BY DEF Procs
  <2>2. CASE Begin(t) \/ InsertAuction(t) \/ LockForBid(t) \/ LockForCancel(t)
    BY <2>2 DEF Begin, CreateRequest, BidRequest, CancelRequest, BeginCreate, BeginBid,
                BeginCancel, InsertAuction, LockForBid, LockForCancel, pouchVars
  <2>3. CASE ReserveForBid(t) \/ ReleaseForCancel(t)
    BY <1>2, <2>1, <2>3 DEF ReserveForBid, ReleaseForCancel
  <2>4. CASE CommitBid(t) \/ CommitCancel(t) \/ Refuse(t)
    BY <1>3, <2>1, <2>4 DEF CommitBid, CommitCancel, Refuse, Abort
  <2> QED
    BY <1>4, <2>2, <2>3, <2>4 DEF HandlerStep
<1>5. ASSUME NEW s \in Settlers, Tick(s) \/ SettlerStep(s)
      PROVE  newLog'[u] = newLog[u]
  <2>1. s \in Procs
    BY DEF Procs
  <2>2. CASE Tick(s) \/ LockForSettlement(s) \/ Transfer(s)
    BY <2>2 DEF Tick, LockForSettlement, Transfer, pouchVars
  <2>3. CASE SettleWinner(s) \/ CreditOwner(s) \/ ReleaseLoser(s)
    BY <1>2, <2>1, <2>3 DEF SettleWinner, CreditOwner, ReleaseLoser
  <2>4. CASE CommitSettlement(s) \/ Refuse(s)
    BY <1>3, <2>1, <2>4 DEF CommitSettlement, Refuse, Abort
  <2> QED
    BY <1>5, <2>2, <2>3, <2>4 DEF SettlerStep
<1>6. CASE Crash
  BY <1>1, <1>6 DEF Crash, RollbackAllRows
<1>7. CASE Time \/ UNCHANGED vars
  BY <1>7 DEF Time, vars, pouchVars
<1>8. ASSUME NEW t \in Procs, Abort(t) \/ Fault(t)
      PROVE  newLog'[u] = newLog[u]
  BY <1>3, <1>8 DEF Abort, Fault
<1> QED
  BY <1>4, <1>5, <1>6, <1>7, <1>8 DEF HouseMove, HouseTurn

(***************************************************************************)
(* The shop does not see a step of the auction house.                      *)
(***************************************************************************)
LEMMA ShopUndisturbed ==
    ASSUME MarketInv, HouseMove, UNCHANGED shopVars
    PROVE  LP!ListingInv' /\ LP!PaysOnce'
<1>1. /\ PouchInv' /\ faults' \in Nat /\ UNCHANGED <<listings, stock, ptx>>
      /\ LP!ListingInv /\ LP!PaysOnce
  BY HouseKeeps DEF AuctionInv, TypeOK, shopVars, MarketInv
<1>2. LP!ListingInv'
  <2>1. LP!PouchInv' /\ LP!PouchTypeOK'
    BY <1>1, SameState DEF LP!PouchInv
  <2>2. LP!ListingTypeOK'
    BY <1>1, <2>1 DEF LP!ListingInv, LP!ListingTypeOK
  <2>3. LP!StockInStep' /\ LP!Locking'
    BY <1>1 DEF LP!ListingInv, LP!StockInStep, LP!Locking, LP!Asking, LP!Holding
  <2> QED
    BY <2>1, <2>2, <2>3 DEF LP!ListingInv
<1>3. LP!PaysOnce'
  <2>1. ASSUME NEW t \in Buyers, ptx'[t].pc \in LP!UnpaidPC, NEW g \in Guilds
        PROVE  LP!Spent(newLog'[t][g]) = 0
    <3>1. CASE newLog'[t] = newLog[t]
      BY <1>1, <2>1, <3>1 DEF LP!PaysOnce
    <3>2. CASE newLog'[t] = NoEntries
      BY <3>2 DEF NoEntries, EmptyLog, LP!Spent, TransactionType
    <3> QED
      BY <3>1, <3>2, HouseEntries
  <2> QED
    BY <2>1 DEF LP!PaysOnce
<1> QED
  BY <1>2, <1>3

(***************************************************************************)
(* The shop locks no pouch in the name of a bidder or a settler.           *)
(***************************************************************************)
LEMMA ShopLocks ==
    ASSUME MarketInv, ShopMove, NEW u \in Procs, NEW g \in Guilds, holder'[g] = u
    PROVE  holder[g] = u
<1>1. u \notin Buyers /\ u # None /\ holder \in [Guilds -> Txs \cup {None}]
  BY MarketAssumption, PouchTableAssumption, AuctionAssumption
     DEF MarketAssumption, PouchTableAssumption, AuctionAssumption, Procs,
         MarketInv, AuctionInv, PouchInv, PouchTypeOK
<1>2. ASSUME NEW t \in Buyers, NEW h, NEW gp, NEW type, NEW amount,
             LP!WriteRow(t, h, gp, type, amount)
      PROVE  holder[g] = u
  BY <1>1, <1>2 DEF LP!WriteRow
<1>3. ASSUME NEW t \in Buyers, LP!CommitRows(t) \/ LP!RollbackRows(t)
      PROVE  holder[g] = u
  BY <1>1, <1>3 DEF LP!CommitRows, LP!RollbackRows
<1>4. ASSUME NEW t \in Buyers, LP!PurchaseStep(t) \/ LP!PurchaseRequest(t)
      PROVE  holder[g] = u
  <2>1. CASE LP!PurchaseRequest(t) \/ LP!LockListing(t)
    BY <2>1 DEF LP!PurchaseRequest, LP!BeginPurchase, LP!LockListing, LP!pouchVars
  <2>2. CASE LP!ReserveTotal(t) \/ LP!SettleTotal(t) \/ LP!CreditSeller(t)
    BY <1>2, <2>2 DEF LP!ReserveTotal, LP!SettleTotal, LP!CreditSeller
  <2>3. CASE LP!CommitPurchase(t) \/ LP!RefusePurchase(t)
    BY <1>3, <2>3 DEF LP!CommitPurchase, LP!RefusePurchase, LP!Undo
  <2> QED
    BY <1>4, <2>1, <2>2, <2>3 DEF LP!PurchaseStep
<1>5. ASSUME NEW t \in Buyers, LP!FailPurchase(t) \/ LP!Undo(t)
      PROVE  holder[g] = u
  BY <1>3, <1>5 DEF LP!FailPurchase, LP!Undo
<1>6. CASE LP!Restart
  BY <1>1, <1>6 DEF LP!Restart, LP!RollbackAllRows
<1>7. CASE LP!CreateRequest
  BY <1>7 DEF LP!CreateRequest, LP!CreateItem, LP!pouchVars
<1> QED
  BY <1>4, <1>5, <1>6, <1>7 DEF ShopMove, ShopTurn

(***************************************************************************)
(* The auction house does not see a step of the shop.                      *)
(***************************************************************************)
LEMMA HouseUndisturbed ==
    ASSUME MarketInv, ShopMove, UNCHANGED <<auctionVars, tx, clockVars>>
    PROVE  /\ AuctionInv' /\ BiddingInv' /\ SpendingInv'
           /\ Final /\ Quiet
<1>1. /\ PouchInv' /\ PouchTypeOK' /\ faults' \in Nat /\ Metered'
      /\ UNCHANGED <<auctions, bids, inv, tx, now, today>>
  BY ShopKeeps, SameState
     DEF LP!ListingInv, LP!ListingTypeOK, PouchInv, auctionVars, clockVars
<1>2. AuctionInv'
  BY <1>1 DEF MarketInv, AuctionInv, TypeOK, References
<1>3. BiddingInv'
  BY <1>1 DEF MarketInv, BiddingInv
<1>4. SpendingInv'
  BY <1>1, ShopLocks DEF MarketInv, SpendingInv, FreshFirst
<1>5. Final /\ Quiet
  BY <1>1 DEF Final, Quiet, BidsOf
<1> QED
  BY <1>2, <1>3, <1>4, <1>5

-----------------------------------------------------------------------------
(* The theorems.                                                           *)

(***************************************************************************)
(* Every step of the market keeps MarketInv.                               *)
(***************************************************************************)
LEMMA MarketStep ==
    ASSUME MarketInv, [MarketNext]_marketVars
    PROVE  MarketInv' /\ Metering /\ Final /\ Quiet
<1>1. CASE HouseTurn /\ UNCHANGED shopVars
  BY <1>1, HouseKeeps, ShopUndisturbed DEF MarketInv, HouseMove
<1>2. CASE ShopTurn /\ UNCHANGED <<auctionVars, tx, clockVars>>
  BY <1>2, ShopKeeps, HouseUndisturbed DEF MarketInv, ShopMove
<1>3. CASE Crash /\ LP!Restart
  <2>1. HouseMove /\ ShopMove
    BY <1>3 DEF HouseMove, ShopMove
  <2> QED
    BY <2>1, HouseKeeps, ShopKeeps DEF MarketInv
<1> QED
  BY <1>1, <1>2, <1>3, WhoseStep

(***************************************************************************)
(* The seed migration establishes MarketInv.                               *)
(***************************************************************************)
LEMMA MarketInitEstablishes ==
    ASSUME MarketInit
    PROVE  MarketInv
<1> USE PouchTableAssumption, AuctionAssumption
<1>1. AuctionInit /\ LP!ListingInit
  BY SameSteps DEF MarketInit
<1>2. AuctionInv /\ BiddingInv /\ SpendingInv
  BY <1>1, InitEstablishes, InitBidding, SeedIsMetered
<1>3. LP!ListingInv
  BY <1>1, SameAssumptions, LP!SeedOffersEstablish
<1>4. LP!PaysOnce
  <2>1. /\ Buyers \subseteq Txs
        /\ \A t \in Txs, g \in Guilds : newLog[t][g] = EmptyLog
    BY <1>1, MarketAssumption DEF MarketAssumption, AuctionInit, PouchInit, NoEntries
  <2>2. LP!Spent(EmptyLog) = 0
    BY DEF LP!Spent, EmptyLog, TransactionType
  <2> QED
    BY <2>1, <2>2 DEF LP!PaysOnce
<1> QED
  BY <1>2, <1>3, <1>4 DEF MarketInv

(***************************************************************************)
(* MarketInv is inductive.                                                 *)
(***************************************************************************)
THEOREM MarketInvariant == MarketSpec => []MarketInv
<1>1. MarketInit => MarketInv
  BY MarketInitEstablishes
<1>2. MarketInv /\ [MarketNext]_marketVars => MarketInv'
  BY MarketStep
<1> QED
  BY <1>1, <1>2, PTL DEF MarketSpec

(***************************************************************************)
(* Bids, settlements and purchases together never overdraw a pouch nor     *)
(* exceed a daily limit, and the log explains every balance.               *)
(***************************************************************************)
THEOREM MarketSolvent == MarketSpec => [](Solvency /\ Reconciled)
<1>1. MarketInv => Solvency /\ Reconciled
  BY PouchInvImplies DEF MarketInv, AuctionInv
<1> QED
  BY <1>1, MarketInvariant, PTL

(***************************************************************************)
(* Listing and inventory stay in step beside the auctions.                 *)
(***************************************************************************)
THEOREM MarketInStock == MarketSpec => []L!StockInStep
<1>1. MarketInv => L!StockInStep
  BY SameState DEF MarketInv, LP!ListingInv
<1> QED
  BY <1>1, MarketInvariant, PTL

(***************************************************************************)
(* Purchases do not touch what bidders are promised: bids climb, the       *)
(* greatest wins, its guild gets the item.                                 *)
(***************************************************************************)
THEOREM MarketIsFair == MarketSpec => [](BidLadder /\ FairVerdict /\ Title)
<1>1. MarketInv => BidLadder /\ FairVerdict /\ Title
  BY LadderHolds, VerdictHolds, HeirOwns DEF MarketInv
<1> QED
  BY <1>1, MarketInvariant, PTL

(***************************************************************************)
(* What is settled stays settled, and nothing is settled in the sniping    *)
(* window of a bid.                                                        *)
(***************************************************************************)
THEOREM MarketIsFinal == MarketSpec => ExpiredIsFinal /\ QuietBeforeClose
<1>1. MarketInv /\ [MarketNext]_marketVars => Final /\ Quiet
  BY MarketStep
<1> QED
  BY <1>1, MarketInvariant, PTL
     DEF MarketSpec, ExpiredIsFinal, QuietBeforeClose, Final, Quiet

(***************************************************************************)
(* spent_today counts what bids and purchases spend together, and the      *)
(* wallet shows what is left of the limit.                                 *)
(***************************************************************************)
THEOREM MarketIsMetered == MarketSpec => SpendingMetered /\ []WalletAgrees
<1> DEFINE Moves == \A g \in Guilds :
              /\ pouch[g].day <= pouch'[g].day
              /\ pouch'[g].spent = (IF pouch'[g].day = pouch[g].day THEN pouch[g].spent ELSE 0)
                                    + Spent(log'[g]) - Spent(log[g])
<1>1. MarketInv /\ [MarketNext]_marketVars => Moves
  BY MarketStep DEF Metering, MeterStep
<1>2. MarketInv => WalletAgrees
  BY AuctionAssumption, WalletShowsReach DEF MarketInv, AuctionInv
<1> QED
  BY <1>1, <1>2, MarketInvariant, PTL DEF MarketSpec, SpendingMetered

-----------------------------------------------------------------------------
(* The gold of the whole market.                                           *)

\* What is said of the gold of the two halves on their own.
MarketGold == PromiseInv /\ EscrowInv /\ LP!BookKeeping

(***************************************************************************)
(* The auction house keeps its part of it.                                 *)
(***************************************************************************)
LEMMA HouseKeepsGold ==
    ASSUME MarketInv, MarketInv', MarketGold, HouseMove
    PROVE  PromiseInv' /\ EscrowInv'
<1> USE DEF MarketInv, MarketGold
<1>1. CASE [AuctionNext]_vars
  BY <1>1, StepKeepsPromises, StepKeepsEscrow
<1>2. ASSUME NEW t \in Procs, Abort(t)
      PROVE  PromiseInv' /\ EscrowInv'
  BY <1>2, PouchTableAssumption, AuctionAssumption, EndPromises, EscrowAborts
<1> QED
  BY <1>1, <1>2 DEF HouseMove, HouseTurn, AuctionNext, Procs

(***************************************************************************)
(* The auction house leaves the rows alone that a buyer holds.             *)
(***************************************************************************)
LEMMA HouseLeavesRows ==
    ASSUME MarketInv, HouseTurn, NEW u \in Buyers, NEW g \in Guilds
    PROVE  /\ holder'[g] = u <=> holder[g] = u
           /\ holder[g] = u => draft'[g] = draft[g] /\ pouch'[g] = pouch[g]
<1> DEFINE Left == /\ holder'[g] = u <=> holder[g] = u
                   /\ holder[g] = u => draft'[g] = draft[g] /\ pouch'[g] = pouch[g]
<1>1. /\ holder \in [Guilds -> Txs \cup {None}] /\ draft \in [Guilds -> Pouch]
      /\ u # None /\ u \notin Procs
  BY PouchTableAssumption, MarketAssumption
     DEF MarketInv, AuctionInv, PouchInv, PouchTypeOK, PouchTableAssumption, MarketAssumption,
         Procs
<1>2. ASSUME NEW t \in Procs, NEW h, NEW gp, NEW type, NEW amount,
             RowFree(t, h), WriteRow(t, h, gp, type, amount)
      PROVE  Left
  BY <1>1, <1>2 DEF WriteRow, RowFree
<1>3. ASSUME NEW t \in Procs, CommitRows(t) \/ RollbackRows(t)
      PROVE  Left
  BY <1>1, <1>3 DEF CommitRows, RollbackRows
<1>4. ASSUME UNCHANGED <<pouch, draft, holder>>
      PROVE  Left
  BY <1>4
<1> HIDE DEF Left
<1>5. ASSUME NEW t \in Handlers, Begin(t) \/ HandlerStep(t)
      PROVE  Left
  <2>1. t \in Procs
    BY DEF Procs
  <2>2. CASE Begin(t) \/ InsertAuction(t) \/ LockForBid(t) \/ LockForCancel(t)
    BY <1>4, <2>2 DEF Begin, CreateRequest, BidRequest, CancelRequest, BeginCreate, BeginBid,
                      BeginCancel, InsertAuction, LockForBid, LockForCancel, pouchVars
  <2>3. CASE ReserveForBid(t) \/ ReleaseForCancel(t)
    BY <1>2, <2>1, <2>3 DEF ReserveForBid, ReleaseForCancel
  <2>4. CASE CommitBid(t) \/ CommitCancel(t) \/ Refuse(t)
    BY <1>3, <2>1, <2>4 DEF CommitBid, CommitCancel, Refuse, Abort
  <2> QED
    BY <1>5, <2>2, <2>3, <2>4 DEF HandlerStep
<1>6. ASSUME NEW s \in Settlers, Tick(s) \/ SettlerStep(s)
      PROVE  Left
  <2>1. s \in Procs
    BY DEF Procs
  <2>2. CASE Tick(s) \/ LockForSettlement(s) \/ Transfer(s)
    BY <1>4, <2>2 DEF Tick, LockForSettlement, Transfer, pouchVars
  <2>3. CASE SettleWinner(s) \/ CreditOwner(s) \/ ReleaseLoser(s)
    BY <1>2, <2>1, <2>3 DEF SettleWinner, CreditOwner, ReleaseLoser
  <2>4. CASE CommitSettlement(s) \/ Refuse(s)
    BY <1>3, <2>1, <2>4 DEF CommitSettlement, Refuse, Abort
  <2> QED
    BY <1>6, <2>2, <2>3, <2>4 DEF SettlerStep
<1>7. ASSUME Time \/ UNCHANGED vars
      PROVE  Left
  BY <1>4, <1>7 DEF Time, vars, pouchVars
<1>8. ASSUME NEW t \in Procs, Abort(t) \/ Fault(t)
      PROVE  Left
  BY <1>3, <1>8 DEF Abort, Fault
<1>9. Left
  BY <1>5, <1>6, <1>7, <1>8 DEF HouseTurn
<1> QED
  BY <1>9 DEF Left

(***************************************************************************)
(* So the purchases under way still carry what they carried.               *)
(***************************************************************************)
LEMMA PurchasesCarryOn ==
    ASSUME MarketInv, MarketGold, HouseTurn, UNCHANGED shopVars
    PROVE  LP!BookKeeping'
<1>1. LP!SaleInv /\ LP!SalesAssumption /\ ptx' = ptx /\ listings' = listings
  BY SameAssumptions DEF MarketInv, MarketGold, LP!SaleInv, LP!SalesAssumption, shopVars
<1>2. ASSUME NEW u \in Buyers
      PROVE  LP!Carries(u)'
  <2>1. \A g \in Guilds : holder'[g] = u <=> holder[g] = u
    BY HouseLeavesRows
  <2>2. \A g \in Guilds : holder[g] = u => draft'[g] = draft[g] /\ pouch'[g] = pouch[g]
    BY HouseLeavesRows
  <2> QED
    BY <1>1, <2>1, <2>2, SameAssumptions, LP!Aside
<1> QED
  BY <1>2 DEF LP!BookKeeping

(***************************************************************************)
(* A purchase pays one guild what it charges another, reserves nothing     *)
(* that it does not pay, and writes no row that a bid or a settlement      *)
(* holds.                                                                  *)
(***************************************************************************)
LEMMA PurchaseMovesGold ==
    ASSUME MarketInv, MarketGold, ShopTurn
    PROVE  /\ \A u \in Procs, g \in Guilds : Apart(u, g)
           /\ \A g \in Guilds : pouch'[g].reserved = pouch[g].reserved
           /\ AllGold(pouch') = AllGold(pouch)
<1> DEFINE Fine == /\ \A u \in Procs, g \in Guilds : Apart(u, g)
                   /\ \A g \in Guilds : pouch'[g].reserved = pouch[g].reserved
                   /\ AllGold(pouch') = AllGold(pouch)
<1>1. /\ LP!SaleInv /\ LP!SalesAssumption /\ PouchInv /\ PouchTableAssumption
      /\ \A g \in Guilds : pouch[g].total \in Int
  BY SameAssumptions, PouchTableAssumption, RowFields
     DEF MarketInv, MarketGold, LP!SaleInv, LP!SalesAssumption, AuctionInv, PouchInv, PouchTypeOK
<1>2. \A t \in Buyers : t \in Txs /\ Procs \subseteq Txs \ {t}
  BY MarketAssumption DEF MarketAssumption, Procs
<1>3. ASSUME UNCHANGED <<pouch, draft, holder>>
      PROVE  Fine
  <2>1. \A u \in Procs, g \in Guilds : SeenRow(u, g)' = SeenRow(u, g)
    BY <1>3 DEF SeenRow
  <2> QED
    BY <1>3, <2>1 DEF Apart
<1>4. ASSUME NEW t \in Buyers, NEW h \in Guilds, NEW gp, NEW type, NEW amount,
             LP!RowFree(t, h), LP!WriteRow(t, h, gp, type, amount)
      PROVE  Fine
  <2>1. /\ RowFree(t, h) /\ holder' = [holder EXCEPT ![h] = t]
        /\ draft' = [draft EXCEPT ![h] = gp] /\ pouch' = pouch
    BY <1>4 DEF LP!RowFree, RowFree, LP!WriteRow
  <2>2. \A u \in Txs \ {t}, g \in Guilds : Apart(u, g)
    BY <1>1, <1>2, <2>1, WriteApart
  <2> QED
    BY <1>2, <2>1, <2>2
<1>5. ASSUME NEW t \in Buyers, LP!Undo(t)
      PROVE  Fine
  <2>1. RollbackRows(t)
    BY <1>5 DEF LP!Undo, LP!RollbackRows, RollbackRows, LP!NoEntries, NoEntries,
                LP!EmptyLog, EmptyLog, LP!TransactionType, TransactionType
  <2>2. pouch' = pouch /\ \A u \in Txs \ {t}, g \in Guilds : Apart(u, g)
    BY <1>1, <1>2, <2>1, RollbackApart
  <2> QED
    BY <1>2, <2>2
<1>6. ASSUME NEW t \in Buyers, LP!CommitPurchase(t)
      PROVE  Fine
  <2>1. CommitRows(t)
    BY <1>6 DEF LP!CommitPurchase, LP!CommitRows, CommitRows, LP!NoEntries, NoEntries,
                LP!EmptyLog, EmptyLog, LP!TransactionType, TransactionType
  <2>2. \A u \in Txs \ {t}, g \in Guilds : Apart(u, g)
    BY <1>1, <1>2, <2>1, CommitApart
  <2> DEFINE v == LP!Seller(t)
             w == ptx[t].guild
             p == LP!Total(t)
  <2>3. ptx[t].pc \in LP!HeldPC
    BY <1>6 DEF LP!CommitPurchase, LP!HeldPC
  <2>4. v \in Guilds /\ w \in Guilds /\ p \in Int
    BY <1>1, <2>3, SameAssumptions, LP!PurchaseAmounts
  <2>5. \A g \in Guilds :
           /\ pouch'[g].total = pouch[g].total - (IF g = w THEN p ELSE 0)
                                               + (IF g = v THEN p ELSE 0)
           /\ pouch'[g].reserved = pouch[g].reserved
    BY <1>1, <1>6, SameAssumptions, LP!CommitMovesGold
  <2> HIDE DEF v, w, p
  <2>6. Payment(v, w, p)
    BY <1>1, <2>4, <2>5 DEF Gain, Payment
  <2>7. AllGold(pouch') = AllGold(pouch)
    BY <1>1, <2>4, <2>6, PaymentKeepsGold
  <2> QED
    BY <1>2, <2>2, <2>5, <2>7
<1> HIDE DEF Fine
<1>7. ASSUME NEW t \in Buyers, LP!ReserveTotal(t) \/ LP!SettleTotal(t) \/ LP!CreditSeller(t)
      PROVE  Fine
  <2>1. ptx[t].pc \in LP!HeldPC
    BY <1>7 DEF LP!ReserveTotal, LP!SettleTotal, LP!CreditSeller, LP!HeldPC
  <2>2. ptx[t].guild \in Guilds /\ LP!Seller(t) \in Guilds
    BY <1>1, <2>1, SameAssumptions, LP!PurchaseAmounts
  <2> QED
    BY <1>4, <1>7, <2>2 DEF LP!ReserveTotal, LP!SettleTotal, LP!CreditSeller
<1>8. ASSUME NEW t \in Buyers, LP!PurchaseRequest(t) \/ LP!LockListing(t)
      PROVE  Fine
  BY <1>3, <1>8 DEF LP!PurchaseRequest, LP!BeginPurchase, LP!LockListing, LP!pouchVars
<1>9. ASSUME LP!CreateRequest
      PROVE  Fine
  BY <1>3, <1>9 DEF LP!CreateRequest, LP!CreateItem, LP!pouchVars
<1>10. ASSUME NEW t \in Buyers, LP!RefusePurchase(t) \/ LP!FailPurchase(t)
       PROVE  Fine
  BY <1>5, <1>10 DEF LP!RefusePurchase, LP!FailPurchase
<1>11. Fine
  BY <1>5, <1>6, <1>7, <1>8, <1>9, <1>10 DEF ShopTurn, LP!PurchaseStep
<1> QED
  BY <1>11 DEF Fine

(***************************************************************************)
(* What is reserved for bids, and what a settlement has half done, is not  *)
(* disturbed by purchases.                                                 *)
(***************************************************************************)
LEMMA EscrowUndisturbed ==
    ASSUME MarketInv, MarketInv', MarketGold, ShopTurn, UNCHANGED <<auctionVars, tx, clockVars>>
    PROVE  PromiseInv' /\ EscrowInv'
<1>1. UNCHANGED <<auctions, bids, tx>>
  BY DEF auctionVars
<1>2. PromiseInv'
  BY <1>1 DEF MarketGold, PromiseInv
<1>3. /\ \A u \in Procs, g \in Guilds : Apart(u, g)
      /\ \A g \in Guilds : pouch'[g].reserved = pouch[g].reserved
      /\ AllGold(pouch') = AllGold(pouch)
  BY PurchaseMovesGold
<1>4. ASSUME NEW u \in Procs, NEW g \in Guilds
      PROVE  /\ (SeenRow(u, g)').reserved = pouch'[g].reserved + Held(tx'[u], bids', g)
             /\ (SeenRow(u, g)').total = pouch'[g].total + Moved(tx'[u], auctions', bids', g)
  <2>1. /\ SeenRow(u, g).reserved = pouch[g].reserved + Held(tx[u], bids, g)
        /\ SeenRow(u, g).total = pouch[g].total + Moved(tx[u], auctions, bids, g)
    BY DEF MarketGold, EscrowInv, Backed
  <2>2. Held(tx[u], bids, g) \in Int /\ Moved(tx[u], auctions, bids, g) \in Int
    BY TablesHold, Types, EffectTypes, AuctionAssumption DEF MarketInv
  <2>3. /\ pouch[g].reserved \in Int /\ pouch[g].total \in Int
        /\ pouch'[g].reserved \in Int /\ pouch'[g].total \in Int
    BY RowFields DEF MarketInv, AuctionInv, PouchInv, PouchTypeOK
  <2>4. CASE SeenRow(u, g)' = SeenRow(u, g) /\ pouch'[g] = pouch[g]
    BY <1>1, <2>1, <2>4
  <2>5. CASE SeenRow(u, g)' = pouch'[g] /\ SeenRow(u, g) = pouch[g]
    <3>1. Held(tx[u], bids, g) = 0 /\ Moved(tx[u], auctions, bids, g) = 0
      BY <2>1, <2>2, <2>3, <2>5
    <3> QED
      BY <1>1, <2>3, <2>5, <3>1
  <2> QED
    BY <1>3, <2>4, <2>5 DEF Apart
<1>5. \A g \in Guilds : pouch'[g].reserved = Owed(bids', ActiveBy(bids', g))
  BY <1>1, <1>3 DEF MarketGold, EscrowInv
<1>6. AllGold(pouch') = Cardinality(Guilds) * InitialGold
  BY <1>3 DEF MarketGold, EscrowInv
<1> QED
  BY <1>2, <1>4, <1>5, <1>6 DEF EscrowInv, Backed

(***************************************************************************)
(* Every step of the market keeps MarketGold.                              *)
(***************************************************************************)
LEMMA GoldStep ==
    ASSUME MarketInv, MarketInv', MarketGold, [MarketNext]_marketVars
    PROVE  MarketGold'
<1>1. LP!SaleInv /\ LP!SalesAssumption
  BY SameAssumptions DEF MarketInv, MarketGold, LP!SaleInv, LP!SalesAssumption
<1>2. CASE HouseTurn /\ UNCHANGED shopVars
  BY <1>2, HouseKeepsGold, PurchasesCarryOn DEF MarketGold, HouseMove
<1>3. CASE ShopTurn /\ UNCHANGED <<auctionVars, tx, clockVars>>
  <2>1. LP!BookKeeping'
    <3>1. CASE LP!ListingNext
      BY <1>1, <3>1, SameAssumptions, LP!BooksKept
    <3>2. ASSUME NEW t \in Buyers, LP!Undo(t)
          PROVE  LP!BookKeeping'
      BY <1>1, <3>2, SameAssumptions, LP!UndoKeepsBooks
    <3> QED
      BY <1>3, <3>1, <3>2 DEF ShopTurn, LP!ListingNext
  <2> QED
    BY <1>3, <2>1, EscrowUndisturbed DEF MarketGold
<1>4. CASE Crash /\ LP!Restart
  BY <1>1, <1>4, SameAssumptions, HouseKeepsGold, LP!RestartKeepsBooks DEF MarketGold, HouseMove
<1> QED
  BY <1>2, <1>3, <1>4, WhoseStep

(***************************************************************************)
(* MarketGold is inductive relative to MarketInv.                          *)
(***************************************************************************)
THEOREM MarketGoldInvariant == MarketSpec => []MarketGold
<1>1. MarketInit => MarketGold
  <2> SUFFICES ASSUME MarketInit PROVE MarketGold
    OBVIOUS
  <2>1. AuctionInit /\ LP!ListingInit /\ MarketInv
    BY SameSteps, MarketInitEstablishes DEF MarketInit
  <2>2. PromiseInv
    <3>1. \A t \in Procs : tx[t].pc = "idle"
      BY <2>1 DEF AuctionInit, Idle, Procs
    <3> QED
      BY <3>1, NothingPromised DEF PromiseInv
  <2>3. EscrowInv
    BY <2>1, SeedIsBacked, PouchTableAssumption, AuctionAssumption DEF MarketInv
  <2>4. LP!BookKeeping
    BY <2>1, SameAssumptions, LP!SeedKeepsBooks DEF MarketInv, LP!SalesAssumption
  <2> QED
    BY <2>2, <2>3, <2>4 DEF MarketGold
<1>2. MarketInv /\ MarketInv' /\ MarketGold /\ [MarketNext]_marketVars => MarketGold'
  BY GoldStep
<1> QED
  BY <1>1, <1>2, MarketInvariant, PTL DEF MarketSpec

(***************************************************************************)
(* Beside any purchases a guild has reserved what its standing bids come   *)
(* to, no release or payment finds a reservation gone, and gold is neither *)
(* made nor destroyed.                                                     *)
(***************************************************************************)
THEOREM MarketKeepsGold == MarketSpec => [](EscrowExact /\ ReservationStands /\ GoldConserved)
<1>1. MarketInv /\ MarketGold => EscrowExact /\ ReservationStands /\ GoldConserved
  BY EscrowIsOwed, ReservationsAreThere, AuctionAssumption DEF MarketInv, MarketGold, EscrowInv
<1> QED
  BY <1>1, MarketInvariant, MarketGoldInvariant, PTL
=============================================================================
