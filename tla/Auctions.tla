------------------------------ MODULE Auctions ------------------------------
(***************************************************************************)
(* Auctions of LEGENDARY items: AuctionService (CreateAuction, PlaceBid,   *)
(* CancelBid), run by concurrent HTTP handlers, and the Settler that       *)
(* sweeps up the auctions whose time is over.  Each of them is one         *)
(* database transaction; an action is the part of a handler between two    *)
(* points at which it may have to wait for a row lock.                     *)
(*                                                                         *)
(* The rows of an auction and of its bids are written only by the          *)
(* transaction that holds the auction's row lock, and nobody else sees the *)
(* writes before COMMIT: the variables auctions, bids and inv hold the     *)
(* committed rows, and what a transaction has decided but not committed is *)
(* in its own record tx[t].  Pouches are shared between auctions and keep  *)
(* their own locks (module PouchTable).                                    *)
(***************************************************************************)
EXTENDS PouchTable, Sequences, FiniteSetsExt

CONSTANTS Items,               \* the LEGENDARY items
          SeedOwner,           \* the guild each of them is seeded to
          Handlers,            \* concurrent HTTP requests
          Settlers,            \* settlement loops (one per server process)
          Amounts, Durations, BasePrices,            \* request inputs
          second, MaxDuration, \* time.Second and the largest time.Duration
          bidExtensionWindow, bidExtensionAmount,
          MaxAuctions, MaxBids, MaxFaults            \* bounds

ASSUME AuctionAssumption ==
    /\ SeedOwner \in [Items -> Guilds]
    /\ Handlers \cup Settlers \subseteq Txs /\ Handlers \cap Settlers = {}
    /\ None \notin Items
    /\ Amounts \subseteq Nat /\ BasePrices \subseteq Nat
    /\ second \in Nat \ {0} /\ MaxDuration \in Nat
    /\ Durations \subseteq 0 .. MaxDuration   \* an int is as wide as a Duration
    /\ bidExtensionWindow \in Nat /\ bidExtensionAmount \in Nat
    /\ bidExtensionWindow <= bidExtensionAmount
    /\ MaxAuctions \in Nat /\ MaxBids \in Nat /\ MaxFaults \in Nat

VARIABLES auctions,            \* the auctions table; the id is the index
          bids,                \* the bids table; the id is the index
          inv,                 \* LEGENDARY rows of inventories: <<guild, item>>
          tx,                  \* the state of every transaction
          faults               \* infrastructure faults so far

auctionVars == <<auctions, bids, inv>>
vars == <<pouch, draft, holder, log, newLog, now, today, auctions, bids, inv, tx, faults>>

minBidNumerator == 105
minBidDenominator == 100

AuctionStatus == {"ACTIVE", "EXPIRED"}
BidStatus == {"ACTIVE", "CANCELLED", "WON", "LOST"}

\* Where a transaction stands: the step it takes next.  From LockedPC it holds
\* the row lock of its auction.
LockedPC == {"bidReserve", "bidCommit", "cancelRelease", "cancelCommit",
             "settleWinner", "creditOwner", "transfer", "releaseLosers", "expire"}
PC == LockedPC \cup {"idle", "insert", "bidLock", "cancelLock", "settleLock"}

\* Ids start at 1 (BIGSERIAL), so 0 stands for "no row".
Idle == [pc |-> "idle", guild |-> None, item |-> None, auction |-> 0, bid |-> 0,
         amount |-> 0, duration |-> 0, at |-> 0, queue |-> {}, losers |-> {}]

AuctionInit ==
    /\ PouchInit
    /\ auctions = <<>> /\ bids = <<>>
    /\ inv = {<<SeedOwner[i], i>> : i \in Items}
    /\ tx = [t \in Handlers \cup Settlers |-> Idle]
    /\ faults = 0

-----------------------------------------------------------------------------
(* Queries.                                                                *)

ActiveAuctions(i) ==
    {a \in DOMAIN auctions : auctions[a].item = i /\ auctions[a].status = "ACTIVE"}

BidsOf(a) == {b \in DOMAIN bids : bids[b].auction = a}

ActiveBidsOf(a) == {b \in BidsOf(a) : bids[b].status = "ACTIVE"}

\* ORDER BY amount DESC LIMIT 1; a tie would leave several candidates.
Highest(a) ==
    {b \in ActiveBidsOf(a) : \A c \in ActiveBidsOf(a) : bids[c].amount <= bids[b].amount}

\* Mutant: truncating division.
ceilDiv_Truncate(a, b) == a \div b

ceilDiv(a, b) == (a + b - 1) \div b

\* The least amount the next bid on a may have.
MeetsFloor(a, amount) ==
    IF Highest(a) = {}
    THEN amount >= auctions[a].basePrice
    ELSE \A h \in Highest(a) :
            amount >= ceilDiv(bids[h].amount * minBidNumerator, minBidDenominator)

\* Mutant: the auction row is read without FOR UPDATE.
AuctionFree_NoForUpdate(t, a) == TRUE

\* SELECT ... FROM auctions ... FOR UPDATE returns only when this holds.
AuctionFree(t, a) ==
    \A u \in Handlers \cup Settlers :
        u # t => ~(tx[u].pc \in LockedPC /\ tx[u].auction = a)

-----------------------------------------------------------------------------
(* How a transaction goes on, and how it ends.                             *)

\* Used by the bounds on the number of rows only.
InFlight(steps) == {t \in Handlers : tx[t].pc \in steps}

Goto(t, step) == tx' = [tx EXCEPT ![t].pc = step]

\* Mutant: the sweep tries the same auction again.
Return_Again(t) ==
    tx' = [tx EXCEPT ![t] = IF tx[t].queue = {} THEN Idle
                            ELSE [Idle EXCEPT !.pc = "settleLock",
                                              !.auction = tx[t].auction,
                                              !.queue = tx[t].queue]]

\* The handler returns; a settler goes on with the next auction of its sweep.
Return(t) ==
    LET rest == tx[t].queue \ {tx[t].auction}
    IN  tx' = [tx EXCEPT ![t] =
                 IF rest = {} THEN Idle
                 ELSE [Idle EXCEPT !.pc = "settleLock", !.auction = Min(rest),
                                   !.queue = rest]]

\* The deferred tx.Rollback.
Abort(t) == RollbackRows(t) /\ Return(t) /\ UNCHANGED auctionVars

-----------------------------------------------------------------------------
(* CreateAuction: the ownership of the item is read without a lock; the    *)
(* partial unique index decides at the INSERT.                             *)

\* time.Duration(d) * time.Second, which wraps like every signed product in Go.
DurationOf(d) ==
    ((d * second + MaxDuration + 1) % (2 * MaxDuration + 2)) - (MaxDuration + 1)

BeginCreate(t, g, i, d) ==
    /\ tx[t].pc = "idle"
    /\ Len(auctions) + Cardinality(InFlight({"insert"})) < MaxAuctions
    /\ d > 0
    /\ <<g, i>> \in inv
    /\ tx' = [tx EXCEPT ![t] = [Idle EXCEPT !.pc = "insert", !.guild = g, !.item = i,
                                            !.duration = d, !.at = now]]
    /\ UNCHANGED <<pouchVars, clockVars, auctionVars, faults>>

OneActivePerItem(i) == ActiveAuctions(i) = {}

\* The unique index, and CHECK (end_time > start_time), let the new row in.
RowAdmitted(t) == OneActivePerItem(tx[t].item) /\ DurationOf(tx[t].duration) > 0

\* INSERT and COMMIT.  The clock was read somewhere between the ownership
\* check and the INSERT.
InsertAuction(t) ==
    /\ tx[t].pc = "insert"
    /\ RowAdmitted(t)
    /\ \E p \in BasePrices, start \in tx[t].at .. now :
          auctions' = Append(auctions, [item |-> tx[t].item, owner |-> tx[t].guild,
                                        status |-> "ACTIVE", basePrice |-> p,
                                        endTime |-> start + DurationOf(tx[t].duration)])
    /\ Return(t)
    /\ UNCHANGED <<pouchVars, clockVars, bids, inv, faults>>

-----------------------------------------------------------------------------
(* PlaceBid.                                                               *)

\* The ACTIVE auction of the item is looked up without a lock.
BeginBid(t, g, i, amount) ==
    /\ tx[t].pc = "idle"
    /\ Len(bids) + Cardinality(InFlight({"bidLock", "bidReserve", "bidCommit"})) < MaxBids
    /\ amount > 0
    /\ \E a \in ActiveAuctions(i) :
          /\ auctions[a].owner # g
          /\ tx' = [tx EXCEPT ![t] = [Idle EXCEPT !.pc = "bidLock", !.guild = g,
                                                  !.auction = a, !.amount = amount]]
    /\ UNCHANGED <<pouchVars, clockVars, auctionVars, faults>>

\* The checks PlaceBid makes once it has the auction.
BidAllowed(t) ==
    LET a == tx[t].auction
    IN  /\ auctions[a].status = "ACTIVE"
        /\ now <= auctions[a].endTime
        /\ MeetsFloor(a, tx[t].amount)

LockForBid(t) ==
    /\ tx[t].pc = "bidLock"
    /\ AuctionFree(t, tx[t].auction)
    /\ BidAllowed(t)
    /\ tx' = [tx EXCEPT ![t] = [@ EXCEPT !.pc = "bidReserve", !.at = now]]
    /\ UNCHANGED <<pouchVars, clockVars, auctionVars, faults>>

ReserveForBid(t) ==
    LET g == tx[t].guild
    IN  /\ tx[t].pc = "bidReserve"
        /\ RowFree(t, g)
        /\ ReserveOK(SeenRow(t, g), tx[t].amount, today)
        /\ WriteRow(t, g, Reserve(SeenRow(t, g), tx[t].amount, today),
                    "RESERVE", tx[t].amount)
        /\ Goto(t, "bidCommit")
        /\ UNCHANGED <<clockVars, auctionVars, faults>>

\* Sniping protection: a bid in the last window pushes the end back.
ExtendedEnd(endTime, at) ==
    IF endTime - at <= bidExtensionWindow THEN endTime + bidExtensionAmount ELSE endTime

CommitBid(t) ==
    LET a == tx[t].auction
    IN  /\ tx[t].pc = "bidCommit"
        /\ bids' = Append(bids, [auction |-> a, guild |-> tx[t].guild,
                                 amount |-> tx[t].amount, status |-> "ACTIVE",
                                 at |-> tx[t].at])
        /\ auctions' = [auctions EXCEPT ![a].endTime = ExtendedEnd(@, tx[t].at)]
        /\ CommitRows(t)
        /\ Return(t)
        /\ UNCHANGED <<clockVars, inv, faults>>

-----------------------------------------------------------------------------
(* CancelBid.                                                              *)

\* The bid is looked up without a lock, to learn its auction.
BeginCancel(t, g, i, b) ==
    /\ tx[t].pc = "idle"
    /\ b \in DOMAIN bids
    /\ tx' = [tx EXCEPT ![t] = [Idle EXCEPT !.pc = "cancelLock", !.guild = g, !.item = i,
                                            !.auction = bids[b].auction, !.bid = b]]
    /\ UNCHANGED <<pouchVars, clockVars, auctionVars, faults>>

\* Mutant: the standing highest bid may be withdrawn.
CancelAllowed_Highest(t) ==
    LET a == tx[t].auction
        b == tx[t].bid
    IN  /\ auctions[a].item = tx[t].item
        /\ bids[b].guild = tx[t].guild
        /\ auctions[a].status = "ACTIVE"
        /\ bids[b].status = "ACTIVE"

\* Mutant: the bid's own status is not looked at again under the lock.
CancelAllowed_StaleStatus(t) ==
    LET a == tx[t].auction
        b == tx[t].bid
    IN  /\ auctions[a].item = tx[t].item
        /\ bids[b].guild = tx[t].guild
        /\ auctions[a].status = "ACTIVE"
        /\ b \notin Highest(a)

\* The checks CancelBid makes once it has the auction, on the re-read bid.
CancelAllowed(t) ==
    LET a == tx[t].auction
        b == tx[t].bid
    IN  /\ auctions[a].item = tx[t].item
        /\ bids[b].guild = tx[t].guild
        /\ auctions[a].status = "ACTIVE"
        /\ bids[b].status = "ACTIVE"
        /\ b \notin Highest(a)

LockForCancel(t) ==
    /\ tx[t].pc = "cancelLock"
    /\ AuctionFree(t, tx[t].auction)
    /\ CancelAllowed(t)
    /\ Goto(t, "cancelRelease")
    /\ UNCHANGED <<pouchVars, clockVars, auctionVars, faults>>

ReleaseForCancel(t) ==
    LET b == bids[tx[t].bid]
    IN  /\ tx[t].pc = "cancelRelease"
        /\ RowFree(t, b.guild)
        /\ ReleaseOK(SeenRow(t, b.guild), b.amount)
        /\ WriteRow(t, b.guild, Release(SeenRow(t, b.guild), b.amount),
                    "RELEASE", b.amount)
        /\ Goto(t, "cancelCommit")
        /\ UNCHANGED <<clockVars, auctionVars, faults>>

CommitCancel(t) ==
    /\ tx[t].pc = "cancelCommit"
    /\ bids' = [bids EXCEPT ![tx[t].bid].status = "CANCELLED"]
    /\ CommitRows(t)
    /\ Return(t)
    /\ UNCHANGED <<clockVars, auctions, inv, faults>>

-----------------------------------------------------------------------------
(* The Settler.                                                            *)

\* Tick: list the auctions that are over and take them one by one.
Tick(s) ==
    LET due == {a \in DOMAIN auctions :
                  auctions[a].status = "ACTIVE" /\ auctions[a].endTime <= now}
    IN  /\ tx[s].pc = "idle"
        /\ due # {}
        /\ tx' = [tx EXCEPT ![s] = [Idle EXCEPT !.pc = "settleLock", !.auction = Min(due),
                                                !.queue = due]]
        /\ UNCHANGED <<pouchVars, clockVars, auctionVars, faults>>

\* Mutant: does not look at the end again, which a bid may have pushed back.
Eligible_StaleEnd(a) == auctions[a].status = "ACTIVE"

\* Still ACTIVE, and over for good, now that the row is locked.
Eligible(a) == auctions[a].status = "ACTIVE" /\ now > auctions[a].endTime

\* Without an ACTIVE bid there is nothing to pay or to hand over.
LockForSettlement(s) ==
    LET a == tx[s].auction
    IN  /\ tx[s].pc = "settleLock"
        /\ AuctionFree(s, a)
        /\ Eligible(a)
        /\ \/ /\ Highest(a) = {}
              /\ Goto(s, "expire")
           \/ \E w \in Highest(a) :
                 tx' = [tx EXCEPT ![s] = [@ EXCEPT !.pc = "settleWinner", !.bid = w]]
        /\ UNCHANGED <<pouchVars, clockVars, auctionVars, faults>>

SettleWinner(s) ==
    LET w == bids[tx[s].bid]
    IN  /\ tx[s].pc = "settleWinner"
        /\ RowFree(s, w.guild)
        /\ SettleOK(SeenRow(s, w.guild), w.amount, "AUCTION_WIN", today)
        /\ WriteRow(s, w.guild, Settle(SeenRow(s, w.guild), w.amount, today),
                    "AUCTION_WIN", w.amount)
        /\ Goto(s, "creditOwner")
        /\ UNCHANGED <<clockVars, auctionVars, faults>>

CreditOwner(s) ==
    LET owner == auctions[tx[s].auction].owner
        amount == bids[tx[s].bid].amount
    IN  /\ tx[s].pc = "creditOwner"
        /\ RowFree(s, owner)
        /\ CreditOK(amount)
        /\ WriteRow(s, owner, Credit(SeenRow(s, owner), amount), "CREDIT", amount)
        /\ Goto(s, "transfer")
        /\ UNCHANGED <<clockVars, auctionVars, faults>>

\* The seller's inventory row must be there.
SellerHasItem(a) == <<auctions[a].owner, auctions[a].item>> \in inv

Losers(a, w) == ActiveBidsOf(a) \ {w}

\* The loop over the bids that did not win: rest is what is left of it.
LoopOver(s, rest) ==
    LET next == IF rest = {} THEN "expire" ELSE "releaseLosers"
    IN  tx' = [tx EXCEPT ![s] = [@ EXCEPT !.pc = next, !.losers = rest]]

\* Lock the seller's inventory row, hand the item over, list the other bids.
Transfer(s) ==
    LET a == tx[s].auction
    IN  /\ tx[s].pc = "transfer"
        /\ SellerHasItem(a)
        /\ LoopOver(s, Losers(a, tx[s].bid))
        /\ UNCHANGED <<pouchVars, clockVars, auctionVars, faults>>

\* One turn of the loop over the bids that did not win, in the order of their ids.
ReleaseLoser(s) ==
    LET l == Min(tx[s].losers)
        g == bids[l].guild
    IN  /\ tx[s].pc = "releaseLosers"
        /\ RowFree(s, g)
        /\ ReleaseOK(SeenRow(s, g), bids[l].amount)
        /\ WriteRow(s, g, Release(SeenRow(s, g), bids[l].amount),
                    "RELEASE", bids[l].amount)
        /\ LoopOver(s, tx[s].losers \ {l})
        /\ UNCHANGED <<clockVars, auctionVars, faults>>

\* Mutant: a losing bid takes over the status of its auction.
Verdict_Expired(b, a, w) ==
    IF b = w THEN "WON"
    ELSE IF b \in ActiveBidsOf(a) THEN "EXPIRED" ELSE bids[b].status

\* The status of bid b after auction a was won by bid w (0: by nobody).
Verdict(b, a, w) ==
    IF b = w THEN "WON"
    ELSE IF b \in ActiveBidsOf(a) THEN "LOST" ELSE bids[b].status

\* Mutant: the seller's inventory row is not deleted.
HandOver_KeepsSeller(a, w) ==
    IF w = 0 THEN inv ELSE inv \cup {<<bids[w].guild, auctions[a].item>>}

HandOver(a, w) ==
    IF w = 0 THEN inv
    ELSE (inv \ {<<auctions[a].owner, auctions[a].item>>})
            \cup {<<bids[w].guild, auctions[a].item>>}

CommitSettlement(s) ==
    LET a == tx[s].auction
        w == tx[s].bid
    IN  /\ tx[s].pc = "expire"
        /\ auctions' = [auctions EXCEPT ![a].status = "EXPIRED"]
        /\ bids' = [b \in DOMAIN bids |-> [bids[b] EXCEPT !.status = Verdict(b, a, w)]]
        /\ inv' = HandOver(a, w)
        /\ CommitRows(s)
        /\ Return(s)
        /\ UNCHANGED <<clockVars, faults>>

-----------------------------------------------------------------------------
(* Refusals, faults, and the specification.                                *)

\* The pouch whose row lock the next step of t asks for, or None.
PouchOf(t) ==
    CASE tx[t].pc = "bidReserve" -> tx[t].guild
      [] tx[t].pc \in {"cancelRelease", "settleWinner"} -> bids[tx[t].bid].guild
      [] tx[t].pc = "creditOwner" -> auctions[tx[t].auction].owner
      [] tx[t].pc = "releaseLosers" -> bids[Min(tx[t].losers)].guild
      [] OTHER -> None

\* The next step of t does not have to wait for a row lock.
Granted(t) ==
    /\ tx[t].pc \in {"bidLock", "cancelLock", "settleLock"} => AuctionFree(t, tx[t].auction)
    /\ PouchOf(t) # None => RowFree(t, PouchOf(t))

\* The checks of the next step of t succeed.
Accepted(t) ==
    LET row == SeenRow(t, PouchOf(t))
    IN  CASE tx[t].pc = "insert" -> RowAdmitted(t)
          [] tx[t].pc = "bidLock" -> BidAllowed(t)
          [] tx[t].pc = "bidReserve" -> ReserveOK(row, tx[t].amount, today)
          [] tx[t].pc = "cancelLock" -> CancelAllowed(t)
          [] tx[t].pc = "cancelRelease" -> ReleaseOK(row, bids[tx[t].bid].amount)
          [] tx[t].pc = "settleLock" -> Eligible(tx[t].auction)
          [] tx[t].pc = "settleWinner" ->
                SettleOK(row, bids[tx[t].bid].amount, "AUCTION_WIN", today)
          [] tx[t].pc = "transfer" -> SellerHasItem(tx[t].auction)
          [] tx[t].pc = "releaseLosers" -> ReleaseOK(row, bids[Min(tx[t].losers)].amount)
          [] OTHER -> TRUE

\* A check fails: the error is returned, the transaction is rolled back.
Refuse(t) ==
    /\ tx[t].pc # "idle"
    /\ Granted(t)
    /\ ~Accepted(t)
    /\ Abort(t)
    /\ UNCHANGED <<clockVars, faults>>

\* A statement fails, the client disconnects or the connection is lost.
Fault(t) ==
    /\ tx[t].pc # "idle"
    /\ faults < MaxFaults
    /\ faults' = faults + 1
    /\ Abort(t)
    /\ UNCHANGED clockVars

\* The server dies and is started again: only committed rows survive.
Crash ==
    /\ faults < MaxFaults
    /\ faults' = faults + 1
    /\ RollbackAllRows
    /\ tx' = [t \in Handlers \cup Settlers |-> Idle]
    /\ UNCHANGED <<clockVars, auctionVars>>

\* The requests: the guild is whatever the header says, the rest comes with the
\* path and the body.
CreateRequest(t) == \E g \in Guilds, i \in Items, d \in Durations : BeginCreate(t, g, i, d)

BidRequest(t) ==
    \E g \in Guilds, i \in Items, amount \in Amounts : BeginBid(t, g, i, amount)

CancelRequest(t) ==
    \E g \in Guilds, i \in Items, b \in DOMAIN bids : BeginCancel(t, g, i, b)

Begin(t) == CreateRequest(t) \/ BidRequest(t) \/ CancelRequest(t)

HandlerStep(t) ==
    \/ InsertAuction(t)
    \/ LockForBid(t) \/ ReserveForBid(t) \/ CommitBid(t)
    \/ LockForCancel(t) \/ ReleaseForCancel(t) \/ CommitCancel(t)
    \/ Refuse(t)

SettlerStep(s) ==
    \/ LockForSettlement(s) \/ SettleWinner(s) \/ CreditOwner(s) \/ Transfer(s)
    \/ ReleaseLoser(s) \/ CommitSettlement(s)
    \/ Refuse(s)

Time == AdvanceClock /\ UNCHANGED <<pouchVars, auctionVars, tx, faults>>

\* With every transaction over and nothing to sweep, the server waits for
\* requests; a transaction that can never finish would show up as a deadlock.
Quiescent ==
    /\ \A t \in Handlers \cup Settlers : tx[t].pc = "idle"
    /\ UNCHANGED vars

AuctionNext ==
    \/ \E t \in Handlers : Begin(t) \/ HandlerStep(t) \/ Fault(t)
    \/ \E s \in Settlers : Tick(s) \/ SettlerStep(s) \/ Fault(s)
    \/ Crash
    \/ Time
    \/ Quiescent

AuctionSpec == AuctionInit /\ [][AuctionNext]_vars
=============================================================================
