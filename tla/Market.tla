------------------------------- MODULE Market -------------------------------
(***************************************************************************)
(* The whole market: the auction house (Auctions) and the fixed-price      *)
(* sales (Listings) run in one server, on one database.  They meet in the  *)
(* gold pouches: a guild's gold may be reserved by its bids, charged by    *)
(* the Settler and spent by its purchases at the same time, and each of    *)
(* the transactions waits for the row locks of the others.                 *)
(***************************************************************************)
EXTENDS AuctionProperties

CONSTANTS Buyers, SeedOffers, Quantities, Prices, MaxListings

VARIABLES listings, stock, ptx

\* The faults of the two halves are counted together.
L == INSTANCE Listings WITH failures <- faults, MaxFailures <- MaxFaults

ASSUME MarketAssumption ==
    /\ L!ListingAssumption
    /\ Txs = Buyers \cup Handlers \cup Settlers
    /\ Buyers \cap (Handlers \cup Settlers) = {}

shopVars == <<listings, stock, ptx>>
marketVars == <<vars, shopVars>>

MarketInit == AuctionInit /\ L!ListingInit

-----------------------------------------------------------------------------
(* Row locks.                                                              *)

Busy(t) == IF t \in Buyers THEN ptx[t].pc # "idle" ELSE tx[t].pc # "idle"

\* The transactions t has to wait for (at most one).
Blockers(t) ==
    IF t \in Buyers THEN L!WaitsFor(t)
    ELSE {u \in Handlers \cup Settlers :
             /\ tx[t].pc \in {"bidLock", "cancelLock", "settleLock"}
             /\ u # t /\ tx[u].pc \in LockedPC /\ tx[u].auction = tx[t].auction}
         \cup {u \in Txs \ {t} : PouchOf(t) # None /\ holder[PouchOf(t)] = u}

\* t waits for a transaction that waits, directly or not, for t.
InCircle(t) ==
    LET waiting == {u \in Txs : Blockers(u) # {}}
    IN  t \in waiting /\ \E C \in SUBSET waiting : t \in C /\ UNION {Blockers(u) : u \in C} = C

\* Postgres fails the statement of one transaction in the circle; the handler
\* answers 500, the Settler logs the error and goes on with its sweep.
Victim(t) ==
    /\ InCircle(t)
    /\ IF t \in Buyers
       THEN L!Undo(t) /\ UNCHANGED <<auctionVars, tx>>
       ELSE Abort(t) /\ UNCHANGED shopVars
    /\ UNCHANGED <<clockVars, faults>>

-----------------------------------------------------------------------------
(* The two halves take turns.                                              *)

HandlerTurn(t) == HandlerStep(t) /\ UNCHANGED shopVars

SettlerTurn(s) == SettlerStep(s) /\ UNCHANGED shopVars

TickTurn(s) == Tick(s) /\ UNCHANGED shopVars

BuyerTurn(t) == L!PurchaseStep(t) /\ UNCHANGED <<auctionVars, tx>>

Request ==
    \/ \E t \in Handlers : Begin(t) /\ UNCHANGED shopVars
    \/ /\ L!CreateRequest \/ \E t \in Buyers : L!PurchaseRequest(t)
       /\ UNCHANGED <<auctionVars, tx>>

MarketFault ==
    \/ \E t \in Handlers \cup Settlers : Fault(t) /\ UNCHANGED shopVars
    \/ \E t \in Buyers : L!FailPurchase(t) /\ UNCHANGED <<auctionVars, tx>>
    \* The server dies, and all its transactions with it.
    \/ /\ Crash
       /\ ptx' = [t \in Buyers |-> L!NoPurchase]
       /\ UNCHANGED <<listings, stock>>

MarketTime == Time /\ UNCHANGED shopVars

\* The server waits for requests.
AtRest == (\A t \in Txs : ~Busy(t)) /\ UNCHANGED marketVars

MarketNext ==
    \/ Request
    \/ \E t \in Handlers : HandlerTurn(t)
    \/ \E s \in Settlers : TickTurn(s) \/ SettlerTurn(s)
    \/ \E t \in Buyers : BuyerTurn(t)
    \/ \E t \in Txs : Victim(t)
    \/ MarketFault
    \/ MarketTime
    \/ AtRest

MarketSpec == MarketInit /\ [][MarketNext]_marketVars

\* Transactions run to the end, time passes, the ticker keeps firing, Postgres
\* hands a row lock to its waiters in turn (hence SF) and breaks every deadlock.
MarketFairness ==
    /\ WF_marketVars(MarketTime)
    /\ \A t \in Handlers : SF_marketVars(HandlerTurn(t))
    /\ \A s \in Settlers : WF_marketVars(TickTurn(s)) /\ SF_marketVars(SettlerTurn(s))
    /\ \A t \in Buyers : SF_marketVars(BuyerTurn(t))
    /\ \A t \in Txs : WF_marketVars(Victim(t))

FairMarketSpec == MarketSpec /\ MarketFairness

-----------------------------------------------------------------------------

(***************************************************************************)
(* Every transaction that is begun ends, whatever the order in which bids, *)
(* cancellations, purchases and the Settler take their locks: the Settler, *)
(* which locks up to one pouch per bidder, may close a circle with         *)
(* purchases, and no circle stays closed.                                  *)
(***************************************************************************)
TransactionsEnd == \A t \in Txs : Busy(t) ~> ~Busy(t)

(***************************************************************************)
(* An auction that is over is settled, also when the Settler keeps meeting *)
(* the purchases of the same guilds, if these come to an end.  (Postgres   *)
(* may pick the Settler as the victim of one circle and a purchase of the  *)
(* next: a guild that repeats its request over and over can put a          *)
(* settlement off from sweep to sweep.)                                    *)
(***************************************************************************)
SettledOnceCalm == <>[](\A t \in Buyers : ~Busy(t)) => EventuallySettled
=============================================================================
